--------------------------- MODULE SettingsProofs ---------------------------
(***************************************************************************)
(* What the state files promise the dashboard, for all limits and steps of *)
(* volume and brightness, any number of processes, names and attempts: a   *)
(* file is whole and no older than the last synced save, a save tells the  *)
(* truth and leaves no temporary file, what is shown is what the file      *)
(* holds, and the file with everything that happens to it is an atomic     *)
(* cell.  And of the screens: no two buttons overlap, a key types what it  *)
(* shows, and the editor's message about a profile is true.                *)
(*                                                                         *)
(* None of these is inductive.  DirectoryInv has every directory state a   *)
(* power failure may bring back (DiskInv), what a temporary file holds at  *)
(* each call of a save (SaveInv) and the values the next one is computed   *)
(* from (ValueInv).  SessionInv has what the program shows meanwhile, and  *)
(* CleanInv which temporary file it works on.  EditorSteps has what the    *)
(* editor and the helper it waits for agree on (HandingInv) and which      *)
(* target a finger that is down has found (PressInv).                      *)
(***************************************************************************)
EXTENDS Settings, Lemmas

\* What a program saves, and what may be found where it has saved.
Content ==
  CASE kind = "volume" -> 0 .. FullVolume
    [] kind = "brightness" -> Brightnesses
    [] OTHER -> {0, 1}
Found ==
  Content \cup {Missing} \cup IF kind = "volume" THEN {On, Off} ELSE {}

SavingPcs == {"open", "write", "sync", "close", "rename", "unlink", "directory"}

\* Whatever is on the disk is whole, and not older than the last synced save.
DiskInv ==
  /\ Entries(file, temps) \in disk
  /\ \A entries \in disk :
       entries.file.value \in Found /\ entries.file.synced = TRUE
  /\ ConfirmedSurvives

\* Where a save is, what it has written, and where it may be for a program
\* that has only begun.
SaveInv ==
  /\ pc # "refused"
  /\ pc \in SavingPcs => requested \in Content /\ requested \in since
  /\ pc = "sync" => temporary = File(requested, FALSE)
  /\ pc \in {"close", "rename"} => temporary = File(requested, TRUE)
  /\ pc = "directory" => file.value = requested
  /\ loading = "start" => pc \in SavingPcs
  /\ loading = "start" \/ pc = "start" => writer.directory # "reported"

\* The values the next one is computed from.
ValueInv ==
  /\ kind \in {"volume", "brightness", "keymap", "save file"}
  /\ kind # "save file" /\ loading # "start" /\ pc \in SavingPcs \cup {"idle"} =>
       memory \in Content
  /\ actor = "player" =>
       /\ kind = "volume" /\ menu_value \in Content
       /\ loading # "start" /\ pc # "start"
  /\ last_audible \in 0 .. FullVolume
  /\ device \in 0 .. MaxBrightness

DirectoryInv == DiskInv /\ SaveInv /\ ValueInv

-----------------------------------------------------------------------------
\* A program keeps to its file.
LEMMA SameContent ==
  ASSUME kind' = kind
  PROVE  Content' = Content /\ Found' = Found
  BY DEF Content, Found

\* Values that can be saved are none of the marks for other contents.
LEMMA ContentIsWhole == Found \subseteq Values \cup {Missing} /\ Content \subseteq Values
<1>1. Brightnesses \subseteq 0 .. FullBrightness
  BY DEF Brightnesses
<1> QED
  BY <1>1, SettingsAssumption DEF Found, Content

\* The state file is one of the files a power failure may leave.
LEMMA FileIsFound ==
  ASSUME DiskInv
  PROVE  file.value \in Found /\ file.synced = TRUE
  BY DEF DiskInv, Entries

\* The limits and steps, without what else is assumed.
LEMMA Limits ==
  /\ FullVolume \in Nat \ {0} /\ VolumeStep \in 1 .. FullVolume
  /\ DefaultVolume \in 0 .. FullVolume
  /\ MaxBrightness \in Nat \ {0} /\ FullBrightness \in Nat \ {0}
  /\ BrightnessStep \in 1 .. FullBrightness
<1>1. /\ FullVolume \in Nat \ {0} /\ VolumeStep \in 1 .. FullVolume
      /\ DefaultVolume \in 0 .. FullVolume
      /\ MaxBrightness \in Nat \ {0} /\ FullBrightness \in Nat
      /\ BrightnessStep \in 1 .. FullBrightness
  BY SettingsAssumption, Zenon
<1> QED
  BY <1>1

\* The quotients and products that brightnesses are made of are integers.
LEMMA IntegerResults ==
  ASSUME NEW a \in Int, NEW b \in Int, NEW c \in Nat \ {0}
  PROVE  a * b \in Int /\ a \div c \in Int
  OBVIOUS

\* brightness_raw_value stays within the backlight's range.
LEMMA RawIsALevel ==
  ASSUME NEW percent \in Int
  PROVE  Raw(percent) \in 1 .. MaxBrightness
<1>1. MaxBrightness \in Nat \ {0} /\ FullBrightness \in Nat \ {0}
  BY Limits
<1>2. FullBrightness \div 2 \in Int /\ percent * MaxBrightness \in Int
  BY <1>1, IntegerResults
<1> DEFINE level == (percent * MaxBrightness + FullBrightness \div 2)
                      \div FullBrightness
<1>3. level \in Int
  BY <1>1, <1>2, IntegerResults
<1> HIDE DEF level
<1>4. Raw(percent) = Larger(1, Smaller(MaxBrightness, level))
  BY DEF Raw, level
<1> QED
  BY <1>1, <1>3, <1>4 DEF Larger, Smaller

\* The brightnesses that can be shown are the multiples of the step.
LEMMA BrightnessesAre ==
  /\ MinimumBrightness \in Brightnesses /\ FullBrightness \in Brightnesses
  /\ \A k \in Int : k * BrightnessStep \in 1 .. FullBrightness =>
       k * BrightnessStep \in Brightnesses
  /\ \A n \in Brightnesses :
       /\ n + BrightnessStep <= FullBrightness => n + BrightnessStep \in Brightnesses
       /\ n - BrightnessStep >= 1 => n - BrightnessStep \in Brightnesses
<1>1. /\ FullBrightness \in Nat \ {0} /\ BrightnessStep \in Nat \ {0}
      /\ BrightnessStep <= FullBrightness /\ FullBrightness % BrightnessStep = 0
  <2>1. FullBrightness % BrightnessStep = 0
    BY SettingsAssumption, Zenon
  <2> QED
    BY <2>1, Limits
<1>2. ASSUME NEW k \in Int, k * BrightnessStep \in 1 .. FullBrightness
      PROVE  k * BrightnessStep \in Brightnesses
  <2>1. PICK n \in 1 .. FullBrightness : n = k * BrightnessStep
    BY <1>2
  <2>2. n = (k * BrightnessStep) + 0 /\ n \in Nat /\ 0 \in 0 .. BrightnessStep - 1
    BY <1>1, <2>1
  <2>3. n % BrightnessStep = 0
    BY <1>1, <2>2, RemainderIs
  <2> QED
    BY <2>1, <2>3 DEF Brightnesses
<1>3. MinimumBrightness \in Brightnesses
  <2>1. 1 * BrightnessStep = BrightnessStep
    BY <1>1
  <2> QED
    BY <1>1, <1>2, <2>1 DEF MinimumBrightness
<1>4. FullBrightness \in Brightnesses
  BY <1>1 DEF Brightnesses
<1>5. ASSUME NEW n \in Brightnesses
      PROVE  /\ n + BrightnessStep <= FullBrightness => n + BrightnessStep \in Brightnesses
             /\ n - BrightnessStep >= 1 => n - BrightnessStep \in Brightnesses
  <2>1. n \in 1 .. FullBrightness /\ n \in Nat /\ n % BrightnessStep = 0
    BY <1>1 DEF Brightnesses
  <2>2. PICK k \in Nat : n = k * BrightnessStep
    BY <1>1, <2>1, Multiples
  <2>3. /\ (k + 1) * BrightnessStep = n + BrightnessStep
        /\ (k - 1) * BrightnessStep = n - BrightnessStep
    BY <1>1, <2>2
  <2>4. /\ k + 1 \in Int /\ k - 1 \in Int
        /\ n + BrightnessStep >= 1 /\ n - BrightnessStep <= FullBrightness
        /\ n + BrightnessStep \in Int /\ n - BrightnessStep \in Int
    BY <1>1, <2>1
  <2>5. ASSUME n + BrightnessStep <= FullBrightness
        PROVE  n + BrightnessStep \in Brightnesses
    <3>1. n + BrightnessStep \in 1 .. FullBrightness
      BY <1>1, <2>4, <2>5
    <3> QED
      BY <1>2, <2>3, <2>4, <3>1
  <2>6. ASSUME n - BrightnessStep >= 1
        PROVE  n - BrightnessStep \in Brightnesses
    <3>1. n - BrightnessStep \in 1 .. FullBrightness
      BY <1>1, <2>4, <2>6
    <3> QED
      BY <1>2, <2>3, <2>4, <3>1
  <2> QED
    BY <2>5, <2>6
<1> QED
  BY <1>2, <1>3, <1>4, <1>5

\* load_brightness finds a brightness, whatever the device says.
LEMMA ObservedIsABrightness ==
  ASSUME device \in 0 .. MaxBrightness
  PROVE  Observed \in Brightnesses
<1>1. /\ MaxBrightness \in Nat \ {0} /\ FullBrightness \in Nat \ {0}
      /\ BrightnessStep \in 1 .. FullBrightness
      /\ device \in Int
  BY Limits
<1> DEFINE percent == (ReadDevice * FullBrightness + MaxBrightness \div 2)
                        \div MaxBrightness
           steps == (percent + BrightnessStep \div 2) \div BrightnessStep
           rounded == steps * BrightnessStep
<1>2. percent \in Int
  <2>1. device * FullBrightness \in Int /\ MaxBrightness \div 2 \in Int
    BY <1>1, IntegerResults
  <2>2. device * FullBrightness + MaxBrightness \div 2 \in Int
    BY <2>1
  <2> QED
    BY <1>1, <2>2, IntegerResults DEF ReadDevice
<1> HIDE DEF percent
<1>3. steps \in Int
  <2>1. BrightnessStep \div 2 \in Int
    BY <1>1, IntegerResults
  <2>2. percent + BrightnessStep \div 2 \in Int
    BY <1>2, <2>1
  <2> QED
    BY <1>1, <2>2, IntegerResults
<1> HIDE DEF steps
<1>4. rounded \in Int /\ (rounded \in 1 .. FullBrightness => rounded \in Brightnesses)
  BY <1>1, <1>3, IntegerResults, BrightnessesAre
<1> HIDE DEF rounded
<1>5. Observed = Larger(MinimumBrightness, Smaller(FullBrightness, rounded))
  BY DEF Observed, percent, steps, rounded
<1>6. Observed \in {MinimumBrightness, FullBrightness, rounded}
  BY <1>5 DEF Larger, Smaller
<1>7. Observed \in 1 .. FullBrightness
  BY <1>1, <1>4, <1>5 DEF Larger, Smaller, MinimumBrightness
<1> QED
  BY <1>4, <1>6, <1>7, BrightnessesAre

\* The next volume and the next brightness can be shown again.
LEMMA NextValues ==
  ASSUME ValueInv, memory \in Content, NEW target
  PROVE  /\ kind = "volume" => AfterVolume(target) \in Content
         /\ kind = "brightness" => AfterBrightness(target) \in Content
<1>1. CASE kind = "volume"
  BY <1>1, Limits DEF ValueInv, Content, AfterVolume, Smaller
<1>2. CASE kind = "brightness"
  <2>1. /\ memory \in Brightnesses /\ memory \in 1 .. FullBrightness
        /\ BrightnessStep \in 1 .. FullBrightness /\ FullBrightness \in Nat \ {0}
    BY <1>2, Limits DEF Content, Brightnesses
  <2>2. CASE target = SettingsTargetBrightnessUp
    BY <1>2, <2>1, <2>2, BrightnessesAre DEF Content, AfterBrightness, Smaller
  <2>3. CASE target # SettingsTargetBrightnessUp
    BY <1>2, <2>1, <2>3, BrightnessesAre
       DEF Content, AfterBrightness, Larger, MinimumBrightness
  <2> QED
    BY <2>2, <2>3
<1> QED
  BY <1>1, <1>2

-----------------------------------------------------------------------------
\* A save of one of the program's values may begin anywhere.
LEMMA BeginSaveKeeps ==
  ASSUME DirectoryInv, kind' = kind, NEW value \in Content, NEW reason,
         BeginSave(value, reason),
         reason = "start" => writer'.directory # "reported"
  PROVE  DiskInv' /\ SaveInv'
<1>1. Content' = Content /\ Found' = Found
  BY SameContent
<1>2. /\ UNCHANGED <<file, temps, disk, confirmed>>
      /\ since' = since \cup {value}
      /\ pc' = "open" /\ requested' = value /\ loading' = reason
  BY DEF BeginSave
<1>3. DiskInv'
  BY <1>1, <1>2 DEF DirectoryInv, DiskInv, ConfirmedSurvives
<1>4. SaveInv'
  BY <1>1, <1>2 DEF SaveInv, SavingPcs
<1> QED
  BY <1>3, <1>4

\* So may a load that keeps what it found, or the end of a program.
LEMMA KeepKeeps ==
  ASSUME DirectoryInv, kind' = kind, NEW value, Keep(value)
  PROVE  DiskInv' /\ SaveInv'
<1>1. Content' = Content /\ Found' = Found
  BY SameContent
<1>2. /\ UNCHANGED <<file, temps, disk, confirmed, since>>
      /\ pc' = "idle" /\ loading' = "no"
  BY DEF Keep
<1>3. DiskInv'
  BY <1>1, <1>2 DEF DirectoryInv, DiskInv, ConfirmedSurvives
<1>4. SaveInv'
  BY <1>2 DEF SaveInv, SavingPcs
<1> QED
  BY <1>3, <1>4

\* Nothing that ends a program touches its file.
LEMMA RefuseKeeps ==
  ASSUME DirectoryInv, kind' = kind, NEW why \in {"unsaved", "exited"},
         Refuse(why), loading # "start"
  PROVE  DiskInv' /\ SaveInv'
<1>1. Content' = Content /\ Found' = Found
  BY SameContent
<1>2. /\ UNCHANGED <<file, temps, disk, confirmed, since, loading>>
      /\ pc' = why
  BY DEF Refuse
<1>3. DiskInv'
  BY <1>1, <1>2 DEF DirectoryInv, DiskInv, ConfirmedSurvives
<1>4. SaveInv'
  BY <1>2 DEF SaveInv, SavingPcs
<1> QED
  BY <1>3, <1>4

-----------------------------------------------------------------------------
\* What a step of a save may do to the directory.
NoChange == UNCHANGED <<file, temps, disk, confirmed, since>>
NewEntry ==
  /\ UNCHANGED <<file, confirmed, since>>
  /\ disk' = disk \cup {Entries(file, temps')}
Replaced ==
  /\ pc = "rename" /\ file' = temporary
  /\ disk' = disk \cup {Entries(file', temps')}
  /\ UNCHANGED <<confirmed, since>>
Synced ==
  /\ pc = "directory" /\ UNCHANGED <<file, temps>>
  /\ disk' = {Entries(file, temps)}
  /\ confirmed' = requested /\ since' = {}

\* Only a rename replaces the file, and only fsync forgets older states.
LEMMA StepEffects ==
  ASSUME Step
  PROVE  NoChange \/ NewEntry \/ Replaced \/ Synced
<1>1. CASE OpenTemporary
  BY <1>1 DEF OpenTemporary, SetDirectory, Fail, NoChange, NewEntry
<1>2. CASE Write \/ Sync \/ Close
  BY <1>2 DEF Write, Sync, Close, history, NoChange
<1>3. CASE Rename
  BY <1>3 DEF Rename, SetDirectory, history, NoChange, Replaced
<1>4. CASE Unlink
  BY <1>4 DEF Unlink, SetDirectory, NewEntry
<1>5. CASE SyncDirectory
  BY <1>5 DEF SyncDirectory, Flushed, NoChange, Synced
<1> QED
  BY <1>1, <1>2, <1>3, <1>4, <1>5 DEF Step

\* None of these leaves anything torn or forgets a synced save.
LEMMA StepKeepsDisk ==
  ASSUME DirectoryInv, kind' = kind, Step
  PROVE  DiskInv'
<1> USE DEF DirectoryInv
<1>1. Content' = Content /\ Found' = Found
  BY SameContent
<1>2. Entries(file, temps) \in disk /\ file.value \in Found /\ file.synced = TRUE
  BY FileIsFound DEF DiskInv
<1>3. \A f, t : Entries(f, t).file = f
  BY DEF Entries
<1>4. CASE NoChange
  BY <1>1, <1>4 DEF NoChange, DiskInv, ConfirmedSurvives
<1>5. CASE NewEntry
  <2>1. Entries(file', temps') \in disk'
    BY <1>5 DEF NewEntry
  <2>2. \A entries \in disk' :
          entries.file.value \in Found' /\ entries.file.synced = TRUE
    BY <1>1, <1>2, <1>3, <1>5 DEF NewEntry, DiskInv
  <2>3. ConfirmedSurvives'
    <3>1. confirmed # Missing => file.value \in {confirmed} \cup since
      BY <1>2, <1>3 DEF DiskInv, ConfirmedSurvives
    <3> QED
      BY <1>3, <1>5, <3>1 DEF NewEntry, DiskInv, ConfirmedSurvives
  <2> QED
    BY <2>1, <2>2, <2>3 DEF DiskInv
<1>6. CASE Replaced
  <2>1. /\ file' = File(requested, TRUE)
        /\ requested \in Content /\ requested \in since
    BY <1>6 DEF Replaced, SaveInv, SavingPcs
  <2>2. file'.value = requested /\ file'.synced = TRUE
    BY <2>1 DEF File
  <2>3. Entries(file', temps') \in disk'
    BY <1>6 DEF Replaced
  <2>4. \A entries \in disk' :
          entries.file.value \in Found' /\ entries.file.synced = TRUE
    <3>1. requested \in Found
      BY <2>1 DEF Found
    <3> QED
      BY <1>1, <1>3, <1>6, <2>2, <3>1 DEF Replaced, DiskInv
  <2>5. ConfirmedSurvives'
    BY <1>3, <1>6, <2>1, <2>2, ZenonT(30) DEF Replaced, DiskInv, ConfirmedSurvives
  <2> QED
    BY <2>3, <2>4, <2>5 DEF DiskInv
<1>7. CASE Synced
  <2>1. Entries(file', temps') \in disk'
    BY <1>7 DEF Synced
  <2>2. \A entries \in disk' :
          entries.file.value \in Found' /\ entries.file.synced = TRUE
    BY <1>1, <1>2, <1>3, <1>7 DEF Synced
  <2>3. ConfirmedSurvives'
    <3>1. file.value = requested
      BY <1>7 DEF Synced, SaveInv
    <3> QED
      BY <1>3, <1>7, <3>1 DEF Synced, ConfirmedSurvives
  <2> QED
    BY <2>1, <2>2, <2>3 DEF DiskInv
<1> QED
  BY <1>4, <1>5, <1>6, <1>7, StepEffects

\* The temporary file holds the requested value, whole and then synced, by the
\* time it is renamed.
LEMMA StepKeepsSave ==
  ASSUME DirectoryInv, kind' = kind, Step
  PROVE  SaveInv'
<1> USE DEF DirectoryInv, SavingPcs
<1>1. /\ Content' = Content
      /\ writer' = writer
  BY SameContent DEF Step
<1>2. CASE OpenTemporary
  <2>1. /\ pc = "open" /\ pc' \in {"open", "write", "unsaved", "idle"}
        /\ UNCHANGED <<requested, since>>
        /\ \/ loading' = loading /\ pc' \in {"open", "write"}
           \/ loading' = "no"
    BY <1>2 DEF OpenTemporary, Fail
  <2> QED
    BY <1>1, <2>1 DEF SaveInv
<1>3. CASE Write
  BY <1>1, <1>3 DEF Write, history, SaveInv
<1>4. CASE Sync
  <2>1. pc = "sync" /\ UNCHANGED <<requested, since, loading>>
    BY <1>4 DEF Sync, history
  <2>2. CASE pc' = "close" /\ temporary' = [temporary EXCEPT !.synced = TRUE]
    <3>1. temporary' = File(requested', TRUE)
      <4>1. temporary = [value |-> requested, synced |-> FALSE]
        BY <2>1 DEF SaveInv, File
      <4>2. temporary' = [value |-> requested, synced |-> TRUE]
        BY <2>2, <4>1
      <4> QED
        BY <2>1, <4>2 DEF File
    <3> QED
      BY <1>1, <2>1, <2>2, <3>1 DEF SaveInv
  <2>3. CASE pc' = "unlink"
    BY <1>1, <2>1, <2>3 DEF SaveInv
  <2> QED
    BY <1>4, <2>2, <2>3 DEF Sync
<1>5. CASE Close
  BY <1>1, <1>5 DEF Close, history, SaveInv
<1>6. CASE Rename
  <2>1. pc = "rename" /\ UNCHANGED <<requested, since, loading, temporary>>
    BY <1>6 DEF Rename, history
  <2>2. CASE pc' = "directory" /\ file' = temporary
    BY <1>1, <2>1, <2>2 DEF SaveInv, File
  <2>3. CASE pc' = "unlink"
    BY <1>1, <2>1, <2>3 DEF SaveInv
  <2> QED
    BY <1>6, <2>2, <2>3 DEF Rename, SetDirectory, AfterFailedRename
<1>7. CASE Unlink
  BY <1>1, <1>7 DEF Unlink, Fail, SaveInv
<1>8. CASE SyncDirectory
  BY <1>1, <1>8 DEF SyncDirectory, SaveInv
<1> QED
  BY <1>2, <1>3, <1>4, <1>5, <1>6, <1>7, <1>8 DEF Step

\* What the program shows after a save is what it showed, or what was saved.
LEMMA StepKeepsValues ==
  ASSUME DirectoryInv, SaveStep
  PROVE  ValueInv'
<1> USE DEF DirectoryInv, SavingPcs
<1>1. /\ Step /\ UNCHANGED <<kind, actor, menu_value, device>>
      /\ last_audible' = IF actor = "menu" /\ pc' = "idle" /\ saved'
                           THEN Heard(memory') ELSE last_audible
  BY DEF SaveStep
<1>2. Content' = Content
  BY <1>1, SameContent
<1>3. pc \in SavingPcs
  BY <1>1 DEF Step, OpenTemporary, Write, Sync, Close, Rename, Unlink,
     SyncDirectory
<1>4. /\ pc' # "start" /\ loading' \in {loading, "no"}
      /\ loading' = "no" /\ loading = "start" /\ pc' = "idle" => pc = "directory"
      /\ loading' # "start" /\ loading = "start" =>
           pc' = "unsaved" \/ pc = "directory"
  BY <1>1 DEF Step, OpenTemporary, Write, Sync, Close, Rename, Unlink,
     SyncDirectory, Fail, AfterFailedRename
<1>5. memory' = memory \/ memory' = requested
  BY <1>1 DEF Step, OpenTemporary, Write, Sync, Close, Rename, Unlink,
     SyncDirectory
<1>6. pc = "directory" /\ writer.directory # "reported" => memory' = requested
  BY <1>1 DEF Step, OpenTemporary, Write, Sync, Close, Rename, Unlink,
     SyncDirectory
<1>7. kind # "save file" /\ loading' # "start" /\ pc' \in SavingPcs \cup {"idle"} =>
        memory' \in Content'
  <2>1. requested \in Content
    BY <1>3 DEF SaveInv
  <2>2. CASE loading = "start"
    <3>1. writer.directory # "reported"
      BY <2>2 DEF SaveInv
    <3> QED
      BY <1>2, <1>4, <1>6, <2>1, <2>2, <3>1
  <2>3. CASE loading # "start"
    BY <1>2, <1>3, <1>5, <2>1, <2>3 DEF ValueInv
  <2> QED
    BY <2>2, <2>3
<1>8. last_audible' \in 0 .. FullVolume
  <2>1. CASE actor = "menu" /\ pc' = "idle" /\ saved' /\ kind = "volume"
    <3>1. loading' # "start"
      BY <1>1, <2>1, StepKeepsSave DEF SaveInv
    <3>2. memory' \in 0 .. FullVolume
      BY <1>2, <1>7, <2>1, <3>1 DEF Content
    <3> QED
      BY <1>1, <3>2 DEF Heard, ValueInv
  <2>2. CASE ~(actor = "menu" /\ pc' = "idle" /\ saved' /\ kind = "volume")
    BY <1>1, <2>2 DEF Heard, ValueInv
  <2> QED
    BY <2>1, <2>2
<1> QED
  BY <1>1, <1>2, <1>4, <1>7, <1>8 DEF ValueInv

-----------------------------------------------------------------------------
\* The program finds its file whole and holds one value that can be saved.
LEMMA InitHolds == Init => DirectoryInv
<1> SUFFICES ASSUME Init
             PROVE  DirectoryInv
  OBVIOUS
<1>1. kind \in {"volume", "brightness", "keymap", "save file"}
  BY SettingsAssumption DEF Init
<1>2. PICK found \in Accepted \cup {Missing} \cup
                       (IF kind = "volume" THEN {On, Off} ELSE {}) :
        FileInit(found, IF kind = "save file" THEN Sram ELSE Menu)
  BY DEF Init
<1>3. found \in Found
  <2>1. Accepted \subseteq Content
    <3>1. Brightnesses \subseteq 0 .. FullBrightness
      BY Limits DEF Brightnesses
    <3> QED
      BY <3>1 DEF Accepted, Content, Volumes, Us, Cz
  <2> QED
    BY <1>2, <2>1 DEF Found
<1>4. /\ file = File(found, TRUE) /\ disk = {Entries(file, temps)}
      /\ pc = "start" /\ loading = "no" /\ confirmed = Missing
      /\ writer = IF kind = "save file" THEN Sram ELSE Menu
  BY <1>2 DEF FileInit
<1>5. DiskInv
  <2>1. file.value = found /\ file.synced = TRUE
    BY <1>4 DEF File
  <2>2. Entries(file, temps).file = file
    BY DEF Entries
  <2> QED
    BY <1>3, <1>4, <2>1, <2>2 DEF DiskInv, ConfirmedSurvives
<1>6. SaveInv
  <2>1. writer.directory # "reported"
    BY <1>4, SettingsAssumption
  <2> QED
    BY <1>4, <2>1 DEF SaveInv, SavingPcs
<1>7. ValueInv
  <2>1. actor = "menu" /\ last_audible = Audible
        /\ device \in IF kind = "brightness" THEN 0 .. MaxBrightness ELSE {0}
    BY DEF Init
  <2>2. last_audible \in 0 .. FullVolume
    BY <2>1, Limits DEF Audible
  <2>3. device \in 0 .. MaxBrightness
    BY <2>1, Limits
  <2> QED
    BY <1>1, <1>4, <2>1, <2>2, <2>3 DEF ValueInv, SavingPcs
<1> QED
  BY <1>5, <1>6, <1>7 DEF DirectoryInv

\* Screens, the editor, its helper and a signal have nothing to do with it.
LEMMA OthersKeep ==
  ASSUME DirectoryInv,
         UNCHANGED <<vars, kind, actor, menu_value, last_audible, device>>
  PROVE  DirectoryInv'
<1>1. Content' = Content /\ Found' = Found
  BY SameContent
<1>2. UNCHANGED <<writer, file, temps, disk, pc, requested, temporary, memory,
                  loading, confirmed, since>>
  BY DEF vars, process, history
<1>3. DiskInv'
  BY <1>1, <1>2 DEF DirectoryInv, DiskInv, ConfirmedSurvives
<1>4. SaveInv' /\ ValueInv'
  BY <1>1, <1>2 DEF DirectoryInv, SaveInv, ValueInv
<1> QED
  BY <1>3, <1>4 DEF DirectoryInv

\* Loading the volume or the keymap: what is there and can be used is kept,
\* anything else is replaced.
LEMMA LoadKeeps ==
  ASSUME DirectoryInv, kind' = kind, kind \in {"volume", "keymap"},
         NEW reason \in {"start", "reload"}, NEW otherwise,
         Load(reason, otherwise),
         reason = "start" => writer'.directory # "reported",
         reason = "reload" => otherwise \in Content
  PROVE  /\ DiskInv' /\ SaveInv'
         /\ last_audible' \in 0 .. FullVolume
         /\ loading' # "start" => memory' \in Content'
<1> USE DEF DirectoryInv
<1>1. Content' = Content
  BY SameContent
<1>2. CASE file.value \in Accepted
  <2>1. Keep(file.value) /\ last_audible' = Heard(file.value)
    BY <1>2 DEF Load
  <2>2. file.value \in Content
    BY <1>2 DEF Accepted, Content, Volumes, Us, Cz
  <2>3. memory' \in Content'
    BY <1>1, <2>1, <2>2 DEF Keep
  <2>4. last_audible' \in 0 .. FullVolume
    BY <2>1, <2>2 DEF Heard, Content, ValueInv
  <2> QED
    BY <2>1, <2>3, <2>4, KeepKeeps
<1>3. CASE file.value \notin Accepted
  <2> DEFINE value == CASE kind = "keymap" -> Us
                        [] file.value = Off -> 0
                        [] OTHER -> DefaultVolume
  <2>1. /\ BeginSave(value, reason)
        /\ memory' = otherwise /\ last_audible' = last_audible
    BY <1>3 DEF Load
  <2>2. value \in Content
    BY Limits DEF Content, Us
  <2>3. loading' = reason
    BY <2>1 DEF BeginSave
  <2> HIDE DEF value
  <2>4. DiskInv' /\ SaveInv'
    BY <2>1, <2>2, BeginSaveKeeps
  <2> QED
    BY <1>1, <2>1, <2>3, <2>4 DEF ValueInv
<1> QED
  BY <1>2, <1>3

\* A program starts.
LEMMA StartUpKeeps ==
  ASSUME DirectoryInv, StartUp
  PROVE  DirectoryInv'
<1> USE DEF DirectoryInv
<1>1. /\ pc = "start" /\ UNCHANGED <<writer, kind, actor, menu_value>>
  BY DEF StartUp, runner
<1>2. /\ Content' = Content
      /\ actor # "player" /\ writer.directory # "reported"
      /\ loading # "start"
  BY <1>1, SameContent DEF ValueInv, SaveInv, SavingPcs
<1>3. file.value # Torn
  BY FileIsFound, ContentIsWhole, StateFileAssumption
<1>4. CASE kind = "save file"
  <2>1. Keep(file.value) /\ UNCHANGED <<last_audible, device>>
    BY <1>4 DEF StartUp
  <2>2. DiskInv' /\ SaveInv'
    BY <1>1, <2>1, KeepKeeps
  <2> QED
    BY <1>1, <1>2, <1>4, <2>1, <2>2 DEF ValueInv
<1>5. CASE kind = "brightness"
  <2> DEFINE value == IF file.value = Missing THEN Observed ELSE file.value
  <2>1. \/ SetBrightness(value, "start") /\ UNCHANGED <<memory, last_audible>>
        \/ Refuse("unsaved") /\ UNCHANGED device
    BY <1>3, <1>5 DEF StartUp
  <2>2. value \in Brightnesses
    BY <1>5, FileIsFound, ObservedIsABrightness
       DEF ValueInv, Found, Content
  <2> HIDE DEF value
  <2>3. CASE SetBrightness(value, "start") /\ UNCHANGED <<memory, last_audible>>
    <3>1. device' \in 0 .. MaxBrightness
      BY <2>2, <2>3, RawIsALevel, Limits
         DEF SetBrightness, WriteDevice, Brightnesses
    <3>2. value \in Content /\ BeginSave(value, "start")
      BY <1>5, <2>2, <2>3 DEF Content, SetBrightness
    <3>3. DiskInv' /\ SaveInv'
      BY <1>1, <1>2, <3>2, BeginSaveKeeps
    <3>4. loading' = "start"
      BY <3>2 DEF BeginSave
    <3> QED
      BY <1>1, <1>2, <2>3, <3>1, <3>3, <3>4 DEF ValueInv
  <2>4. CASE Refuse("unsaved") /\ UNCHANGED device
    <3>1. DiskInv' /\ SaveInv'
      BY <1>1, <1>2, <2>4, RefuseKeeps
    <3>2. pc' = "unsaved" /\ last_audible' = last_audible
      BY <2>4 DEF Refuse
    <3> QED
      BY <1>1, <1>2, <2>4, <3>1, <3>2 DEF ValueInv, SavingPcs
  <2> QED
    BY <2>1, <2>3, <2>4
<1>6. CASE kind \in {"volume", "keymap"}
  <2>1. Load("start", memory) /\ UNCHANGED device
    BY <1>3, <1>6 DEF StartUp
  <2>2. /\ DiskInv' /\ SaveInv' /\ last_audible' \in 0 .. FullVolume
        /\ loading' # "start" => memory' \in Content'
    BY <1>1, <1>2, <1>6, <2>1, LoadKeeps
  <2> QED
    BY <1>1, <1>2, <2>1, <2>2 DEF ValueInv
<1> QED
  BY <1>4, <1>5, <1>6 DEF ValueInv

\* Whatever is changed, the next value can be saved, and the backlight is set
\* to it first.
LEMMA ChangeSaves ==
  ASSUME ValueInv, SaveInv, Change
  PROVE  \E value \in Content :
           /\ BeginSave(value, "no")
           /\ kind = "brightness" => device' = Raw(value)
<1>1. kind # "save file" => memory \in Content
  BY DEF Change, MenuIdle, SaveInv, ValueInv, SavingPcs
<1>2. CASE kind = "volume"
  BY <1>1, <1>2, NextValues DEF Change
<1>3. CASE kind = "brightness"
  BY <1>1, <1>3, NextValues DEF Change, SetBrightness, WriteDevice
<1>4. CASE kind = "keymap"
  BY <1>4 DEF Change, Content, Us, Cz
<1>5. CASE kind = "save file"
  BY <1>5 DEF Change, Content, Accepted, Us, Cz
<1> QED
  BY <1>2, <1>3, <1>4, <1>5 DEF ValueInv

\* A setting is changed, or an emulator saves.
LEMMA ChangeKeeps ==
  ASSUME DirectoryInv, Change
  PROVE  DirectoryInv'
<1> USE DEF DirectoryInv
<1>1. /\ pc = "idle" /\ actor = "menu"
      /\ UNCHANGED <<writer, memory, kind, actor, menu_value, last_audible>>
  BY DEF Change, MenuIdle, runner
<1>2. Content' = Content /\ loading # "start"
  BY <1>1, SameContent DEF SaveInv, SavingPcs
<1>3. kind # "save file" => memory \in Content
  BY <1>1, <1>2 DEF ValueInv
<1>4. PICK value \in Content :
        /\ BeginSave(value, "no")
        /\ kind = "brightness" => device' = Raw(value)
  BY ChangeSaves
<1>5. device' \in 0 .. MaxBrightness
  <2>1. CASE kind = "brightness"
    BY <1>4, <2>1, RawIsALevel, Limits DEF Content, Brightnesses
  <2>2. CASE kind # "brightness"
    BY <2>2 DEF Change, ValueInv
  <2> QED
    BY <2>1, <2>2
<1>6. DiskInv' /\ SaveInv'
  BY <1>1, <1>4, BeginSaveKeeps
<1>7. loading' = "no" /\ pc' = "open"
  BY <1>4 DEF BeginSave
<1> QED
  BY <1>1, <1>2, <1>3, <1>5, <1>6, <1>7 DEF ValueInv

\* The player is started with the volume shown.
LEMMA LaunchKeeps ==
  ASSUME DirectoryInv, Launch
  PROVE  DirectoryInv'
<1> USE DEF DirectoryInv
<1>1. /\ pc = "idle" /\ kind = "volume"
      /\ actor' = "player" /\ menu_value' = memory
      /\ UNCHANGED <<file, temps, disk, pc, requested, temporary, memory,
                     loading, confirmed, since, kind, last_audible, device>>
  BY DEF Launch, MenuIdle
<1>2. Content' = Content /\ Found' = Found
  BY <1>1, SameContent
<1>3. DiskInv'
  BY <1>1, <1>2 DEF DiskInv, ConfirmedSurvives
<1>4. SaveInv'
  BY <1>1, <1>2 DEF SaveInv, SavingPcs
<1>5. ValueInv'
  BY <1>1, <1>2 DEF SaveInv, ValueInv, SavingPcs
<1> QED
  BY <1>3, <1>4, <1>5

\* The player's own buttons.
LEMMA PlayerKeeps ==
  ASSUME DirectoryInv, PlayerTurnsVolume
  PROVE  DirectoryInv'
<1> USE DEF DirectoryInv
<1>1. /\ actor = "player" /\ pc = "idle"
      /\ UNCHANGED <<kind, actor, menu_value, last_audible, device>>
  BY DEF PlayerTurnsVolume
<1>2. Content' = Content /\ kind = "volume" /\ memory \in 0 .. FullVolume
  BY <1>1, SameContent DEF ValueInv, Content
<1>3. memory' \in Content /\ BeginSave(memory', "no")
  BY <1>2, Limits DEF PlayerTurnsVolume, Content, Smaller
<1>4. DiskInv' /\ SaveInv'
  BY <1>1, <1>3, BeginSaveKeeps
<1>5. loading' = "no" /\ pc' = "open"
  BY <1>3 DEF BeginSave
<1> QED
  BY <1>1, <1>2, <1>3, <1>4, <1>5 DEF ValueInv

\* The dashboard goes on after it, wherever it was.
LEMMA PlayerEndKeeps ==
  ASSUME DirectoryInv, PlayerEnds
  PROVE  DirectoryInv'
<1> USE DEF DirectoryInv
<1>1. /\ actor = "player" /\ actor' = "menu"
      /\ UNCHANGED <<kind, menu_value, device>>
  BY DEF PlayerEnds
<1>2. /\ Content' = Content /\ kind = "volume" /\ menu_value \in Content
      /\ loading # "start"
  BY <1>1, SameContent DEF ValueInv
<1>3. file.value # Torn
  BY FileIsFound, ContentIsWhole, StateFileAssumption
<1>4. CASE shutdown
  <2>1. Refuse("exited")
    BY <1>4 DEF PlayerEnds
  <2>2. DiskInv' /\ SaveInv'
    BY <1>1, <1>2, <2>1, RefuseKeeps
  <2>3. pc' = "exited" /\ last_audible' = last_audible
    BY <2>1 DEF Refuse
  <2> QED
    BY <1>1, <1>2, <2>2, <2>3 DEF ValueInv, SavingPcs
<1>5. CASE ~shutdown
  <2>1. Load("reload", menu_value)
    BY <1>3, <1>5 DEF PlayerEnds, Reload
  <2>2. /\ DiskInv' /\ SaveInv' /\ last_audible' \in 0 .. FullVolume
        /\ loading' # "start" => memory' \in Content'
    BY <1>1, <1>2, <2>1, LoadKeeps
  <2> QED
    BY <1>1, <1>2, <2>2 DEF ValueInv
<1> QED
  BY <1>4, <1>5

\* A signal ends the dashboard between two saves.
LEMMA ExitKeeps ==
  ASSUME DirectoryInv, Exit
  PROVE  DirectoryInv'
<1> USE DEF DirectoryInv
<1>1. /\ pc = "idle" /\ Refuse("exited")
      /\ UNCHANGED <<kind, actor, menu_value, device>>
  BY DEF Exit
<1>2. Content' = Content /\ loading # "start"
  BY <1>1, SameContent DEF SaveInv, SavingPcs
<1>3. DiskInv' /\ SaveInv'
  BY <1>1, <1>2, RefuseKeeps
<1>4. pc' = "exited" /\ UNCHANGED <<loading, last_audible>>
  BY <1>1 DEF Refuse
<1> QED
  BY <1>1, <1>2, <1>3, <1>4 DEF ValueInv, SavingPcs

\* What a power failure leaves is one of the states the directory had.
LEMMA PowerFailureLeaves ==
  ASSUME DiskInv, NEW next, PowerFailure(next)
  PROVE  \E entries \in disk :
           /\ file' = File(entries.file.value, TRUE)
           /\ disk' = {Entries(file', temps')}
  BY DEF PowerFailure, DiskInv

\* A kill or a power failure, and a fresh start.
LEMMA StartedAgainKeeps ==
  ASSUME DirectoryInv, StartedAgain
  PROVE  DirectoryInv'
<1> USE DEF DirectoryInv
<1>1. /\ actor' = "menu" /\ last_audible' = Audible
      /\ UNCHANGED <<kind, menu_value, device>>
  BY DEF StartedAgain
<1>2. Content' = Content /\ Found' = Found
  BY <1>1, SameContent
<1>3. PICK next \in {Menu, Sram} :
        /\ NewProcess(next)
        /\ UNCHANGED <<file, temps, disk>> \/ PowerFailure(next)
  BY DEF StartedAgain, Kill, PowerFailure
<1>4. /\ pc' = "start" /\ loading' = "no" /\ writer' = next
      /\ UNCHANGED <<confirmed, since>>
  BY <1>3 DEF NewProcess
<1>5. DiskInv'
  <2>1. CASE UNCHANGED <<file, temps, disk>>
    BY <1>2, <1>4, <2>1 DEF DiskInv, ConfirmedSurvives
  <2>2. CASE PowerFailure(next)
    <3>1. PICK entries \in disk :
            /\ file' = File(entries.file.value, TRUE)
            /\ disk' = {Entries(file', temps')}
      BY <2>2, PowerFailureLeaves
    <3>2. file'.value = entries.file.value /\ file'.synced = TRUE
      BY <3>1 DEF File
    <3>3. Entries(file', temps').file = file'
      BY DEF Entries
    <3> QED
      BY <1>2, <1>4, <3>1, <3>2, <3>3 DEF DiskInv, ConfirmedSurvives
  <2> QED
    BY <1>3, <2>1, <2>2
<1>6. SaveInv'
  <2>1. writer'.directory # "reported"
    BY <1>4, SettingsAssumption
  <2> QED
    BY <1>4, <2>1 DEF SaveInv, SavingPcs
<1>7. ValueInv'
  <2>1. last_audible' \in 0 .. FullVolume
    BY <1>1, Limits DEF Audible
  <2> QED
    BY <1>1, <1>2, <1>4, <2>1 DEF ValueInv, SavingPcs
<1> QED
  BY <1>5, <1>6, <1>7

\* Every step keeps the directory and the values in order.
LEMMA NextKeeps == DirectoryInv /\ [Next]_all => DirectoryInv'
<1> SUFFICES ASSUME DirectoryInv, [Next]_all
             PROVE  DirectoryInv'
  OBVIOUS
<1>1. CASE StartUp
  BY <1>1, StartUpKeeps
<1>2. CASE SaveStep
  <2>1. Step /\ kind' = kind
    BY <1>2 DEF SaveStep
  <2> QED
    BY <1>2, <2>1, StepKeepsDisk, StepKeepsSave, StepKeepsValues
       DEF DirectoryInv
<1>3. CASE Exit
  BY <1>3, ExitKeeps
<1>4. CASE Change
  BY <1>4, ChangeKeeps
<1>5. CASE Launch
  BY <1>5, LaunchKeeps
<1>6. CASE PlayerTurnsVolume
  BY <1>6, PlayerKeeps
<1>7. CASE PlayerEnds
  BY <1>7, PlayerEndKeeps
<1>8. CASE StartedAgain
  BY <1>8, StartedAgainKeeps
<1>9. CASE \/ Edit \/ Handing \/ HelperStep \/ HelperGone \/ SignalShutdown
           \/ Turn("menu", "settings") \/ Turn("settings", "menu")
           \/ UNCHANGED all
  <2>1. UNCHANGED <<vars, kind, actor, menu_value, last_audible, device>>
    BY <1>9 DEF Edit, Handing, HelperStep, HelperGone, SignalShutdown, Turn,
       settings, all
  <2> QED
    BY <2>1, OthersKeep
<1> QED
  BY <1>1, <1>2, <1>3, <1>4, <1>5, <1>6, <1>7, <1>8, <1>9
     DEF Next, Program, User

\* The directory's states and the program's values, in every state.
THEOREM DirectoryInvariant == Spec => []DirectoryInv
  BY InitHolds, NextKeeps, PTL DEF Spec

-----------------------------------------------------------------------------
(***************************************************************************)
(* What the program shows, between its saves and after them.               *)
(***************************************************************************)

\* Until the rename the file is what it was when the save began, and so is
\* the value the dashboard or an emulator shows.
OutcomeInv ==
  /\ actor \in {"menu", "player"}
  /\ actor = "menu" <=> writer.directory # "reported"
  /\ actor = "player" => pc \in SavingPcs \cup {"idle"}
  /\ loading \in {"no", "start"}
  /\ pc \in SavingPcs \ {"directory"} => file.value = before
  /\ pc \in SavingPcs /\ actor = "menu" /\ loading = "no" => memory = before
  /\ kind = "volume" /\ loading = "no" /\ pc \in SavingPcs \cup {"idle"} =>
       file.value \in Content
  /\ ResultIsTrue

\* The volume to return to is the one shown, as long as that is not 0.
HeardInv ==
  /\ last_audible \in 1 .. FullVolume
  /\ /\ kind = "volume" /\ actor = "menu"
     /\ loading = "no" /\ pc \in SavingPcs \cup {"idle"}
     /\ memory # 0
     => last_audible = memory

\* The backlight has the brightness requested last.
GlowInv ==
  kind = "brightness" /\ pc \in SavingPcs \cup {"idle"} =>
    requested \in Content /\ device = Raw(requested)

\* A process has at most the temporary file it works on.
CleanInv ==
  /\ pc \in {"start", "idle", "open", "directory"} => mine \cap temps = {}
  /\ pc \in {"write", "sync", "close", "rename", "unlink"} =>
       mine \cap temps \subseteq {name}

SessionInv == OutcomeInv /\ HeardInv /\ GlowInv

-----------------------------------------------------------------------------
\* What a call of a save may do to the program: the save goes on, fails before
\* or with the rename, or returns.
GoesOn ==
  /\ pc' \in SavingPcs /\ UNCHANGED <<loading, memory>>
  /\ pc # "directory" /\ (pc' = "directory" \/ file' = file)
Fails ==
  /\ pc # "directory" /\ UNCHANGED <<file, memory>>
  /\ pc' = IF loading = "start" THEN "unsaved" ELSE "idle"
  /\ loading' = "no" /\ saved' = FALSE
Returns ==
  /\ pc = "directory" /\ pc' = "idle" /\ loading' = "no" /\ file' = file
  /\ \/ saved' = TRUE /\ memory' = requested
     \/ saved' = FALSE /\ memory' = memory /\ writer.directory = "reported"

\* A step of a save is one of the three.
LEMMA SaveSteps ==
  ASSUME Step
  PROVE  /\ pc \in SavingPcs /\ UNCHANGED <<before, requested, writer, pid>>
         /\ GoesOn \/ Fails \/ Returns
<1> USE DEF SavingPcs
<1>1. CASE OpenTemporary
  BY <1>1 DEF OpenTemporary, SetDirectory, Fail, GoesOn, Fails, Step
<1>2. CASE Write \/ Sync \/ Close
  BY <1>2 DEF Write, Sync, Close, history, GoesOn, Step
<1>3. CASE Rename
  BY <1>3 DEF Rename, SetDirectory, AfterFailedRename, history, GoesOn, Step
<1>4. CASE Unlink
  BY <1>4 DEF Unlink, SetDirectory, Fail, Fails, Step
<1>5. CASE SyncDirectory
  <2>1. /\ pc = "directory" /\ pc' = "idle" /\ loading' = "no" /\ file' = file
        /\ UNCHANGED <<before, requested, writer, pid>>
    BY <1>5 DEF SyncDirectory, Step
  <2>2. CASE saved' = TRUE /\ memory' = requested
    BY <2>1, <2>2 DEF Returns
  <2>3. CASE /\ saved' = (writer.directory # "reported")
             /\ memory' = IF saved' THEN requested ELSE memory
    BY <2>1, <2>3 DEF Returns
  <2> QED
    BY <1>5, <2>1, <2>2, <2>3 DEF SyncDirectory
<1> QED
  BY <1>1, <1>2, <1>3, <1>4, <1>5 DEF Step

\* A save keeps to its process's temporary names.
LEMMA StepCleans ==
  ASSUME CleanInv, Step
  PROVE  CleanInv'
<1>1. CASE OpenTemporary
  <2>1. pc = "open" /\ mine \cap temps = {} /\ UNCHANGED <<writer, pid>>
    BY <1>1 DEF OpenTemporary, CleanInv, Step
  <2>2. CASE /\ temps' = temps \cup {name} /\ mine' = mine \cup {name}
             /\ pc' = "write" /\ attempt' = attempt
    BY <2>1, <2>2 DEF CleanInv, name
  <2>3. CASE /\ UNCHANGED <<temps, mine>>
             /\ pc' \in {"open", "idle", "unsaved"}
    BY <2>1, <2>3 DEF CleanInv
  <2> QED
    BY <1>1, <2>1, <2>2, <2>3 DEF OpenTemporary, SetDirectory, Fail
<1>2. CASE Write \/ Sync \/ Close
  <2>1. /\ UNCHANGED <<writer, pid, attempt, temps, mine>>
        /\ pc \in {"write", "sync", "close"}
        /\ pc' \in {"sync", "close", "rename", "unlink"}
    BY <1>2 DEF Write, Sync, Close, history, Step
  <2> QED
    BY <2>1 DEF CleanInv, name
<1>3. CASE Rename
  <2>1. /\ UNCHANGED <<writer, pid, attempt, mine>> /\ pc = "rename"
        /\ \/ pc' = "directory" /\ temps' = temps \ {name}
           \/ pc' = "unlink" /\ temps' = temps
    BY <1>3 DEF Rename, SetDirectory, AfterFailedRename, history, Step
  <2> QED
    BY <2>1 DEF CleanInv, name
<1>4. CASE Unlink
  <2>1. /\ mine' = mine /\ temps' = temps \ {name} /\ pc = "unlink"
        /\ pc' \in {"idle", "unsaved"}
    BY <1>4 DEF Unlink, SetDirectory, Unlinked, Fail
  <2> QED
    BY <2>1 DEF CleanInv
<1>5. CASE SyncDirectory
  BY <1>5 DEF SyncDirectory, CleanInv
<1> QED
  BY <1>1, <1>2, <1>3, <1>4, <1>5 DEF Step

-----------------------------------------------------------------------------
\* The volumes that can be heard.
LEMMA HeardVolumes ==
  ASSUME HeardInv, NEW value, kind = "volume" => value \in Content
  PROVE  Heard(value) \in 1 .. FullVolume
  BY Limits DEF HeardInv, Heard, Content

\* A save begins with what the program shows, which is what the file holds.
LEMMA BeginSaveKeepsSession ==
  ASSUME DirectoryInv, SessionInv, NEW value \in Content, pc = "idle",
         BeginSave(value, "no"), UNCHANGED <<writer, kind, actor, last_audible>>,
         memory' = memory \/ actor = "player",
         kind = "brightness" => device' = Raw(value)
  PROVE  SessionInv'
<1> USE DEF SessionInv, SavingPcs
<1>1. Content' = Content
  BY SameContent
<1>2. /\ pc' = "open" /\ requested' = value /\ loading' = "no"
      /\ before' = file.value /\ file' = file
  BY DEF BeginSave
<1>3. loading = "no"
  BY DEF DirectoryInv, SaveInv, OutcomeInv
<1>4. OutcomeInv'
  BY <1>1, <1>2, <1>3 DEF OutcomeInv, ResultIsTrue
<1>5. HeardInv'
  BY <1>2, <1>3 DEF HeardInv, OutcomeInv
<1>6. GlowInv'
  BY <1>1, <1>2 DEF GlowInv, Raw
<1> QED
  BY <1>4, <1>5, <1>6

\* A program that keeps what it has found shows it.
LEMMA KeepKeepsSession ==
  ASSUME DirectoryInv, SessionInv, Keep(file.value), kind # "brightness",
         kind = "volume" => file.value \in Content,
         kind' = kind, actor' = "menu", writer'.directory # "reported",
         last_audible' = Heard(file.value)
  PROVE  SessionInv'
<1> USE DEF SessionInv, SavingPcs
<1>1. Content' = Content
  BY SameContent
<1>2. /\ pc' = "idle" /\ memory' = file.value /\ loading' = "no"
      /\ saved' = FALSE /\ before' = file.value /\ file' = file
  BY DEF Keep
<1>3. OutcomeInv'
  BY <1>1, <1>2 DEF OutcomeInv, ResultIsTrue
<1>4. HeardInv'
  BY <1>2, HeardVolumes DEF HeardInv, Heard
<1>5. GlowInv'
  BY DEF GlowInv
<1> QED
  BY <1>3, <1>4, <1>5

\* A program that ends shows nothing.
LEMMA RefuseKeepsSession ==
  ASSUME SessionInv, NEW why \in {"unsaved", "exited"}, Refuse(why),
         kind' = kind, actor' = "menu", writer'.directory # "reported"
  PROVE  SessionInv'
<1>1. pc' = why /\ UNCHANGED <<loading, last_audible>>
  BY DEF Refuse
<1> QED
  BY <1>1 DEF SessionInv, OutcomeInv, ResultIsTrue, HeardInv, GlowInv, SavingPcs

\* A program saves at once what it cannot use as it has found it.
LEMMA FirstSaveKeepsSession ==
  ASSUME SessionInv, NEW value \in Content, BeginSave(value, "start"),
         UNCHANGED <<writer, kind, actor, last_audible>>, actor = "menu",
         kind = "brightness" => device' = Raw(value)
  PROVE  SessionInv'
<1> USE DEF SessionInv, SavingPcs
<1>1. Content' = Content
  BY SameContent
<1>2. /\ pc' = "open" /\ requested' = value /\ loading' = "start"
      /\ before' = file.value /\ file' = file
  BY DEF BeginSave
<1>3. OutcomeInv'
  BY <1>1, <1>2 DEF OutcomeInv, ResultIsTrue
<1>4. HeardInv'
  BY <1>2 DEF HeardInv
<1>5. GlowInv'
  BY <1>1, <1>2 DEF GlowInv, Raw
<1> QED
  BY <1>3, <1>4, <1>5

\* A program starts.
LEMMA StartUpKeepsSession ==
  ASSUME DirectoryInv, SessionInv, StartUp
  PROVE  SessionInv'
<1>1. /\ pc = "start" /\ UNCHANGED <<writer, kind, actor>>
      /\ actor = "menu" /\ writer.directory # "reported"
  BY DEF StartUp, runner, SessionInv, OutcomeInv, SavingPcs
<1>2. file.value # Torn
  BY FileIsFound, ContentIsWhole, StateFileAssumption DEF DirectoryInv
<1>3. CASE kind = "save file"
  <2>1. Keep(file.value) /\ last_audible' = Heard(file.value)
    BY <1>3 DEF StartUp, Heard
  <2> QED
    BY <1>1, <1>3, <2>1, KeepKeepsSession
<1>4. CASE kind = "brightness"
  <2> DEFINE value == IF file.value = Missing THEN Observed ELSE file.value
  <2>1. value \in Content
    BY <1>4, FileIsFound, ObservedIsABrightness
       DEF DirectoryInv, ValueInv, Found, Content
  <2>2. \/ SetBrightness(value, "start") /\ UNCHANGED <<memory, last_audible>>
        \/ Refuse("unsaved") /\ UNCHANGED device
    BY <1>2, <1>4 DEF StartUp
  <2> HIDE DEF value
  <2>3. CASE SetBrightness(value, "start") /\ UNCHANGED <<memory, last_audible>>
    <3>1. BeginSave(value, "start") /\ device' = Raw(value)
      BY <2>3 DEF SetBrightness, WriteDevice
    <3> QED
      BY <1>1, <2>1, <2>3, <3>1, FirstSaveKeepsSession
  <2>4. CASE Refuse("unsaved")
    BY <1>1, <2>4, RefuseKeepsSession
  <2> QED
    BY <2>2, <2>3, <2>4
<1>5. CASE kind \in {"volume", "keymap"}
  <2> DEFINE value == CASE kind = "keymap" -> Us
                        [] file.value = Off -> 0
                        [] OTHER -> DefaultVolume
  <2>1. Load("start", memory)
    BY <1>2, <1>5 DEF StartUp
  <2>2. CASE file.value \in Accepted
    <3>1. Keep(file.value) /\ last_audible' = Heard(file.value)
      BY <2>1, <2>2 DEF Load
    <3>2. kind = "volume" => file.value \in Content
      BY <2>2 DEF Accepted, Volumes, Content
    <3> QED
      BY <1>1, <1>5, <3>1, <3>2, KeepKeepsSession
  <2>3. CASE file.value \notin Accepted
    <3>1. /\ BeginSave(value, "start") /\ last_audible' = last_audible
      BY <2>1, <2>3 DEF Load
    <3>2. value \in Content
      BY <1>5, Limits DEF Content, Us
    <3> HIDE DEF value
    <3> QED
      BY <1>1, <1>5, <3>1, <3>2, FirstSaveKeepsSession
  <2> QED
    BY <2>2, <2>3
<1> QED
  BY <1>3, <1>4, <1>5 DEF DirectoryInv, ValueInv

\* A call of a save: what is shown in the end is what the file holds.
LEMMA SaveStepKeepsSession ==
  ASSUME DirectoryInv, SessionInv, SaveStep
  PROVE  SessionInv'
<1> USE DEF SessionInv, SavingPcs
<1>1. /\ Step /\ UNCHANGED <<kind, actor, device>>
      /\ last_audible' = IF actor = "menu" /\ pc' = "idle" /\ saved'
                           THEN Heard(memory') ELSE last_audible
  BY DEF SaveStep
<1>2. Content' = Content
  BY <1>1, SameContent
<1>3. /\ pc \in SavingPcs /\ UNCHANGED <<before, requested, writer>>
      /\ GoesOn \/ Fails \/ Returns
  BY <1>1, SaveSteps
<1>4. /\ requested \in Content
      /\ pc = "directory" => file.value = requested
      /\ pc' = "directory" => file'.value = requested'
      /\ loading = "start" => actor = "menu"
  BY <1>1, <1>3, StepKeepsSave DEF DirectoryInv, SaveInv, OutcomeInv
<1>5. OutcomeInv'
  <2>1. CASE GoesOn
    BY <1>1, <1>2, <1>3, <1>4, <2>1 DEF GoesOn, OutcomeInv, ResultIsTrue
  <2>2. CASE Fails
    BY <1>1, <1>2, <1>3, <1>4, <2>2 DEF Fails, OutcomeInv, ResultIsTrue
  <2>3. CASE Returns
    BY <1>1, <1>2, <1>3, <1>4, <2>3 DEF Returns, OutcomeInv, ResultIsTrue
  <2> QED
    BY <1>3, <2>1, <2>2, <2>3
<1>6. HeardInv'
  <2>1. CASE GoesOn
    BY <1>1, <1>3, <2>1 DEF GoesOn, HeardInv
  <2>2. CASE Fails
    BY <1>1, <1>3, <2>2 DEF Fails, HeardInv, OutcomeInv
  <2>3. CASE Returns
    <3>1. CASE actor = "menu"
      <4>1. last_audible' = Heard(requested) /\ memory' = requested
        BY <1>1, <2>3, <3>1 DEF Returns, OutcomeInv
      <4>2. last_audible' \in 1 .. FullVolume
        BY <1>4, <4>1, HeardVolumes
      <4> QED
        BY <1>1, <4>1, <4>2 DEF HeardInv, Heard
    <3>2. CASE actor # "menu"
      BY <1>1, <3>2 DEF HeardInv
    <3> QED
      BY <3>1, <3>2
  <2> QED
    BY <1>3, <2>1, <2>2, <2>3
<1>7. GlowInv'
  BY <1>1, <1>2, <1>3, <1>4 DEF GlowInv, Raw
<1> QED
  BY <1>5, <1>6, <1>7

\* A setting is changed, or an emulator saves.
LEMMA ChangeKeepsSession ==
  ASSUME DirectoryInv, SessionInv, Change
  PROVE  SessionInv'
<1>1. /\ pc = "idle" /\ UNCHANGED <<writer, memory, kind, actor, last_audible>>
  BY DEF Change, MenuIdle, runner
<1>2. PICK value \in Content :
        /\ BeginSave(value, "no")
        /\ kind = "brightness" => device' = Raw(value)
  BY ChangeSaves DEF DirectoryInv
<1> QED
  BY <1>1, <1>2, BeginSaveKeepsSession

\* The player starts from the volume shown.
LEMMA LaunchKeepsSession ==
  ASSUME DirectoryInv, SessionInv, Launch
  PROVE  SessionInv'
<1> USE DEF SessionInv, SavingPcs
<1>1. /\ pc = "idle" /\ kind = "volume" /\ actor = "menu" /\ actor' = "player"
      /\ writer' = Player /\ saved' = FALSE /\ before' = file.value
      /\ UNCHANGED <<file, pc, memory, loading, kind, last_audible>>
  BY DEF Launch, MenuIdle
<1>2. Content' = Content /\ Player.directory = "reported"
  BY <1>1, SameContent, SettingsAssumption
<1>3. OutcomeInv'
  BY <1>1, <1>2 DEF OutcomeInv, ResultIsTrue
<1>4. HeardInv' /\ GlowInv'
  BY <1>1 DEF HeardInv, GlowInv
<1> QED
  BY <1>3, <1>4

\* The player shows the volume whose save it begins.
LEMMA PlayerKeepsSession ==
  ASSUME DirectoryInv, SessionInv, PlayerTurnsVolume
  PROVE  SessionInv'
<1>1. /\ actor = "player" /\ pc = "idle" /\ BeginSave(memory', "no")
      /\ UNCHANGED <<writer, kind, actor, last_audible>>
  BY DEF PlayerTurnsVolume, runner
<1>2. kind = "volume" /\ memory \in 0 .. FullVolume
  BY <1>1 DEF DirectoryInv, ValueInv, SavingPcs, Content
<1>3. memory' \in Content
  BY <1>2, Limits DEF PlayerTurnsVolume, Content, Smaller
<1> QED
  BY <1>1, <1>2, <1>3, BeginSaveKeepsSession

\* The dashboard shows what the player has left in the file.
LEMMA PlayerEndKeepsSession ==
  ASSUME DirectoryInv, SessionInv, PlayerEnds
  PROVE  SessionInv'
<1>1. /\ actor = "player" /\ actor' = "menu" /\ writer' = Menu
      /\ UNCHANGED kind
  BY DEF PlayerEnds
<1>2. /\ kind = "volume" /\ Menu.directory # "reported"
      /\ file.value \in Content
  BY <1>1, SettingsAssumption
     DEF DirectoryInv, ValueInv, SessionInv, OutcomeInv
<1>3. CASE shutdown
  BY <1>1, <1>2, <1>3, RefuseKeepsSession DEF PlayerEnds
<1>4. CASE ~shutdown
  <2>1. file.value # Torn
    BY <1>2, ContentIsWhole, StateFileAssumption
  <2>2. file.value \in Accepted
    BY <1>2 DEF Content, Accepted, Volumes
  <2>3. Keep(file.value) /\ last_audible' = Heard(file.value)
    BY <1>4, <2>1, <2>2 DEF PlayerEnds, Reload, Load
  <2> QED
    BY <1>1, <1>2, <2>3, KeepKeepsSession
<1> QED
  BY <1>3, <1>4

\* Everything shown is found anew after a kill or a power failure.
LEMMA StartedAgainKeepsSession ==
  ASSUME SessionInv, StartedAgain
  PROVE  SessionInv'
<1>1. actor' = "menu" /\ last_audible' = Audible
  BY DEF StartedAgain
<1>2. PICK next \in {Menu, Sram} : NewProcess(next)
  BY DEF StartedAgain, Kill, PowerFailure
<1>3. pc' = "start" /\ loading' = "no" /\ writer'.directory # "reported"
  BY <1>2, SettingsAssumption DEF NewProcess
<1>4. Audible \in 1 .. FullVolume
  BY Limits DEF Audible
<1> QED
  BY <1>1, <1>3, <1>4
     DEF SessionInv, OutcomeInv, ResultIsTrue, HeardInv, GlowInv, SavingPcs

\* Every step keeps what is shown in order.
LEMMA SessionInvNext ==
  DirectoryInv /\ SessionInv /\ [Next]_all => SessionInv'
<1> SUFFICES ASSUME DirectoryInv, SessionInv, [Next]_all
             PROVE  SessionInv'
  OBVIOUS
<1>1. CASE StartUp
  BY <1>1, StartUpKeepsSession
<1>2. CASE SaveStep
  BY <1>2, SaveStepKeepsSession
<1>3. CASE Exit
  <2>1. /\ Refuse("exited") /\ UNCHANGED <<kind, actor, writer>>
        /\ actor = "menu"
    BY <1>3 DEF Exit, runner
  <2>2. writer.directory # "reported"
    BY <2>1 DEF SessionInv, OutcomeInv
  <2> QED
    BY <2>1, <2>2, RefuseKeepsSession
<1>4. CASE Change
  BY <1>4, ChangeKeepsSession
<1>5. CASE Launch
  BY <1>5, LaunchKeepsSession
<1>6. CASE PlayerTurnsVolume
  BY <1>6, PlayerKeepsSession
<1>7. CASE PlayerEnds
  BY <1>7, PlayerEndKeepsSession
<1>8. CASE StartedAgain
  BY <1>8, StartedAgainKeepsSession
<1>9. CASE \/ Edit \/ Handing \/ HelperStep \/ HelperGone \/ SignalShutdown
           \/ Turn("menu", "settings") \/ Turn("settings", "menu")
           \/ UNCHANGED all
  <2>1. UNCHANGED <<vars, kind, actor, last_audible, device>>
    BY <1>9 DEF Edit, Handing, HelperStep, HelperGone, SignalShutdown, Turn,
       settings, all
  <2>2. Content' = Content
    BY <2>1, SameContent
  <2> QED
    BY <2>1, <2>2 DEF SessionInv, OutcomeInv, ResultIsTrue, HeardInv, GlowInv,
       Raw, vars, process, history
<1> QED
  BY <1>1, <1>2, <1>3, <1>4, <1>5, <1>6, <1>7, <1>8, <1>9
     DEF Next, Program, User

-----------------------------------------------------------------------------
\* A process's temporary files go with its saves.
LEMMA CleanInvNext == CleanInv /\ [Next]_all => CleanInv'
<1> SUFFICES ASSUME CleanInv, [Next]_all
             PROVE  CleanInv'
  OBVIOUS
<1>1. CASE SaveStep
  BY <1>1, StepCleans DEF SaveStep
<1>2. CASE StartUp \/ Exit \/ Change \/ PlayerTurnsVolume
  <2>1. UNCHANGED <<temps, mine>> /\ pc \in {"start", "idle"}
    BY <1>2 DEF StartUp, Exit, Change, PlayerTurnsVolume, MenuIdle, runner,
       Keep, Refuse, SetBrightness, Load, BeginSave
  <2>2. pc' \in {"idle", "open", "refused", "unsaved", "exited"}
    BY <1>2 DEF StartUp, Exit, Change, PlayerTurnsVolume, Keep, Refuse,
       SetBrightness, Load, BeginSave
  <2> QED
    BY <2>1, <2>2 DEF CleanInv
<1>3. CASE Launch \/ PlayerEnds \/ StartedAgain
  <2>1. mine' = {}
    BY <1>3 DEF Launch, PlayerEnds, StartedAgain, Kill, PowerFailure, NewProcess
  <2> QED
    BY <2>1 DEF CleanInv
<1>4. CASE \/ Edit \/ Handing \/ HelperStep \/ HelperGone \/ SignalShutdown
           \/ Turn("menu", "settings") \/ Turn("settings", "menu")
           \/ UNCHANGED all
  <2>1. UNCHANGED vars
    BY <1>4 DEF Edit, Handing, HelperStep, HelperGone, SignalShutdown, Turn,
       settings, all
  <2> QED
    BY <2>1 DEF CleanInv, name, vars, process, history
<1> QED
  BY <1>1, <1>2, <1>3, <1>4 DEF Next, Program, User

-----------------------------------------------------------------------------
\* What a file may hold.
Contents == [value : Values \cup {Missing, Torn}, synced : BOOLEAN]
Pcs == SavingPcs \cup {"start", "refused", "unsaved", "idle", "exited"}

\* Where a process is.
ProcessTypes ==
  /\ writer \in Writers /\ pid \in Pids /\ pc \in Pcs
  /\ loading \in {"no", "start", "reload"} /\ attempt \in 0 .. 15
  /\ requested \in Values \cup {Missing}
  /\ memory \in Values \cup {Missing, Torn}
  /\ temporary \in Contents

\* What it leaves in the directory.
DirectoryTypes ==
  /\ file \in Contents /\ temps \subseteq Names /\ mine \subseteq Names
  /\ \A entries \in disk :
       entries.file \in Contents /\ entries.temps \subseteq Names
  /\ Entries(file, temps) \in disk
  /\ confirmed \in Values \cup {Missing} /\ since \subseteq Values

\* The types of StateFile, of the process and of the directory.
LEMMA TypesAre == TypeOK <=> ProcessTypes /\ DirectoryTypes
  BY DEF TypeOK, ProcessTypes, DirectoryTypes, Contents, Pcs, SavingPcs

\* The name in use is one of the names.
LEMMA NameIsOne == ProcessTypes => name \in Names
  BY DEF ProcessTypes, name, Names

\* A file is made of a value.
LEMMA FilesAre ==
  ASSUME NEW value \in Values \cup {Missing, Torn}, NEW synced \in BOOLEAN
  PROVE  File(value, synced) \in Contents
  BY DEF File, Contents

\* The types of the process survive a call of a save.
LEMMA StepKeepsProcess ==
  ASSUME ProcessTypes, Step
  PROVE  ProcessTypes'
<1> USE DEF ProcessTypes, Pcs, SavingPcs
<1>1. /\ UNCHANGED <<writer, pid, requested>>
      /\ memory' \in {memory, requested} /\ loading' \in {loading, "no"}
  BY DEF Step, OpenTemporary, Write, Sync, Close, Rename, Unlink,
     SyncDirectory, Fail, history
<1>2. pc' \in Pcs
  BY DEF Step, OpenTemporary, Write, Sync, Close, Rename, Unlink,
     SyncDirectory, Fail, AfterFailedRename
<1>3. attempt' \in 0 .. 15
  <2>1. attempt' = attempt \/ (AttemptIsLeft /\ attempt' = attempt + 1)
    BY DEF Step, OpenTemporary, Write, Sync, Close, Rename, Unlink,
       SyncDirectory, Fail
  <2>2. writer.attempts \in 1 .. 16
    BY StateFileAssumption
  <2> QED
    BY <2>1, <2>2 DEF AttemptIsLeft
<1>4. temporary' \in Contents
  <2>1. CASE temporary' \in {temporary, File(Missing, FALSE),
                             File(requested, FALSE), File(Torn, FALSE)}
    BY <2>1, FilesAre
  <2>2. CASE temporary' = [temporary EXCEPT !.synced = TRUE]
    BY <2>2 DEF Contents
  <2> QED
    BY <2>1, <2>2 DEF Step, OpenTemporary, Write, Sync, Close, Rename, Unlink,
       SyncDirectory
<1> QED
  BY <1>1, <1>2, <1>3, <1>4

\* So do those of the directory.
LEMMA StepKeepsTypes ==
  ASSUME ProcessTypes, DirectoryTypes, DirectoryInv, Step
  PROVE  DirectoryTypes'
<1>1. name \in Names /\ \A f, t : /\ Entries(f, t).file = f
                                  /\ Entries(f, t).temps = t
  BY NameIsOne DEF Entries
<1>2. /\ temps' \in {temps, temps \cup {name}, temps \ {name}}
      /\ mine' \in {mine, mine \cup {name}}
  BY DEF Step, OpenTemporary, Write, Sync, Close, Rename, Unlink, Unlinked,
     SyncDirectory, SetDirectory, history
<1>3. /\ file' \in {file, temporary}
      /\ \/ UNCHANGED <<file, temps, disk>>
         \/ disk' = disk \cup {Entries(file', temps')}
         \/ UNCHANGED <<file, temps>> /\ disk' = {Entries(file, temps)}
  BY DEF Step, OpenTemporary, Write, Sync, Close, Rename, Unlink,
     SyncDirectory, SetDirectory, Flushed
<1>4. temps' \subseteq Names /\ mine' \subseteq Names
  BY <1>1, <1>2 DEF DirectoryTypes
<1>5. file' \in Contents
  BY <1>3 DEF DirectoryTypes, ProcessTypes
<1>6. /\ Entries(file', temps') \in disk'
      /\ \A entries \in disk' :
           entries.file \in Contents /\ entries.temps \subseteq Names
  BY <1>1, <1>3, <1>4, <1>5 DEF DirectoryTypes
<1>7. confirmed' \in Values \cup {Missing} /\ since' \subseteq Values
  BY DEF Step, OpenTemporary, Write, Sync, Close, Rename, Unlink,
     SyncDirectory, Fail, history, DirectoryTypes, ProcessTypes, DirectoryInv
<1> QED
  BY <1>4, <1>5, <1>6, <1>7 DEF DirectoryTypes

\* A behaviour is about one file.
LEMMA SameKind == [Next]_all => kind' = kind
  BY DEF Next, Program, User, StartUp, SaveStep, Exit, Change, PlayerTurnsVolume,
     PlayerEnds, Launch, StartedAgain, Edit, Handing, HelperStep, HelperGone,
     SignalShutdown, Turn, settings, all

\* Whatever else happens, the process has its types.
LEMMA OthersKeepProcess ==
  ASSUME ProcessTypes, DirectoryTypes, DirectoryInv, ValueInv', [Next]_all,
         ~SaveStep
  PROVE  ProcessTypes'
<1> USE DEF ProcessTypes, DirectoryInv
<1>1. Content \subseteq Values /\ Content' = Content /\ kind' = kind
  BY SameKind, ContentIsWhole, SameContent
<1>2. file.value \in Values \cup {Missing}
  BY FileIsFound, ContentIsWhole
<1>3. CASE StartUp
  <2>1. UNCHANGED <<writer, pid, temporary>>
    BY <1>3 DEF StartUp, runner, Keep, Refuse, SetBrightness, Load, BeginSave
  <2>2. /\ pc' \in Pcs /\ loading' \in {loading, "no", "start"}
        /\ attempt' \in {attempt, 0} /\ memory' \in {memory, file.value}
    BY <1>3 DEF StartUp, runner, Keep, Refuse, SetBrightness, Load, BeginSave,
       Pcs, SavingPcs
  <2>3. requested' \in Values \cup {Missing}
    <3>1. Observed \in Values
      <4>1. 0 .. FullBrightness \subseteq Values
        BY SettingsAssumption, Zenon
      <4>2. Observed \in Brightnesses
        BY ObservedIsABrightness DEF ValueInv
      <4>3. Brightnesses \subseteq 0 .. FullBrightness
        BY DEF Brightnesses
      <4> QED
        BY <4>1, <4>2, <4>3, Zenon
    <3>2. Us \in Values /\ 0 \in Values /\ DefaultVolume \in Values
      BY SettingsAssumption, Limits DEF Us
    <3>3. requested' \in {requested, Observed, file.value, Us, 0, DefaultVolume}
      BY <1>3 DEF StartUp, Keep, Refuse, SetBrightness, Load, BeginSave
    <3> QED
      BY <1>2, <3>1, <3>2, <3>3
  <2> QED
    BY <1>2, <2>1, <2>2, <2>3
<1>4. CASE Change
  <2>1. PICK value \in Content : BeginSave(value, "no")
    BY <1>4, ChangeSaves
  <2>2. /\ UNCHANGED <<writer, pid, memory, temporary>> /\ pc' = "open"
        /\ loading' = "no" /\ attempt' = 0 /\ requested' = value
    BY <1>4, <2>1 DEF Change, runner, BeginSave
  <2> QED
    BY <1>1, <2>2 DEF Pcs, SavingPcs
<1>5. CASE PlayerTurnsVolume
  <2>1. /\ kind = "volume" /\ memory \in 0 .. FullVolume
        /\ UNCHANGED <<writer, pid>> /\ BeginSave(memory', "no")
    BY <1>5 DEF PlayerTurnsVolume, runner, ValueInv, SavingPcs, Content
  <2>2. memory' \in Content
    BY <1>5, <2>1, Limits DEF PlayerTurnsVolume, Content, Smaller
  <2> QED
    BY <1>1, <2>1, <2>2 DEF BeginSave, Pcs, SavingPcs
<1>6. CASE PlayerEnds
  <2>1. /\ writer' \in Writers /\ pid' \in Pids /\ temporary' = temporary
        /\ kind = "volume" /\ menu_value \in Content
    BY <1>6, SettingsAssumption
       DEF PlayerEnds, Refuse, Reload, Load, Keep, BeginSave, ValueInv
  <2>2. /\ pc' \in Pcs /\ loading' \in {loading, "no", "reload"}
        /\ attempt' \in {attempt, 0}
        /\ memory' \in {memory, file.value, menu_value}
    BY <1>6 DEF PlayerEnds, Refuse, Reload, Load, Keep, BeginSave, Pcs, SavingPcs
  <2>3. requested' \in {requested, Us, 0, DefaultVolume}
    BY <1>6 DEF PlayerEnds, Refuse, Reload, Load, Keep, BeginSave
  <2>4. Us \in Values /\ 0 \in Values /\ DefaultVolume \in Values
    BY SettingsAssumption, Limits DEF Us
  <2> QED
    BY <1>1, <1>2, <2>1, <2>2, <2>3, <2>4
<1>7. CASE Launch \/ StartedAgain
  <2>1. writer' \in Writers
    BY <1>7, SettingsAssumption
       DEF Launch, StartedAgain, Kill, PowerFailure, NewProcess
  <2>2. /\ pid' \in Pids /\ pc' \in {pc, "start"} /\ loading' \in {loading, "no"}
        /\ UNCHANGED <<attempt, requested, temporary, memory>>
    BY <1>7 DEF Launch, StartedAgain, Kill, PowerFailure, NewProcess
  <2> QED
    BY <2>1, <2>2 DEF Pcs
<1>8. CASE Exit
  BY <1>8 DEF Exit, runner, Refuse, Pcs
<1>9. CASE \/ Edit \/ Handing \/ HelperStep \/ HelperGone \/ SignalShutdown
           \/ Turn("menu", "settings") \/ Turn("settings", "menu")
           \/ UNCHANGED all
  <2>1. UNCHANGED vars
    BY <1>9 DEF Edit, Handing, HelperStep, HelperGone, SignalShutdown, Turn,
       settings, all
  <2> QED
    BY <2>1 DEF vars, process
<1> QED
  BY <1>3, <1>4, <1>5, <1>6, <1>7, <1>8, <1>9 DEF Next, Program, User

\* And the directory only loses what a power failure takes.
LEMMA OthersKeepTypes ==
  ASSUME DirectoryTypes, DirectoryInv, DirectoryInv', [Next]_all, ~SaveStep
  PROVE  DirectoryTypes'
<1>1. CASE ~StartedAgain
  <2>1. UNCHANGED <<file, temps, disk, confirmed>> /\ mine' \in {mine, {}}
    BY <1>1 DEF Next, Program, User, StartUp, Exit, Change, PlayerTurnsVolume,
       PlayerEnds, Launch, Edit, Handing, HelperStep, HelperGone,
       SignalShutdown, Turn, settings, all, vars, history, runner,
       Keep, Refuse, SetBrightness, Reload, Load, BeginSave
  <2>2. \/ since' = since
        \/ pc' = "open" /\ since' = since \cup {requested'}
    BY <1>1 DEF Next, Program, User, StartUp, Exit, Change, PlayerTurnsVolume,
       PlayerEnds, Launch, Edit, Handing, HelperStep, HelperGone,
       SignalShutdown, Turn, settings, all, vars, history, runner,
       Keep, Refuse, SetBrightness, Reload, Load, BeginSave
  <2>3. pc' = "open" => requested' \in Values
    <3>1. Content' \subseteq Values
      BY SameKind, SameContent, ContentIsWhole
    <3> QED
      BY <3>1 DEF DirectoryInv, SaveInv, SavingPcs
  <2> QED
    BY <2>1, <2>2, <2>3 DEF DirectoryTypes
<1>2. CASE StartedAgain
  <2>1. PICK next \in {Menu, Sram} :
          /\ NewProcess(next)
          /\ UNCHANGED <<file, temps, disk>> \/ PowerFailure(next)
    BY <1>2 DEF StartedAgain, Kill, PowerFailure
  <2>2. mine' = {} /\ UNCHANGED <<confirmed, since>>
    BY <2>1 DEF NewProcess
  <2>3. CASE UNCHANGED <<file, temps, disk>>
    BY <2>2, <2>3 DEF DirectoryTypes
  <2>4. CASE PowerFailure(next)
    <3>1. PICK entries \in disk :
            /\ \E v \in {entries.file.value, Torn} : file' = File(v, TRUE)
            /\ temps' = entries.temps
            /\ disk' = {Entries(file', temps')}
      BY <2>4 DEF PowerFailure
    <3>2. entries.file.value \in Values \cup {Missing, Torn}
      BY DEF DirectoryTypes, Contents
    <3>3. file' \in Contents /\ temps' \subseteq Names
      BY <3>1, <3>2, FilesAre DEF DirectoryTypes
    <3>4. /\ Entries(file', temps').file = file'
          /\ Entries(file', temps').temps = temps'
      BY DEF Entries
    <3> QED
      BY <2>2, <3>1, <3>3, <3>4 DEF DirectoryTypes
  <2> QED
    BY <2>1, <2>3, <2>4
<1> QED
  BY <1>1, <1>2

\* All of what a reader of the directory, and of the program, may rely on.
FileSteps == DirectoryInv /\ SessionInv /\ CleanInv /\ ProcessTypes /\ DirectoryTypes

\* No save runs at the start.
LEMMA FileStepsInit == Init => FileSteps
<1> SUFFICES ASSUME Init
             PROVE  FileSteps
  OBVIOUS
<1>1. DirectoryInv
  BY InitHolds
<1>2. PICK found \in Accepted \cup {Missing} \cup
                       (IF kind = "volume" THEN {On, Off} ELSE {}) :
        FileInit(found, IF kind = "save file" THEN Sram ELSE Menu)
  BY DEF Init
<1>3. /\ file = File(found, TRUE) /\ temps = {} /\ disk = {Entries(file, temps)}
      /\ pid \in Pids /\ pc = "start" /\ attempt = 0 /\ requested = Missing
      /\ temporary = File(Missing, FALSE) /\ memory = Missing /\ loading = "no"
      /\ mine = {} /\ confirmed = Missing /\ since = {}
      /\ writer \in {Menu, Sram}
  BY <1>2 DEF FileInit
<1>4. found \in Values \cup {Missing}
  <2>1. found = file.value
    BY <1>3 DEF File
  <2> QED
    BY <1>1, <2>1, FileIsFound, ContentIsWhole DEF DirectoryInv
<1>5. writer \in Writers /\ writer.directory # "reported"
  BY <1>3, SettingsAssumption
<1>6. SessionInv
  <2>1. actor = "menu" /\ last_audible = Audible
    BY DEF Init
  <2>2. Audible \in 1 .. FullVolume
    BY Limits DEF Audible
  <2> QED
    BY <1>3, <1>5, <2>1, <2>2
       DEF SessionInv, OutcomeInv, ResultIsTrue, HeardInv, GlowInv, SavingPcs
<1>7. CleanInv
  BY <1>3 DEF CleanInv
<1>8. ProcessTypes
  <2>1. temporary \in Contents
    BY <1>3, FilesAre
  <2>2. attempt \in 0 .. 15 /\ pc \in Pcs
    BY <1>3 DEF Pcs
  <2> QED
    BY <1>3, <1>5, <2>1, <2>2, Zenon DEF ProcessTypes
<1>9. DirectoryTypes
  <2>1. file \in Contents
    BY <1>3, <1>4, FilesAre
  <2>2. Entries(file, temps).file = file /\ Entries(file, temps).temps = temps
    BY DEF Entries
  <2> QED
    BY <1>3, <2>1, <2>2 DEF DirectoryTypes
<1> QED
  BY <1>1, <1>6, <1>7, <1>8, <1>9 DEF FileSteps

\* Every step of the settings keeps all of it.
LEMMA FileStepsNext == FileSteps /\ [Next]_all => FileSteps'
<1> SUFFICES ASSUME FileSteps, [Next]_all
             PROVE  FileSteps'
  OBVIOUS
<1>1. DirectoryInv' /\ SessionInv' /\ CleanInv'
  BY NextKeeps, SessionInvNext, CleanInvNext DEF FileSteps
<1>2. ProcessTypes' /\ DirectoryTypes'
  <2>1. CASE SaveStep
    BY <2>1, StepKeepsProcess, StepKeepsTypes DEF SaveStep, FileSteps
  <2>2. CASE ~SaveStep
    <3>1. ValueInv'
      BY <1>1 DEF DirectoryInv
    <3> QED
      BY <1>1, <2>2, <3>1, OthersKeepProcess, OthersKeepTypes DEF FileSteps
  <2> QED
    BY <2>1, <2>2
<1> QED
  BY <1>1, <1>2 DEF FileSteps

\* So it holds at all times.
LEMMA FileStepsInvariant == Spec => []FileSteps
  BY FileStepsInit, FileStepsNext, PTL DEF Spec

\* Whatever is killed and whenever the power fails, a file is whole, no older
\* than the last synced save, what the save reported and the program shows, and
\* nothing but kills leaves temporary files.
THEOREM FileIsSound == Spec => []FileInv
<1>1. FileSteps => FileInv
  <2> SUFFICES ASSUME FileSteps
               PROVE  FileInv
    OBVIOUS
  <2>1. TypeOK
    BY TypesAre DEF FileSteps
  <2>2. NeverTorn
    BY FileIsFound, ContentIsWhole, StateFileAssumption
       DEF FileSteps, DirectoryInv, SaveInv, NeverTorn
  <2>3. ConfirmedSurvives /\ ResultIsTrue
    BY DEF FileSteps, DirectoryInv, DiskInv, SessionInv, OutcomeInv
  <2>4. CleansUp
    BY DEF FileSteps, CleanInv, CleansUp
  <2> QED
    BY <2>1, <2>2, <2>3, <2>4 DEF FileInv
<1> QED
  BY <1>1, FileStepsInvariant, PTL

\* When the dashboard waits for input, unmuting returns to the last volume that
\* could be heard, the panel is lit as shown unless the last save failed after
\* the backlight was set, and every value shown is the one in its file.
THEOREM SettingsAreShown ==
  Spec => [](/\ UnmutesToTheLast /\ BacklightIsTrue
             /\ MenuIdle /\ kind # "save file" => memory = file.value)
<1>1. ASSUME FileSteps
      PROVE  /\ UnmutesToTheLast /\ BacklightIsTrue
             /\ MenuIdle /\ kind # "save file" => memory = file.value
  <2> USE DEF FileSteps, SessionInv
  <2>1. MenuIdle => /\ pc = "idle" /\ actor = "menu" /\ loading = "no"
                    /\ memory = file.value /\ (saved => file.value = requested)
    BY <1>1 DEF MenuIdle, DirectoryInv, SaveInv, OutcomeInv, ResultIsTrue,
       SavingPcs
  <2>2. UnmutesToTheLast
    BY <1>1, <2>1, Limits DEF UnmutesToTheLast, HeardInv, Volumes
  <2>3. BacklightIsTrue
    <3> SUFFICES ASSUME kind = "brightness", MenuIdle
                 PROVE  /\ device \in 1 .. MaxBrightness
                        /\ memory \in Brightnesses
                        /\ device \in {Raw(memory), Raw(requested)}
                        /\ saved => device = Raw(memory)
      BY DEF BacklightIsTrue
    <3>1. device = Raw(requested) /\ requested \in Brightnesses
      BY <1>1, <2>1 DEF GlowInv, Content
    <3>2. device \in 1 .. MaxBrightness
      BY <3>1, RawIsALevel, Limits DEF Brightnesses
    <3>3. memory \in Brightnesses
      BY <1>1, <2>1 DEF DirectoryInv, ValueInv, Content
    <3> QED
      BY <2>1, <3>1, <3>2, <3>3
  <2> QED
    BY <2>1, <2>2, <2>3
<1> QED
  BY <1>1, FileStepsInvariant, PTL

-----------------------------------------------------------------------------
\* The values a power failure may bring back.
Stable == {entries.file.value : entries \in disk}

\* A new name in the directory is nothing to a reader of the file, a rename
\* puts a value, fsync flushes and a power failure recovers one.
LEMMA StepsOfTheCell ==
  ASSUME DirectoryInv, [Next]_all
  PROVE  [Cell!Next]_(Cell!vars)
<1> USE DEF DirectoryInv
<1>1. \A f, t : Entries(f, t).file = f
  BY DEF Entries
<1>2. CASE UNCHANGED <<file, disk>>
  BY <1>2 DEF Cell!vars
<1>3. CASE Step
  <2>1. CASE NoChange
    BY <1>2, <2>1 DEF NoChange
  <2>2. CASE NewEntry
    <3>1. Stable' = Stable
      BY <1>1, <2>2 DEF NewEntry, Stable, DiskInv
    <3> QED
      BY <2>2, <3>1 DEF NewEntry, Stable, Cell!vars
  <2>3. CASE Replaced
    <3>1. file'.value = requested /\ requested \in Values
      BY <2>3, ContentIsWhole DEF Replaced, SaveInv, SavingPcs, File
    <3>2. Stable' = Stable \cup {file'.value}
      BY <1>1, <2>3 DEF Replaced, Stable
    <3> QED
      BY <3>1, <3>2 DEF Stable, Cell!Next, Cell!Put
  <2>4. CASE Synced
    <3>1. Stable' = {file.value}
      BY <1>1, <2>4 DEF Synced, Stable
    <3> QED
      BY <2>4, <3>1 DEF Synced, Stable, Cell!Next, Cell!Flush
  <2> QED
    BY <1>3, <2>1, <2>2, <2>3, <2>4, StepEffects
<1>4. CASE \E next : PowerFailure(next)
  <2>1. PICK entries \in disk :
          /\ file' = File(entries.file.value, TRUE)
          /\ disk' = {Entries(file', temps')}
    BY <1>4, PowerFailureLeaves
  <2>2. file'.value \in Stable
    BY <2>1 DEF Stable, File
  <2>3. Stable' = {file'.value}
    <3>1. Entries(file', temps').file = file'
      BY DEF Entries
    <3> QED
      BY <2>1, <3>1 DEF Stable
  <2> QED
    BY <2>2, <2>3 DEF Stable, Cell!Next, Cell!PowerFailure
<1>5. \/ UNCHANGED <<file, disk>> \/ Step \/ \E next : PowerFailure(next)
  <2>1. CASE StartUp
    BY <2>1 DEF StartUp, Keep, Refuse, SetBrightness, Load, BeginSave
  <2>2. CASE SaveStep
    BY <2>2 DEF SaveStep
  <2>3. CASE Exit \/ Launch
    BY <2>3 DEF Exit, Refuse, Launch
  <2>4. CASE Change
    BY <2>4 DEF Change, SetBrightness, BeginSave
  <2>5. CASE PlayerTurnsVolume
    BY <2>5 DEF PlayerTurnsVolume, BeginSave
  <2>6. CASE PlayerEnds
    BY <2>6 DEF PlayerEnds, Refuse, Reload, Keep, Load, BeginSave
  <2>7. CASE StartedAgain
    BY <2>7 DEF StartedAgain, Kill
  <2>8. CASE \/ Edit \/ Handing \/ HelperStep \/ HelperGone \/ SignalShutdown
             \/ Turn("menu", "settings") \/ Turn("settings", "menu")
             \/ UNCHANGED all
    BY <2>8 DEF Edit, Handing, HelperStep, HelperGone, SignalShutdown, Turn,
       all, vars
  <2> QED
    BY <2>1, <2>2, <2>3, <2>4, <2>5, <2>6, <2>7, <2>8 DEF Next, Program, User
<1> QED
  BY <1>2, <1>3, <1>4, <1>5

\* To its readers the state file, with everything that happens to it, is an
\* atomic cell.
THEOREM FileIsAtomic == Spec => ImplementsCell
<1>1. Init => Cell!Init
  <2> SUFFICES ASSUME Init
               PROVE  Cell!Init
    OBVIOUS
  <2>1. PICK found : FileInit(found, IF kind = "save file" THEN Sram ELSE Menu)
    BY DEF Init
  <2>2. Stable = {file.value}
    <3>1. disk = {Entries(file, temps)} /\ Entries(file, temps).file = file
      BY <2>1 DEF FileInit, Entries
    <3> QED
      BY <3>1 DEF Stable
  <2>3. file.value \in Values \cup {Missing}
    BY InitHolds, FileIsFound, ContentIsWhole DEF DirectoryInv
  <2> QED
    BY <2>2, <2>3 DEF Stable, Cell!Init
<1>2. DirectoryInv /\ [Next]_all => [Cell!Next]_(Cell!vars)
  BY StepsOfTheCell
<1> QED
  BY <1>1, <1>2, DirectoryInvariant, PTL DEF Spec, ImplementsCell, Cell!Spec

-----------------------------------------------------------------------------
\* What IsPlain asks of one button, and of two.
OnDisplay(b) ==
  /\ b.x >= 0 /\ b.y >= 0 /\ b.width > 0 /\ b.height > 0
  /\ b.x + b.width <= LogicalWidth /\ b.y + b.height <= LogicalHeight
Clear(a, b) ==
  \/ a.x + a.width <= b.x \/ b.x + b.width <= a.x
  \/ a.y + a.height <= b.y \/ b.y + b.height <= a.y

\* A screen is plain when each of its buttons and each two of them are.
LEMMA PlainIs ==
  ASSUME NEW screen
  PROVE  IsPlain(screen) <=>
           /\ \A i \in DOMAIN screen : OnDisplay(screen[i].bounds)
           /\ \A i, j \in DOMAIN screen :
                i # j => Clear(screen[i].bounds, screen[j].bounds)
  BY DEF IsPlain, OnDisplay, Clear

\* A row or a list of buttons is a sequence, and where its buttons are when
\* another one follows.
IsList(s) == \E n \in Nat : DOMAIN s = 1 .. n /\ s = [i \in 1 .. n |-> s[i]]

\* A function on 1 .. n is a sequence of length n.
LEMMA FunctionIsList ==
  ASSUME NEW S, NEW n \in Nat, NEW f \in [1 .. n -> S]
  PROVE  f \in Seq(S) /\ Len(f) = n
<1>1. f \in Seq(S)
  BY SeqDef, Zenon
<1> QED
  BY <1>1

\* The buttons of the first list, then those of the second.
LEMMA Lists ==
  ASSUME NEW s, IsList(s), NEW t, IsList(t)
  PROVE  /\ Len(s) \in Nat /\ DOMAIN s = 1 .. Len(s)
         /\ IsList(s \o t) /\ Len(s \o t) = Len(s) + Len(t)
         /\ \A i \in DOMAIN s : (s \o t)[i] = s[i]
         /\ \A i \in DOMAIN t : (s \o t)[Len(s) + i] = t[i]
         /\ \A k \in DOMAIN (s \o t) :
              \/ k \in DOMAIN s /\ (s \o t)[k] = s[k]
              \/ k - Len(s) \in DOMAIN t /\ (s \o t)[k] = t[k - Len(s)]
<1>1. PICK m \in Nat : DOMAIN s = 1 .. m /\ s = [i \in 1 .. m |-> s[i]]
  BY DEF IsList
<1>2. PICK n \in Nat : DOMAIN t = 1 .. n /\ t = [i \in 1 .. n |-> t[i]]
  BY DEF IsList
<1> DEFINE S == {s[i] : i \in 1 .. m} \cup {t[i] : i \in 1 .. n}
<1>3. s \in Seq(S) /\ t \in Seq(S)
  <2>1. s \in [1 .. m -> S] /\ t \in [1 .. n -> S]
    BY <1>1, <1>2
  <2> QED
    BY <2>1, FunctionIsList
<1>4. Len(s) = m /\ Len(t) = n
  <2>1. s \in [1 .. m -> S] /\ t \in [1 .. n -> S]
    BY <1>1, <1>2
  <2> QED
    BY <2>1, FunctionIsList
<1> HIDE DEF S
<1>5. s \o t \in Seq(S) /\ Len(s \o t) = m + n
  BY <1>3, <1>4
<1>6. /\ \A i \in 1 .. m : (s \o t)[i] = s[i]
      /\ \A i \in 1 .. n : (s \o t)[m + i] = t[i]
  BY <1>3, <1>4
<1>7. DOMAIN (s \o t) = 1 .. m + n
  BY <1>5
<1>8. IsList(s \o t)
  <2>1. m + n \in Nat
    OBVIOUS
  <2>2. s \o t = [i \in 1 .. m + n |-> (s \o t)[i]]
    <3>1. s \o t \in [1 .. Len(s \o t) -> S]
      BY <1>5, LenProperties, Zenon
    <3> QED
      BY <1>5, <3>1
  <2> QED
    BY <1>7, <2>1, <2>2, Zenon DEF IsList
<1>9. ASSUME NEW k \in 1 .. m + n
      PROVE  \/ k \in 1 .. m /\ (s \o t)[k] = s[k]
             \/ k - m \in 1 .. n /\ (s \o t)[k] = t[k - m]
  <2>1. CASE k <= m
    <3>1. k \in 1 .. m
      BY <2>1
    <3> QED
      BY <1>6, <3>1, Zenon
  <2>2. CASE k > m
    <3>1. k - m \in 1 .. n /\ m + (k - m) = k
      BY <2>2
    <3>2. (s \o t)[m + (k - m)] = t[k - m]
      BY <1>6, <3>1, Zenon
    <3> QED
      BY <3>1, <3>2
  <2>3. k <= m \/ k > m
    OBVIOUS
  <2> QED
    BY <2>1, <2>2, <2>3
<1> QED
  BY <1>1, <1>2, <1>4, <1>5, <1>6, <1>7, <1>8, <1>9

\* Two plain lists that are clear of each other make a plain screen.
LEMMA PlainTogether ==
  ASSUME NEW s, IsList(s), IsPlain(s), NEW t, IsList(t), IsPlain(t),
         \A i \in DOMAIN s, j \in DOMAIN t : Clear(s[i].bounds, t[j].bounds)
  PROVE  IsList(s \o t) /\ IsPlain(s \o t)
<1> DEFINE u == s \o t
<1>1. /\ Len(s) \in Nat /\ DOMAIN s = 1 .. Len(s) /\ Len(t) \in Nat
      /\ DOMAIN t = 1 .. Len(t) /\ IsList(u)
  BY Lists
<1>2. \A k \in DOMAIN u :
        \/ k \in DOMAIN s /\ u[k] = s[k]
        \/ k - Len(s) \in DOMAIN t /\ u[k] = t[k - Len(s)]
  BY Lists
<1>3. \A i \in DOMAIN u : i \in Nat
  BY <1>1 DEF IsList
<1> HIDE DEF u
<1>4. ASSUME NEW i \in DOMAIN u
      PROVE  OnDisplay(u[i].bounds)
  BY <1>2, PlainIs
<1>5. ASSUME NEW i \in DOMAIN u, NEW j \in DOMAIN u, i # j
      PROVE  Clear(u[i].bounds, u[j].bounds)
  <2>1. i - Len(s) # j - Len(s)
    BY <1>1, <1>3, <1>5
  <2>2. \A a, b : Clear(a, b) => Clear(b, a)
    BY DEF Clear
  <2> QED
    BY <1>2, <1>5, <2>1, <2>2, PlainIs, Zenon
<1> QED
  BY <1>1, <1>4, <1>5, PlainIs DEF u

\* Buttons of one height above others.
Rects == [x : Int, y : Int, width : Int, height : Int]
InBand(s, top, bottom) ==
  \A i \in DOMAIN s :
    /\ s[i].bounds \in Rects
    /\ s[i].bounds.y >= top
    /\ s[i].bounds.y + s[i].bounds.height <= bottom

\* Plain lists one below the other make a plain list.
LEMMA BandsTogether ==
  ASSUME NEW top \in Int, NEW middle \in Int, NEW next \in Int, NEW bottom \in Int,
         middle <= next, top <= next, middle <= bottom,
         NEW s, IsList(s), IsPlain(s), InBand(s, top, middle),
         NEW t, IsList(t), IsPlain(t), InBand(t, next, bottom)
  PROVE  IsList(s \o t) /\ IsPlain(s \o t) /\ InBand(s \o t, top, bottom)
<1>1. ASSUME NEW i \in DOMAIN s, NEW j \in DOMAIN t
      PROVE  Clear(s[i].bounds, t[j].bounds)
  BY DEF InBand, Clear, Rects
<1>2. IsList(s \o t) /\ IsPlain(s \o t)
  BY <1>1, PlainTogether
<1>3. ASSUME NEW k \in DOMAIN (s \o t)
      PROVE  /\ (s \o t)[k].bounds \in Rects
             /\ (s \o t)[k].bounds.y >= top
             /\ (s \o t)[k].bounds.y + (s \o t)[k].bounds.height <= bottom
  <2>1. CASE k \in DOMAIN s /\ (s \o t)[k] = s[k]
    BY <2>1 DEF InBand, Rects
  <2>2. CASE k - Len(s) \in DOMAIN t /\ (s \o t)[k] = t[k - Len(s)]
    <3> DEFINE j == k - Len(s)
    <3>1. j \in DOMAIN t /\ (s \o t)[k] = t[j]
      BY <2>2
    <3> HIDE DEF j
    <3> QED
      BY <3>1 DEF InBand, Rects
  <2> QED
    BY <2>1, <2>2, Lists
<1> QED
  BY <1>2, <1>3 DEF InBand

\* A row of keys is as wide as the display leaves room for.
LEMMA RowIsPlain ==
  ASSUME NEW p, NEW count \in {4, 7, 9, 10, 11, 12}, NEW y \in 0 .. 400
  PROVE  LET row == KeyRow(p, count, y)
         IN /\ IsList(row) /\ DOMAIN row = 1 .. count
            /\ IsPlain(row) /\ InBand(row, y, y + 62)
            /\ \A i \in DOMAIN row : row[i].value = <<p, y, i>>
<1> DEFINE width == (LogicalWidth - 32 - 6 * (count - 1)) \div count
           start == (LogicalWidth - (count * width + 6 * (count - 1))) \div 2
           row == KeyRow(p, count, y)
<1>1. PICK w \in Nat, l \in Nat :
        /\ width = w /\ start = l /\ w > 0
        /\ count = 4 => w = 307 /\ l = 17
        /\ count = 7 => w = 173 /\ l = 16
        /\ count = 9 => w = 133 /\ l = 17
        /\ count = 10 => w = 119 /\ l = 18
        /\ count = 11 => w = 108 /\ l = 16
        /\ count = 12 => w = 98 /\ l = 19
  BY DEF LogicalWidth
<1>2. row = [i \in 1 .. count |->
               Key(Rect(l + (i - 1) * (w + 6), y, w, 62), <<p, y, i>>)]
  BY <1>1 DEF KeyRow
<1> HIDE DEF row
<1>3. /\ DOMAIN row = 1 .. count /\ count \in Nat
      /\ \A i \in 1 .. count :
           /\ row[i].value = <<p, y, i>>
           /\ row[i].bounds = Rect(l + (i - 1) * (w + 6), y, w, 62)
  BY <1>2 DEF Key
<1>4. IsList(row)
  BY <1>2, <1>3 DEF IsList
<1>5. ASSUME NEW i \in 1 .. count
      PROVE  l + (i - 1) * (w + 6) \in 0 .. 1280 - w
  BY <1>1
<1>6. ASSUME NEW i \in 1 .. count
      PROVE  /\ row[i].bounds.y = y /\ row[i].bounds.height = 62
             /\ row[i].bounds.width = w /\ row[i].bounds.x = l + (i - 1) * (w + 6)
             /\ row[i].bounds \in Rects
  <2>1. PICK n \in Int : n = l + (i - 1) * (w + 6)
    BY <1>5
  <2>2. row[i].bounds = Rect(n, y, w, 62)
    BY <1>3, <2>1
  <2> QED
    BY <2>1, <2>2 DEF Rect, Rects
<1>7. ASSUME NEW i \in 1 .. count, NEW j \in 1 .. count, i < j
      PROVE  l + (i - 1) * (w + 6) + w <= l + (j - 1) * (w + 6)
  BY <1>1, <1>7
<1>8. IsPlain(row)
  <2>1. ASSUME NEW i \in 1 .. count
        PROVE  OnDisplay(row[i].bounds)
    BY <1>1, <1>5, <1>6 DEF OnDisplay, LogicalWidth, LogicalHeight
  <2>2. ASSUME NEW i \in 1 .. count, NEW j \in 1 .. count, i # j
        PROVE  Clear(row[i].bounds, row[j].bounds)
    <3>1. i < j \/ j < i
      BY <1>3, <2>2
    <3> QED
      BY <1>6, <1>7, <3>1 DEF Clear
  <2> QED
    BY <1>3, <2>1, <2>2, PlainIs
<1>9. InBand(row, y, y + 62)
  <2>1. ASSUME NEW i \in 1 .. count
        PROVE  /\ row[i].bounds \in Rects /\ row[i].bounds.y >= y
               /\ row[i].bounds.y + row[i].bounds.height <= y + 62
    BY <1>6
  <2> QED
    BY <1>3, <2>1 DEF InBand
<1> QED
  BY <1>3, <1>4, <1>8, <1>9 DEF row

\* The characters that can be typed.
Alphabets == {"symbols", "letters", "capitals", "marks"}
Characters == (Alphabets \cup {"space"}) \X Nat \X Nat
Counts == {4, 7, 9, 10, 11, 12}
AreKeys(s, top, bottom) ==
  /\ IsList(s) /\ IsPlain(s) /\ InBand(s, top, bottom)
  /\ \A i \in DOMAIN s : s[i].value \in Characters

\* Each row of keys is such a list.
LEMMA RowHasKeys ==
  ASSUME NEW p \in Alphabets, NEW count \in Counts, NEW y \in 0 .. 400
  PROVE  AreKeys(KeyRow(p, count, y), y, y + 62)
<1> DEFINE row == KeyRow(p, count, y)
<1>1. /\ IsList(row) /\ DOMAIN row = 1 .. count
      /\ IsPlain(row) /\ InBand(row, y, y + 62)
      /\ \A i \in DOMAIN row : row[i].value = <<p, y, i>>
  BY RowIsPlain, ZenonT(30) DEF Counts
<1> HIDE DEF row
<1>2. ASSUME NEW i \in DOMAIN row
      PROVE  row[i].value \in Characters
  <2>1. i \in 1 .. count
    BY <1>1, Zenon
  <2>2. i \in Nat /\ y \in Nat
    BY <2>1 DEF Counts
  <2>3. <<p, y, i>> \in Characters
    BY <2>2 DEF Characters
  <2> QED
    BY <1>1, <2>3, Zenon
<1> QED
  BY <1>1, <1>2 DEF AreKeys, row

\* So are rows one below the other.
LEMMA RowsTogether ==
  ASSUME NEW top \in Int, NEW middle \in Int, NEW next \in Int, NEW bottom \in Int,
         middle <= next, top <= next, middle <= bottom,
         NEW s, AreKeys(s, top, middle), NEW t, AreKeys(t, next, bottom)
  PROVE  AreKeys(s \o t, top, bottom)
<1>1. IsList(s \o t) /\ IsPlain(s \o t) /\ InBand(s \o t, top, bottom)
  BY BandsTogether DEF AreKeys
<1>2. \A k \in DOMAIN (s \o t) : (s \o t)[k].value \in Characters
  <2>1. \A k \in DOMAIN (s \o t) :
          \/ k \in DOMAIN s /\ (s \o t)[k] = s[k]
          \/ k - Len(s) \in DOMAIN t /\ (s \o t)[k] = t[k - Len(s)]
    BY Lists DEF AreKeys
  <2> QED
    BY <2>1, Zenon DEF AreKeys
<1> QED
  BY <1>1, <1>2 DEF AreKeys

\* Each page has its keys in four rows, between the fixed buttons.
LEMMA KeysAre ==
  ASSUME NEW p \in Pages
  PROVE  AreKeys(EditorKeys[p], 86, 352)
<1>1. ASSUME NEW a \in Alphabets, NEW b \in Alphabets, NEW c1 \in Counts,
             NEW c2 \in Counts, NEW c3 \in Counts, NEW c4 \in Counts
      PROVE  AreKeys(KeyRow(a, c1, 86) \o KeyRow(a, c2, 154)
                       \o KeyRow(a, c3, 222) \o KeyRow(b, c4, 290), 86, 352)
  <2>1. AreKeys(KeyRow(a, c1, 86), 86, 148)
    <3>1. PICK y \in 0 .. 400 : y = 86 /\ y + 62 = 148
      OBVIOUS
    <3>2. AreKeys(KeyRow(a, c1, y), y, y + 62)
      BY RowHasKeys
    <3> QED
      BY <3>1, <3>2
  <2>2. AreKeys(KeyRow(a, c2, 154), 154, 216)
    <3>1. PICK y \in 0 .. 400 : y = 154 /\ y + 62 = 216
      OBVIOUS
    <3>2. AreKeys(KeyRow(a, c2, y), y, y + 62)
      BY RowHasKeys
    <3> QED
      BY <3>1, <3>2
  <2>3. AreKeys(KeyRow(a, c3, 222), 222, 284)
    <3>1. PICK y \in 0 .. 400 : y = 222 /\ y + 62 = 284
      OBVIOUS
    <3>2. AreKeys(KeyRow(a, c3, y), y, y + 62)
      BY RowHasKeys
    <3> QED
      BY <3>1, <3>2
  <2>4. AreKeys(KeyRow(b, c4, 290), 290, 352)
    <3>1. PICK y \in 0 .. 400 : y = 290 /\ y + 62 = 352
      OBVIOUS
    <3>2. AreKeys(KeyRow(b, c4, y), y, y + 62)
      BY RowHasKeys
    <3> QED
      BY <3>1, <3>2
  <2>5. AreKeys(KeyRow(a, c1, 86) \o KeyRow(a, c2, 154), 86, 216)
    BY <2>1, <2>2, RowsTogether
  <2>6. AreKeys(KeyRow(a, c1, 86) \o KeyRow(a, c2, 154) \o KeyRow(a, c3, 222),
                86, 284)
    BY <2>3, <2>5, RowsTogether
  <2> QED
    BY <2>4, <2>6, RowsTogether
<1>2. CASE p.symbols
  <2>1. EditorKeys[p] =
          KeyRow("symbols", 10, 86) \o KeyRow("symbols", 10, 154)
            \o KeyRow("symbols", 11, 222) \o KeyRow("symbols", 12, 290)
    BY <1>2 DEF EditorKeys
  <2>2. "symbols" \in Alphabets /\ 10 \in Counts /\ 11 \in Counts /\ 12 \in Counts
    BY DEF Alphabets, Counts
  <2> QED
    BY <1>1, <2>1, <2>2
<1>3. CASE ~p.symbols
  <2>1. PICK letters \in {"letters", "capitals"} :
          EditorKeys[p] = KeyRow(letters, 10, 86) \o KeyRow(letters, 9, 154)
                            \o KeyRow(letters, 7, 222) \o KeyRow("marks", 4, 290)
    BY <1>3, ZenonT(30) DEF EditorKeys
  <2>2. /\ letters \in Alphabets /\ "marks" \in Alphabets
        /\ 10 \in Counts /\ 9 \in Counts /\ 7 \in Counts /\ 4 \in Counts
    BY DEF Alphabets, Counts
  <2> QED
    BY <1>1, <2>1, <2>2
<1> QED
  BY <1>2, <1>3

\* The buttons of the editor: the fixed ones, then the keys.
LEMMA EditorButtonsAre ==
  /\ IsList(EditorButtons) /\ DOMAIN EditorButtons = 1 .. 8 /\ Len(EditorButtons) = 8
  /\ \A i \in 1 .. 8 :
       /\ EditorButtons[i].target.kind # "key"
       /\ EditorButtons[i].target # NoTarget
       /\ EditorButtons[i].bounds \in Rects
       /\ \/ EditorButtons[i].bounds.y + EditorButtons[i].bounds.height <= 86
          \/ EditorButtons[i].bounds.y >= 352
  /\ IsPlain(EditorButtons)
<1>1. DOMAIN EditorButtons = 1 .. 8 /\ Len(EditorButtons) = 8
  BY DEF EditorButtons
<1>2. IsList(EditorButtons)
  BY <1>1 DEF IsList, EditorButtons
<1>3. ASSUME NEW i \in 1 .. 8
      PROVE  /\ EditorButtons[i].target.kind # "key"
             /\ EditorButtons[i].target # NoTarget
             /\ EditorButtons[i].bounds \in Rects
             /\ \/ EditorButtons[i].bounds.y + EditorButtons[i].bounds.height <= 86
                \/ EditorButtons[i].bounds.y >= 352
             /\ OnDisplay(EditorButtons[i].bounds)
  <2>1. i \in {1, 2, 3, 4, 5, 6, 7, 8}
    OBVIOUS
  <2> QED
    BY <2>1 DEF EditorButtons, Button, Target, NoTarget, Rect, Rects, OnDisplay,
       LogicalWidth, LogicalHeight
<1>4. ASSUME NEW i \in 1 .. 8, NEW j \in 1 .. 8, i # j
      PROVE  Clear(EditorButtons[i].bounds, EditorButtons[j].bounds)
  <2>1. i \in {1, 2, 3, 4, 5, 6, 7, 8} /\ j \in {1, 2, 3, 4, 5, 6, 7, 8}
    OBVIOUS
  <2> QED
    BY <1>4, <2>1 DEF EditorButtons, Button, Rect, Clear
<1> QED
  BY <1>1, <1>2, <1>3, <1>4, PlainIs

\* What is drawn is plain, and the keys come after the fixed buttons.
LEMMA EditorScreenIs ==
  ASSUME NEW p \in Pages
  PROVE  LET keys == EditorKeys[p]  screen == EditorScreen[p]
         IN /\ IsPlain(screen) /\ IsList(screen) /\ IsList(keys)
            /\ \A k \in DOMAIN screen :
                 \/ /\ k \in 1 .. 8 /\ screen[k] = EditorButtons[k]
                 \/ \E i \in DOMAIN keys :
                      screen[k] = Button(keys[i].bounds, Target("key", i))
            /\ \A i \in DOMAIN keys : keys[i].value \in Characters
<1> DEFINE keys == EditorKeys[p]
           buttons == [i \in DOMAIN keys |-> Button(keys[i].bounds, Target("key", i))]
<1>1. /\ IsList(keys) /\ IsPlain(keys) /\ InBand(keys, 86, 352)
      /\ \A i \in DOMAIN keys : keys[i].value \in Characters
  BY KeysAre DEF AreKeys
<1>2. EditorScreen[p] = EditorButtons \o buttons
  BY DEF EditorScreen
<1> HIDE DEF keys
<1>3. /\ DOMAIN buttons = DOMAIN keys
      /\ \A i \in DOMAIN keys :
           /\ buttons[i] = Button(keys[i].bounds, Target("key", i))
           /\ buttons[i].bounds = keys[i].bounds
  BY DEF Button
<1>4. IsList(buttons)
  <2>1. PICK n \in Nat : DOMAIN keys = 1 .. n
    BY <1>1 DEF IsList
  <2>2. buttons = [i \in 1 .. n |-> buttons[i]]
    BY <2>1
  <2> QED
    BY <1>3, <2>1, <2>2, Zenon DEF IsList
<1> HIDE DEF buttons
<1>5. IsPlain(buttons)
  BY <1>1, <1>3, PlainIs
<1>6. ASSUME NEW i \in DOMAIN EditorButtons, NEW j \in DOMAIN buttons
      PROVE  Clear(EditorButtons[i].bounds, buttons[j].bounds)
  <2> DEFINE a == EditorButtons[i].bounds
             b == buttons[j].bounds
  <2>1. /\ a \in Rects /\ (a.y + a.height <= 86 \/ a.y >= 352)
        /\ b \in Rects /\ b.y >= 86 /\ b.y + b.height <= 352
    BY <1>1, <1>3, EditorButtonsAre DEF InBand
  <2> HIDE DEF a, b
  <2>2. Clear(a, b)
    BY <2>1 DEF Clear, Rects
  <2> QED
    BY <2>2 DEF a, b
<1>7. IsList(EditorButtons \o buttons) /\ IsPlain(EditorButtons \o buttons)
  BY <1>4, <1>5, <1>6, EditorButtonsAre, PlainTogether
<1>8. ASSUME NEW k \in DOMAIN (EditorButtons \o buttons)
      PROVE  \/ k \in 1 .. 8 /\ (EditorButtons \o buttons)[k] = EditorButtons[k]
             \/ \E i \in DOMAIN keys :
                  (EditorButtons \o buttons)[k] = Button(keys[i].bounds, Target("key", i))
  <2>1. \/ k \in DOMAIN EditorButtons /\ (EditorButtons \o buttons)[k] = EditorButtons[k]
        \/ /\ k - Len(EditorButtons) \in DOMAIN buttons
           /\ (EditorButtons \o buttons)[k] = buttons[k - Len(EditorButtons)]
    BY <1>4, EditorButtonsAre, Lists, ZenonT(30)
  <2> QED
    BY <1>3, <2>1, EditorButtonsAre, Zenon
<1> QED
  BY <1>1, <1>2, <1>7, <1>8 DEF keys

\* The first of the buttons that contain a point is one of them.
LEMMA TouchedIsDrawn ==
  ASSUME NEW screen, IsList(screen), NEW point
  PROVE  \/ TargetAt(screen, point) = NoTarget
         \/ \E k \in DOMAIN screen :
              /\ contains(screen[k].bounds, point)
              /\ TargetAt(screen, point) = screen[k].target
<1> DEFINE hit == {i \in DOMAIN screen : contains(screen[i].bounds, point)}
<1>1. CASE hit = {}
  BY <1>1 DEF TargetAt
<1>2. CASE hit # {}
  <2>1. hit \subseteq Nat
    BY DEF IsList
  <2>2. \E i \in hit : \A j \in hit : i <= j
    BY <1>2, <2>1, LeastIs
  <2>3. (CHOOSE i \in hit : \A j \in hit : i <= j) \in hit
    BY <2>2
  <2> QED
    BY <1>2, <2>3 DEF TargetAt
<1> QED
  BY <1>1, <1>2

\* A key is found where it is drawn.
LEMMA KeyIsTouched ==
  ASSUME NEW p \in Pages, NEW point, TargetAt(EditorScreen[p], point).kind = "key"
  PROVE  \E i \in DOMAIN EditorKeys[p] :
           /\ TargetAt(EditorScreen[p], point) = Target("key", i)
           /\ contains(EditorKeys[p][i].bounds, point)
<1> DEFINE keys == EditorKeys[p]
           screen == EditorScreen[p]
<1>1. /\ IsList(screen)
      /\ \A k \in DOMAIN screen :
           \/ /\ k \in 1 .. 8 /\ screen[k] = EditorButtons[k]
           \/ \E i \in DOMAIN keys :
                screen[k] = Button(keys[i].bounds, Target("key", i))
  BY EditorScreenIs
<1> HIDE DEF keys, screen
<1>2. TargetAt(screen, point).kind = "key"
  BY DEF screen
<1>3. PICK k \in DOMAIN screen :
        /\ contains(screen[k].bounds, point)
        /\ TargetAt(screen, point) = screen[k].target
  BY <1>1, <1>2, TouchedIsDrawn DEF NoTarget, Target
<1>4. PICK i \in DOMAIN keys : screen[k] = Button(keys[i].bounds, Target("key", i))
  BY <1>1, <1>2, <1>3, EditorButtonsAre
<1> QED
  BY <1>3, <1>4 DEF Button, keys, screen

\* The settings.
LEMMA SettingsScreenIsPlain == IsPlain(SettingsScreen)
<1>1. DOMAIN SettingsScreen = 1 .. 8
  BY DEF SettingsScreen
<1>2. ASSUME NEW i \in 1 .. 8
      PROVE  OnDisplay(SettingsScreen[i].bounds)
  <2>1. i \in {1, 2, 3, 4, 5, 6, 7, 8}
    OBVIOUS
  <2> QED
    BY <2>1 DEF SettingsScreen, Setting, Button, Rect, OnDisplay,
       LogicalWidth, LogicalHeight
<1>3. ASSUME NEW i \in 1 .. 8, NEW j \in 1 .. 8, i # j
      PROVE  Clear(SettingsScreen[i].bounds, SettingsScreen[j].bounds)
  <2>1. i \in {1, 2, 3, 4, 5, 6, 7, 8} /\ j \in {1, 2, 3, 4, 5, 6, 7, 8}
    OBVIOUS
  <2> QED
    BY <1>3, <2>1 DEF SettingsScreen, Setting, Button, Rect, Clear
<1> QED
  BY <1>1, <1>2, <1>3, PlainIs

\* Buttons that follow each other in a line do not overlap.
LEMMA LineIsPlain ==
  ASSUME NEW s, NEW count \in Nat, DOMAIN s = 1 .. count,
         NEW w \in Nat, NEW y \in Nat, NEW h \in Nat, w > 0, h > 0,
         y + h <= LogicalHeight, NEW at \in [1 .. count -> Nat],
         \A i \in 1 .. count : s[i].bounds = Rect(at[i], y, w, h),
         \A i \in 1 .. count : at[i] + w <= LogicalWidth,
         \A i, j \in 1 .. count : i < j => at[i] + w <= at[j]
  PROVE  IsPlain(s) /\ InBand(s, y, y + h)
<1>1. \A a, b, c, d : LET r == Rect(a, b, c, d)
                       IN r.x = a /\ r.y = b /\ r.width = c /\ r.height = d
  BY DEF Rect
<1>2. ASSUME NEW i \in 1 .. count
      PROVE  /\ s[i].bounds.x = at[i] /\ s[i].bounds.width = w
             /\ s[i].bounds.y = y /\ s[i].bounds.height = h
             /\ at[i] \in Nat
  BY <1>1
<1>3. ASSUME NEW i \in 1 .. count
      PROVE  OnDisplay(s[i].bounds)
  BY <1>2 DEF OnDisplay
<1>4. ASSUME NEW i \in 1 .. count, NEW j \in 1 .. count, i # j
      PROVE  Clear(s[i].bounds, s[j].bounds)
  <2>1. i < j \/ j < i
    BY <1>4
  <2> QED
    BY <1>2, <2>1 DEF Clear
<1>5. ASSUME NEW i \in 1 .. count
      PROVE  /\ s[i].bounds \in Rects /\ s[i].bounds.y >= y
             /\ s[i].bounds.y + s[i].bounds.height <= y + h
  <2>1. s[i].bounds \in Rects
    <3>1. Rect(at[i], y, w, h) \in Rects
      BY <1>2 DEF Rect, Rects
    <3> QED
      BY <3>1
  <2> QED
    BY <1>2, <2>1
<1> QED
  BY <1>3, <1>4, <1>5, PlainIs DEF InBand

\* The tabs share the width of the display among up to six systems.
LEMMA TabsArePlain ==
  ASSUME NEW count \in 1 .. 6
  PROVE  IsList(Tabs(count)) /\ IsPlain(Tabs(count)) /\ InBand(Tabs(count), 76, 128)
<1> DEFINE s == Tabs(count)
           width == (1168 - 8 * (count - 1)) \div count
<1>1. PICK w \in Nat : /\ width = w /\ w > 0
                       /\ count = 1 => w = 1168
                       /\ count = 2 => w = 580
                       /\ count = 3 => w = 384
                       /\ count = 4 => w = 286
                       /\ count = 5 => w = 227
                       /\ count = 6 => w = 188
  <2>1. count \in {1, 2, 3, 4, 5, 6}
    OBVIOUS
  <2> QED
    BY <2>1
<1> DEFINE at == [i \in 1 .. count |-> 56 + (i - 1) * (w + 8)]
<1>2. s = [i \in 1 .. count |->
             Button(Rect(56 + (i - 1) * (w + 8), 76, w, 52), Target("system", i))]
  BY <1>1 DEF Tabs, Line
<1> HIDE DEF s, width
<1>3. count \in {1, 2, 3, 4, 5, 6} /\ count \in Nat
  OBVIOUS
<1>4. ASSUME NEW i \in 1 .. count
      PROVE  56 + (i - 1) * (w + 8) \in 0 .. 1280 - w
  BY <1>1, <1>3
<1>5. ASSUME NEW i \in 1 .. count, NEW j \in 1 .. count, i < j
      PROVE  56 + (i - 1) * (w + 8) + w <= 56 + (j - 1) * (w + 8)
  BY <1>1, <1>3, <1>5
<1>6. at \in [1 .. count -> Nat]
  BY <1>1, <1>4
<1>7. /\ DOMAIN s = 1 .. count /\ s = [i \in 1 .. count |-> s[i]]
      /\ \A i \in 1 .. count : s[i].bounds = Rect(at[i], 76, w, 52)
  BY <1>2 DEF Button
<1>8. \A i \in 1 .. count : at[i] + w <= LogicalWidth
  BY <1>1, <1>4 DEF LogicalWidth
<1>9. \A i, j \in 1 .. count : i < j => at[i] + w <= at[j]
  BY <1>5
<1>10. PICK y \in Nat, h \in Nat :
         y = 76 /\ h = 52 /\ y + h = 128 /\ y + h <= LogicalHeight /\ h > 0
  BY DEF LogicalHeight
<1>11. IsList(s)
  BY <1>3, <1>7, Zenon DEF IsList
<1> HIDE DEF at
<1>12. \A i \in 1 .. count : s[i].bounds = Rect(at[i], y, w, h)
  BY <1>7, <1>10
<1>13. IsPlain(s) /\ InBand(s, y, y + h)
  <2>1. DOMAIN s = 1 .. count
    BY <1>7
  <2>2. count \in Nat /\ w > 0 /\ h > 0 /\ y + h <= LogicalHeight
    BY <1>1, <1>3, <1>10
  <2> QED
    BY <1>6, <1>8, <1>9, <1>12, <2>1, <2>2, LineIsPlain, Zenon
<1> QED
  BY <1>10, <1>11, <1>13 DEF s

\* The cards are in the middle, between the arrows.
Middle == 280 .. 784
Card(x) == Rect(x, 154, 216, 264)

\* Cards that follow each other between the arrows.
LEMMA CardRowIsPlain ==
  ASSUME NEW s, NEW count \in Nat, DOMAIN s = 1 .. count,
         NEW at \in [1 .. count -> Middle],
         \A i \in 1 .. count : s[i].bounds = Card(at[i]),
         \A i, j \in 1 .. count : i < j => Clear(Card(at[i]), Card(at[j]))
  PROVE  /\ IsPlain(s) /\ InBand(s, 154, 418)
         /\ \A i \in DOMAIN s :
              s[i].bounds.x >= 280 /\ s[i].bounds.x + s[i].bounds.width <= 1000
<1>1. \A n \in Middle :
        /\ Card(n) \in Rects /\ OnDisplay(Card(n))
        /\ Card(n).y = 154 /\ Card(n).height = 264
        /\ Card(n).x >= 280 /\ Card(n).x + Card(n).width <= 1000
  BY DEF Middle, Card, Rect, Rects, OnDisplay, LogicalWidth, LogicalHeight
<1>2. \A i \in 1 .. count : at[i] \in Middle
  OBVIOUS
<1>3. InBand(s, 154, 418)
  BY <1>1, <1>2 DEF InBand
<1>4. \A i \in DOMAIN s :
        s[i].bounds.x >= 280 /\ s[i].bounds.x + s[i].bounds.width <= 1000
  BY <1>1, <1>2
<1>5. \A i \in DOMAIN s : OnDisplay(s[i].bounds)
  BY <1>1, <1>2
<1>6. ASSUME NEW i \in DOMAIN s, NEW j \in DOMAIN s, i # j
      PROVE  Clear(s[i].bounds, s[j].bounds)
  <2>1. i < j \/ j < i
    BY <1>6
  <2>2. \A a, b : Clear(a, b) => Clear(b, a)
    BY DEF Clear
  <2> QED
    BY <2>1, <2>2
<1> QED
  BY <1>3, <1>4, <1>5, <1>6, PlainIs

\* Up to three cards are laid out like this, however many entries there are.
LEMMA CardsArePlain ==
  ASSUME NEW indices, Len(indices) \in Nat, NEW position
  PROVE  LET s == Cards(indices, position)
         IN /\ IsList(s) /\ IsPlain(s) /\ InBand(s, 154, 418)
            /\ \A i \in DOMAIN s :
                 s[i].bounds.x >= 280 /\ s[i].bounds.x + s[i].bounds.width <= 1000
<1>1. PICK count \in 0 .. 3 : count = Smaller(3, Len(indices))
  <2>1. \A n \in Nat : Smaller(3, n) \in 0 .. 3
    BY DEF Smaller
  <2> QED
    BY <2>1
<1>2. PICK l \in Nat :
        /\ l = (LogicalWidth - (count * 216 + (count - 1) * 36)) \div 2
        /\ count = 1 => l = 532
        /\ count = 2 => l = 406
        /\ count = 3 => l = 280
  <2>1. count \in {0, 1, 2, 3}
    OBVIOUS
  <2> QED
    BY <2>1 DEF LogicalWidth
<1> DEFINE s == Cards(indices, position)
           at == [i \in 1 .. count |-> l + (i - 1) * (216 + 36)]
<1>3. s = [i \in 1 .. count |->
             Button(Rect(l + (i - 1) * (216 + 36), 154, 216, 264),
                    Target("game", indices[first_position(Len(indices), position) + i]))]
  BY <1>1, <1>2 DEF Cards, Line
<1> HIDE DEF s
<1>4. DOMAIN s = 1 .. count
  BY <1>3
<1>5. \A i \in 1 .. count : s[i].bounds = Card(at[i])
  BY <1>3 DEF Button, Card
<1>6. IsList(s)
  <2>1. s = [i \in 1 .. count |-> s[i]] /\ count \in Nat
    BY <1>3
  <2> QED
    BY <1>4, <2>1, Zenon DEF IsList
<1>7. /\ count \in {0, 1, 2, 3} /\ count \in Nat
      /\ count = 1 => l = 532
      /\ count = 2 => l = 406
      /\ count = 3 => l = 280
  BY <1>2
<1>8. ASSUME NEW i \in 1 .. count
      PROVE  l + (i - 1) * (216 + 36) \in Middle
  <2>1. count = 1 \/ count = 2 \/ count = 3
    BY <1>7
  <2> QED
    BY <1>7, <2>1 DEF Middle
<1>9. at \in [1 .. count -> Middle]
  BY <1>8
<1>10. ASSUME NEW i \in 1 .. count, NEW j \in 1 .. count, i < j
       PROVE  Clear(Card(at[i]), Card(at[j]))
  <2>1. l + (i - 1) * (216 + 36) + 216 <= l + (j - 1) * (216 + 36)
    BY <1>10
  <2>2. PICK m \in Int, n \in Int : m = at[i] /\ n = at[j] /\ m + 216 <= n
    BY <2>1
  <2> QED
    BY <2>2 DEF Clear, Card, Rect
<1> HIDE DEF at
<1>11. /\ IsPlain(s) /\ InBand(s, 154, 418)
       /\ \A i \in DOMAIN s :
            s[i].bounds.x >= 280 /\ s[i].bounds.x + s[i].bounds.width <= 1000
  <2>1. \A i, j \in 1 .. count : i < j => Clear(Card(at[i]), Card(at[j]))
    BY <1>10
  <2>2. count \in Nat
    BY <1>7
  <2> QED
    BY <1>4, <1>5, <1>9, <2>1, <2>2, CardRowIsPlain
<1> QED
  BY <1>6, <1>11 DEF s

\* The corner buttons, and the arrows where there are any.
LEMMA CornersArePlain ==
  ASSUME NEW arrows, arrows = Arrows \/ arrows = <<>>
  PROVE  LET s == <<Button(Rect(12, 412, 56, 56), Target("credits", 0)),
                    Button(Rect(1212, 412, 56, 56), Target("settings", 0))>> \o arrows
         IN /\ IsList(s) /\ IsPlain(s)
            /\ \A i \in DOMAIN s :
                 /\ s[i].bounds \in Rects /\ s[i].bounds.y >= 128
                 /\ \/ s[i].bounds.x + s[i].bounds.width <= 280
                    \/ s[i].bounds.x >= 1000
<1> DEFINE corners == <<Button(Rect(12, 412, 56, 56), Target("credits", 0)),
                        Button(Rect(1212, 412, 56, 56), Target("settings", 0))>>
           s == corners \o arrows
           Lies(b) == /\ b \in Rects /\ b.y >= 128
                      /\ b.x + b.width <= 280 \/ b.x >= 1000
<1>1. IsList(corners) /\ DOMAIN corners = 1 .. 2
  BY DEF IsList
<1>2. IsPlain(corners) /\ \A i \in 1 .. 2 : Lies(corners[i].bounds)
  <2>1. \A i \in 1 .. 2 : i = 1 \/ i = 2
    OBVIOUS
  <2>2. \A i \in 1 .. 2 : OnDisplay(corners[i].bounds) /\ Lies(corners[i].bounds)
    BY <2>1 DEF OnDisplay, Button, Rect, Rects, LogicalWidth, LogicalHeight
  <2>3. \A i, j \in 1 .. 2 : i # j => Clear(corners[i].bounds, corners[j].bounds)
    BY <2>1 DEF Clear, Button, Rect
  <2> QED
    BY <1>1, <2>2, <2>3, PlainIs
<1>3. IsList(Arrows) /\ DOMAIN Arrows = 1 .. 2
  BY DEF IsList, Arrows
<1>4. /\ IsPlain(Arrows)
      /\ \A i \in 1 .. 2 :
           Lies(Arrows[i].bounds) /\ Arrows[i].bounds.y + Arrows[i].bounds.height <= 412
  <2>1. \A i \in 1 .. 2 : i = 1 \/ i = 2
    OBVIOUS
  <2>2. \A i \in 1 .. 2 :
          /\ OnDisplay(Arrows[i].bounds) /\ Lies(Arrows[i].bounds)
          /\ Arrows[i].bounds.y + Arrows[i].bounds.height <= 412
    BY <2>1 DEF Arrows, OnDisplay, Button, Rect, Rects, LogicalWidth, LogicalHeight
  <2>3. \A i, j \in 1 .. 2 : i # j => Clear(Arrows[i].bounds, Arrows[j].bounds)
    BY <2>1 DEF Arrows, Clear, Button, Rect
  <2> QED
    BY <1>3, <2>2, <2>3, PlainIs
<1>5. \A i \in 1 .. 2 : corners[i].bounds.y = 412
  <2>1. \A i \in 1 .. 2 : i = 1 \/ i = 2
    OBVIOUS
  <2> QED
    BY <2>1 DEF Button, Rect
<1> HIDE DEF corners
<1>6. /\ IsList(arrows) /\ IsPlain(arrows)
      /\ \A i \in DOMAIN arrows :
           Lies(arrows[i].bounds) /\ arrows[i].bounds.y + arrows[i].bounds.height <= 412
  <2>1. CASE arrows = Arrows
    BY <1>3, <1>4, <2>1
  <2>2. CASE arrows = <<>>
    <3>1. DOMAIN arrows = {} /\ IsList(arrows)
      <4>1. DOMAIN arrows = 1 .. 0 /\ arrows = [i \in 1 .. 0 |-> arrows[i]] /\ 0 \in Nat
        BY <2>2
      <4> QED
        BY <4>1 DEF IsList
    <3> QED
      BY <3>1, PlainIs
  <2> QED
    BY <2>1, <2>2
<1>7. \A i \in DOMAIN corners, j \in DOMAIN arrows :
        Clear(corners[i].bounds, arrows[j].bounds)
  BY <1>1, <1>5, <1>6 DEF Clear
<1>8. IsList(s) /\ IsPlain(s)
  BY <1>1, <1>2, <1>6, <1>7, PlainTogether
<1>9. \A k \in DOMAIN s : Lies(s[k].bounds)
  <2>1. \A k \in DOMAIN s :
          \/ k \in DOMAIN corners /\ s[k] = corners[k]
          \/ k - Len(corners) \in DOMAIN arrows /\ s[k] = arrows[k - Len(corners)]
    BY <1>1, <1>6, Lists, ZenonT(30)
  <2> HIDE DEF Lies, s
  <2> QED
    BY <1>1, <1>2, <1>6, <2>1, Zenon
<1> QED
  BY <1>8, <1>9 DEF corners

\* What is below the tabs is clear of them.
LEMMA BelowIsClear ==
  ASSUME NEW a \in Rects, NEW b \in Rects, a.y >= 128, b.y + b.height <= 128
  PROVE  Clear(a, b)
  BY DEF Clear, Rects

\* What is beside the cards is clear of them.
LEMMA AsideIsClear ==
  ASSUME NEW a \in Rects, NEW b \in Rects, a.x + a.width <= 280 \/ a.x >= 1000,
         b.x >= 280, b.x + b.width <= 1000
  PROVE  Clear(a, b)
  BY DEF Clear, Rects

\* The parts of the carousel are clear of each other.
LEMMA PartsArePlain ==
  ASSUME NEW corners, IsList(corners), IsPlain(corners),
         \A i \in DOMAIN corners :
           /\ corners[i].bounds \in Rects /\ corners[i].bounds.y >= 128
           /\ \/ corners[i].bounds.x + corners[i].bounds.width <= 280
              \/ corners[i].bounds.x >= 1000,
         NEW tabs, IsList(tabs), IsPlain(tabs), InBand(tabs, 76, 128),
         NEW cards, IsList(cards), IsPlain(cards), InBand(cards, 154, 418),
         \A i \in DOMAIN cards :
           cards[i].bounds.x >= 280 /\ cards[i].bounds.x + cards[i].bounds.width <= 1000
  PROVE  IsPlain(corners \o tabs \o cards)
<1>6. ASSUME NEW i \in DOMAIN corners, NEW j \in DOMAIN tabs
      PROVE  Clear(corners[i].bounds, tabs[j].bounds)
  <2>1. PICK a \in Rects, b \in Rects :
          /\ a = corners[i].bounds /\ a.y >= 128
          /\ b = tabs[j].bounds /\ b.y + b.height <= 128
    BY DEF InBand
  <2> QED
    BY <2>1, BelowIsClear
<1>7. IsList(corners \o tabs) /\ IsPlain(corners \o tabs)
  BY <1>6, PlainTogether
<1>8. ASSUME NEW k \in DOMAIN (corners \o tabs), NEW j \in DOMAIN cards
      PROVE  Clear((corners \o tabs)[k].bounds, cards[j].bounds)
  <2>card. PICK b \in Rects :
          /\ b = cards[j].bounds /\ b.y >= 154
          /\ b.x >= 280 /\ b.x + b.width <= 1000
    BY DEF InBand
  <2>1. ASSUME NEW i \in DOMAIN corners
        PROVE  Clear(corners[i].bounds, cards[j].bounds)
    <3>1. PICK a \in Rects :
            /\ a = corners[i].bounds
            /\ a.x + a.width <= 280 \/ a.x >= 1000
      OBVIOUS
    <3>2. Clear(a, b)
      BY <2>card, <3>1, AsideIsClear
    <3> QED
      BY <2>card, <3>1, <3>2 DEF Clear
  <2>2. ASSUME NEW i \in DOMAIN tabs
        PROVE  Clear(tabs[i].bounds, cards[j].bounds)
    <3>1. PICK a \in Rects : /\ a = tabs[i].bounds /\ a.y + a.height <= 128
      BY DEF InBand
    <3>2. Clear(b, a)
      <4>1. b.y >= 128
        BY <2>card, SMTT(30) DEF Rects
      <4> QED
        BY <3>1, <4>1, BelowIsClear
    <3> QED
      BY <2>card, <3>1, <3>2 DEF Clear
  <2>3. \/ k \in DOMAIN corners /\ (corners \o tabs)[k] = corners[k]
        \/ /\ k - Len(corners) \in DOMAIN tabs
           /\ (corners \o tabs)[k] = tabs[k - Len(corners)]
    BY Lists, ZenonT(60)
  <2>4. CASE k \in DOMAIN corners /\ (corners \o tabs)[k] = corners[k]
    BY <2>1, <2>4
  <2>5. CASE /\ k - Len(corners) \in DOMAIN tabs
             /\ (corners \o tabs)[k] = tabs[k - Len(corners)]
    BY <2>2, <2>5
  <2> QED
    BY <2>3, <2>4, <2>5
<1> QED
  BY <1>7, <1>8, PlainTogether, ZenonT(30)

\* The carousel, for any shelf and position.
LEMMA MenuScreenIsPlain ==
  ASSUME NEW systems \in 1 .. 6, NEW indices, Len(indices) \in Nat, NEW position
  PROVE  IsPlain(MenuScreen(systems, indices, position))
<1>1. PICK arrows :
        /\ arrows = Arrows \/ arrows = <<>>
        /\ arrows = IF Len(indices) > 1 THEN Arrows ELSE <<>>
  OBVIOUS
<1> DEFINE corners == <<Button(Rect(12, 412, 56, 56), Target("credits", 0)),
                        Button(Rect(1212, 412, 56, 56), Target("settings", 0))>> \o arrows
           tabs == Tabs(systems)
           cards == Cards(indices, position)
<1>2. MenuScreen(systems, indices, position) = corners \o tabs \o cards
  BY <1>1 DEF MenuScreen
<1>3. /\ IsList(corners) /\ IsPlain(corners)
      /\ \A i \in DOMAIN corners :
           /\ corners[i].bounds \in Rects /\ corners[i].bounds.y >= 128
           /\ \/ corners[i].bounds.x + corners[i].bounds.width <= 280
              \/ corners[i].bounds.x >= 1000
  BY <1>1, CornersArePlain, SMTT(30)
<1>4. IsList(tabs) /\ IsPlain(tabs) /\ InBand(tabs, 76, 128)
  BY TabsArePlain
<1>5. /\ IsList(cards) /\ IsPlain(cards) /\ InBand(cards, 154, 418)
      /\ \A i \in DOMAIN cards :
           cards[i].bounds.x >= 280 /\ cards[i].bounds.x + cards[i].bounds.width <= 1000
  BY CardsArePlain
<1> HIDE DEF corners, tabs, cards
<1>6. IsPlain(corners \o tabs \o cards)
  BY <1>3, <1>4, <1>5, PartsArePlain
<1> QED
  BY <1>2, <1>6

-----------------------------------------------------------------------------
\* What the editor holds at all times.
Lines == [ssid : Seq(Characters), passphrase : Seq(Characters)]

TextTypes ==
  /\ view \in {"menu", "settings", "wifi"} /\ shelf \in Shelves
  /\ field \in {"ssid", "passphrase"} /\ texts \in Lines
  /\ symbols \in BOOLEAN /\ uppercase \in BOOLEAN
  /\ page = Page(symbols, uppercase)

\* While the helper runs nothing is typed, and it has stored what is shown.
HandingInv ==
  /\ saving = "no" <=> helper = "none"
  /\ saving # "no" => view = "wifi" /\ texts = handed /\ CanBeSaved(texts)
  /\ helper \in {"stored", "done"} => profile = texts

\* The target that is remembered is the one under the finger.
PressInv ==
  pressed_target # NoTarget =>
    /\ view = "wifi" /\ saving = "no"
    /\ pressed_target = EditorTargetAt(touched)

EditorSteps == TextTypes /\ HandingInv /\ PressInv /\ EditorInv

\* What a step without the editor leaves alone.
LEMMA OthersKeepEditor ==
  ASSUME EditorSteps, UNCHANGED <<editor, shelf>>
  PROVE  EditorSteps'
<1>1. UNCHANGED <<view, texts, field, symbols, uppercase, wifi_status, page,
                  pressed_target, saving, wrote, helper, profile, touched, handed,
                  shelf>>
  BY DEF editor, editing, storing
<1>2. TextTypes'
  BY <1>1 DEF EditorSteps, TextTypes
<1>3. HandingInv'
  BY <1>1 DEF EditorSteps, HandingInv, CanBeSaved
<1>4. PressInv'
  BY <1>1 DEF EditorSteps, PressInv, EditorTargetAt
<1>5. EditorInv'
  BY <1>1 DEF EditorSteps, EditorInv, CanBeSaved
<1> QED
  BY <1>2, <1>3, <1>4, <1>5 DEF EditorSteps

\* The screens have keys that can be typed.
LEMMA PagesAre ==
  ASSUME symbols \in BOOLEAN, uppercase \in BOOLEAN
  PROVE  Page(symbols, uppercase) \in Pages
  BY DEF Page, Pages

\* The two lines, and a change of one of them.
LEMMA LinesAre ==
  ASSUME NEW lines \in Lines
  PROVE  /\ DOMAIN lines = {"ssid", "passphrase"}
         /\ lines.ssid \in Seq(Characters) /\ lines.passphrase \in Seq(Characters)
         /\ lines["ssid"] = lines.ssid /\ lines["passphrase"] = lines.passphrase
         /\ \A f \in {"ssid", "passphrase"}, line \in Seq(Characters) :
              /\ [lines EXCEPT ![f] = line] \in Lines
              /\ [lines EXCEPT ![f] = line][f] = line
              /\ \A g \in {"ssid", "passphrase"} \ {f} :
                   [lines EXCEPT ![f] = line][g] = lines[g]
  BY DEF Lines

\* What is typed is the new last character of the line that is edited.
LEMMA TypedIsLast ==
  ASSUME texts \in Lines, field \in {"ssid", "passphrase"},
         NEW character \in Characters, Type(character)
  PROVE  /\ texts' \in Lines
         /\ \A f \in DOMAIN texts :
              Len(texts'[f]) > Len(texts[f]) => texts'[f][Len(texts'[f])] = character
<1>1. CASE texts' = texts
  <2>1. \A f \in DOMAIN texts : Len(texts[f]) \in Nat
    BY LinesAre
  <2> QED
    BY <1>1, <2>1
<1>2. CASE texts' = [texts EXCEPT ![field] = Append(@, character)]
  <2>1. texts[field] \in Seq(Characters)
    BY LinesAre
  <2>2. PICK line \in Seq(Characters) : line = Append(texts[field], character)
    <3>1. \A s \in Seq(Characters) : Append(s, character) \in Seq(Characters)
      OBVIOUS
    <3> QED
      BY <2>1, <3>1
  <2>3. line[Len(line)] = character
    BY <2>1, <2>2
  <2>4. /\ texts' = [texts EXCEPT ![field] = line]
    BY <1>2, <2>2
  <2>5. texts' \in Lines
    BY <2>4, LinesAre
  <2>6. ASSUME NEW f \in DOMAIN texts, Len(texts'[f]) > Len(texts[f])
        PROVE  texts'[f][Len(texts'[f])] = character
    <3>1. CASE f = field
      BY <2>3, <2>4, <3>1, LinesAre
    <3>2. CASE f # field
      <4>1. texts'[f] = texts[f] /\ Len(texts[f]) \in Nat
        BY <2>4, <3>2, LinesAre
      <4> QED
        BY <2>6, <4>1
    <3> QED
      BY <3>1, <3>2
  <2> QED
    BY <2>5, <2>6
<1> QED
  BY <1>1, <1>2 DEF Type

\* Deleting only shortens a line.
LEMMA DeletedIsShorter ==
  ASSUME texts \in Lines, field \in {"ssid", "passphrase"}, Delete
  PROVE  /\ texts' \in Lines
         /\ \A f \in DOMAIN texts : ~(Len(texts'[f]) > Len(texts[f]))
<1>1. \A f \in DOMAIN texts : Len(texts[f]) \in Nat
  BY LinesAre
<1>2. CASE texts' = texts
  BY <1>1, <1>2
<1>3. CASE /\ texts[field] # <<>>
           /\ texts' = [texts EXCEPT ![field] = SubSeq(@, 1, Len(@) - 1)]
  <2>1. texts[field] \in Seq(Characters) /\ Len(texts[field]) \in Nat \ {0}
    BY <1>3, LinesAre
  <2>2. PICK line \in Seq(Characters) :
          /\ line = SubSeq(texts[field], 1, Len(texts[field]) - 1)
          /\ Len(line) = Len(texts[field]) - 1
    <3>1. ASSUME NEW s \in Seq(Characters), Len(s) # 0
          PROVE  /\ SubSeq(s, 1, Len(s) - 1) \in Seq(Characters)
                 /\ Len(SubSeq(s, 1, Len(s) - 1)) = Len(s) - 1
      <4>1. PICK n \in Nat : n = Len(s) - 1 /\ \A i \in 1 .. n : s[i] \in Characters
        BY <3>1, ElementOfSeq
      <4>2. /\ SubSeq(s, 1, n) \in Seq(Characters)
            /\ Len(SubSeq(s, 1, n)) = IF 1 <= n THEN n - 1 + 1 ELSE 0
        BY <4>1, SubSeqProperties
      <4> QED
        BY <4>1, <4>2
    <3> QED
      BY <2>1, <3>1
  <2>3. texts' = [texts EXCEPT ![field] = line]
    BY <1>3, <2>2
  <2>4. texts' \in Lines
    BY <2>3, LinesAre
  <2>5. ASSUME NEW f \in DOMAIN texts
        PROVE  ~(Len(texts'[f]) > Len(texts[f]))
    <3>1. CASE f = field
      <4>1. Len(texts'[f]) = Len(texts[f]) - 1
        BY <2>2, <2>3, <3>1, LinesAre
      <4> QED
        BY <2>1, <3>1, <4>1
    <3>2. CASE f # field
      <4>1. texts'[f] = texts[f] /\ Len(texts[f]) \in Nat
        BY <2>3, <3>2, LinesAre
      <4> QED
        BY <4>1
    <3> QED
      BY <3>1, <3>2
  <2> QED
    BY <2>4, <2>5
<1> QED
  BY <1>2, <1>3 DEF Delete

\* A tap on a key types what the key shows, where the finger was put down.
Grows ==
  \A f \in DOMAIN texts :
    Len(texts'[f]) > Len(texts[f]) =>
      LET typed == texts'[f][Len(texts'[f])]
      IN \/ typed \in DrawnAt(touched)
         \/ typed = Space /\ EditorTargetAt(touched).kind = "space"

\* What a tap adds to a line is what is drawn where it began.
LEMMA AppliedIsTyped ==
  ASSUME EditorSteps, Apply(pressed_target)
  PROVE  texts' \in Lines /\ Grows
<1>1. texts \in Lines /\ field \in {"ssid", "passphrase"} /\ page \in Pages
  BY PagesAre DEF EditorSteps, TextTypes
<1>2. \A f \in DOMAIN texts : Len(texts[f]) \in Nat
  BY <1>1, LinesAre
<1>3. CASE UNCHANGED texts
  BY <1>1, <1>2, <1>3 DEF Grows
<1>4. CASE pressed_target.kind = "delete" /\ Delete
  BY <1>1, <1>4, DeletedIsShorter DEF Grows
<1>5. CASE pressed_target.kind = "space" /\ Type(Space)
  <2>1. Space \in Characters
    BY DEF Space, Characters
  <2>2. pressed_target = EditorTargetAt(touched)
    BY <1>5 DEF EditorSteps, PressInv, NoTarget, Target
  <2> QED
    BY <1>1, <1>5, <2>1, <2>2, TypedIsLast DEF Grows
<1>6. CASE /\ pressed_target.kind = "key"
           /\ Type(EditorKeys[page][pressed_target.index].value)
  <2>1. pressed_target = TargetAt(EditorScreen[page], touched)
    BY <1>6 DEF EditorSteps, PressInv, NoTarget, Target, EditorTargetAt
  <2>2. PICK i \in DOMAIN EditorKeys[page] :
          /\ pressed_target = Target("key", i)
          /\ contains(EditorKeys[page][i].bounds, touched)
    BY <1>1, <1>6, <2>1, KeyIsTouched
  <2>3. pressed_target.index = i
    BY <2>2 DEF Target
  <2>4. PICK character \in Characters : character = EditorKeys[page][i].value
    BY <1>1, EditorScreenIs
  <2>5. character \in DrawnAt(touched)
    BY <2>2, <2>4 DEF DrawnAt
  <2>6. Type(character)
    BY <1>6, <2>3, <2>4
  <2> QED
    BY <1>1, <2>5, <2>6, TypedIsLast DEF Grows
<1> QED
  BY <1>3, <1>4, <1>5, <1>6 DEF Apply

\* A text that can be saved has a passphrase.
LEMMA EmptyCannotBeSaved ==
  ASSUME NEW lines, lines.passphrase = <<>>
  PROVE  ~CanBeSaved(lines)
  BY EditorAssumption DEF CanBeSaved

\* Touches.
LEMMA EditKeeps ==
  ASSUME EditorSteps, MenuIdle, UNCHANGED shelf,
         \/ view = "settings" /\ OpenEditor /\ UNCHANGED pressed_target
         \/ \E point \in Points : Press(point) \/ Release(point)
         \/ ControllerBack
  PROVE  EditorSteps' /\ Grows
<1> USE DEF EditorSteps
<1>1. /\ saving = "no" /\ helper = "none" /\ texts \in Lines
      /\ \A f \in DOMAIN texts : Len(texts[f]) \in Nat
  BY LinesAre DEF MenuIdle, HandingInv, TextTypes
<1>2. UNCHANGED texts => Grows
  BY <1>1 DEF Grows
<1>3. CASE view = "settings" /\ OpenEditor /\ UNCHANGED pressed_target
  <2>1. /\ view' = "wifi" /\ wifi_status' = "none"
        /\ UNCHANGED <<texts, field, symbols, uppercase, saving, wrote, helper,
                       profile, handed, touched, pressed_target>>
        /\ page' = Page(symbols', uppercase')
    BY <1>3 DEF OpenEditor, storing, Draw
  <2>2. TextTypes'
    BY <2>1 DEF TextTypes
  <2>3. HandingInv' /\ PressInv'
    BY <1>1, <1>3, <2>1 DEF HandingInv, PressInv
  <2>4. EditorInv'
    BY <2>1 DEF EditorInv, CanBeSaved
  <2> QED
    BY <1>2, <2>1, <2>2, <2>3, <2>4
<1>4. CASE \E point \in Points : Press(point)
  <2>1. /\ view = "wifi" /\ pressed_target' = EditorTargetAt(touched')
        /\ UNCHANGED <<view, texts, field, symbols, uppercase, wifi_status, page,
                       saving, wrote, helper, profile, handed>>
    BY <1>4 DEF Press, editing, storing
  <2>2. TextTypes'
    BY <2>1 DEF TextTypes
  <2>3. HandingInv'
    BY <1>1, <2>1 DEF HandingInv
  <2>4. PressInv'
    BY <1>1, <2>1 DEF PressInv, EditorTargetAt
  <2>5. EditorInv'
    BY <2>1 DEF EditorInv, CanBeSaved
  <2> QED
    BY <1>2, <2>1, <2>2, <2>3, <2>4, <2>5
<1>5. CASE /\ view = "wifi" /\ pressed_target' = NoTarget
           /\ view' \in {"wifi", "settings"} /\ UNCHANGED <<editing, storing, touched>>
  <2>1. UNCHANGED <<texts, field, symbols, uppercase, wifi_status, page, saving,
                    wrote, helper, profile, handed>>
    BY <1>5 DEF editing, storing
  <2>2. TextTypes'
    BY <1>5, <2>1 DEF TextTypes
  <2>3. HandingInv' /\ PressInv'
    BY <1>1, <1>5, <2>1 DEF HandingInv, PressInv
  <2>4. EditorInv'
    BY <1>5, <2>1 DEF EditorInv, CanBeSaved
  <2> QED
    BY <1>2, <2>1, <2>2, <2>3, <2>4
<1>6. CASE view = "wifi" /\ pressed_target' = NoTarget /\ Save /\ UNCHANGED touched
  <2>1. /\ UNCHANGED <<view, texts, field, symbols, uppercase, page, wrote, profile>>
        /\ handed' = texts
    BY <1>6 DEF Save
  <2>2. TextTypes' /\ PressInv'
    BY <1>6, <2>1 DEF TextTypes, PressInv
  <2>3. CASE wifi_status' = "failed" /\ UNCHANGED <<saving, helper>>
    <3>1. HandingInv'
      BY <1>1, <2>1, <2>3 DEF HandingInv
    <3>2. EditorInv'
      BY <1>6, <2>1, <2>3 DEF EditorInv, CanBeSaved
    <3> QED
      BY <1>2, <2>1, <2>2, <3>1, <3>2
  <2>4. CASE /\ CanBeSaved(texts) /\ UNCHANGED wifi_status
             /\ saving' = "write" /\ helper' = "reading"
    <3>1. HandingInv'
      BY <1>6, <2>1, <2>4 DEF HandingInv, CanBeSaved
    <3>2. wifi_status # "saved"
      <4> SUFFICES ASSUME wifi_status = "saved"
                   PROVE  FALSE
        OBVIOUS
      <4>1. texts = [handed EXCEPT !.passphrase = <<>>]
        BY <1>6 DEF EditorInv
      <4>2. texts.passphrase = <<>>
        BY <1>1, <4>1 DEF Lines
      <4> QED
        BY <2>4, <4>2, EmptyCannotBeSaved
    <3>3. EditorInv'
      BY <1>6, <2>1, <2>4, <3>2 DEF EditorInv, CanBeSaved
    <3> QED
      BY <1>2, <2>1, <2>2, <3>1, <3>3
  <2> QED
    BY <1>6, <2>3, <2>4 DEF Save
<1>7. CASE /\ view = "wifi" /\ pressed_target' = NoTarget /\ UNCHANGED touched
           /\ Apply(pressed_target)
  <2>1. texts' \in Lines /\ Grows
    BY <1>7, AppliedIsTyped
  <2>2. /\ wifi_status' = "none" /\ page' = Page(symbols', uppercase')
        /\ UNCHANGED <<view, saving, wrote, helper, profile, handed>>
    BY <1>7 DEF Apply, Draw, storing
  <2>3. /\ field' \in {"ssid", "passphrase"}
        /\ symbols' \in BOOLEAN /\ uppercase' \in BOOLEAN
    BY <1>7 DEF Apply, TextTypes
  <2>4. TextTypes'
    BY <2>1, <2>2, <2>3 DEF TextTypes
  <2>5. HandingInv' /\ PressInv'
    BY <1>1, <1>7, <2>2 DEF HandingInv, PressInv
  <2>6. EditorInv'
    BY <2>2 DEF EditorInv, CanBeSaved
  <2> QED
    BY <2>1, <2>4, <2>5, <2>6
<1>8. CASE \E point \in Points : Release(point)
  <2>1. PICK point \in Points : Release(point)
    BY <1>8
  <2> DEFINE target == EditorTargetAt(point)
  <2>2. /\ view = "wifi" /\ pressed_target' = NoTarget /\ UNCHANGED touched
        /\ \/ UNCHANGED <<view, editing, storing>>
           \/ CloseEditor
           \/ Save
           \/ target = pressed_target /\ Apply(target)
    BY <2>1 DEF Release, IsTap
  <2> HIDE DEF target
  <2> QED
    BY <1>5, <1>6, <1>7, <2>2 DEF CloseEditor
<1>9. CASE ControllerBack
  BY <1>5, <1>9 DEF ControllerBack, CloseEditor
<1> QED
  BY <1>3, <1>4, <1>8, <1>9

\* Handing the lines to the helper, and the helper.
LEMMA HandingKeeps ==
  ASSUME EditorSteps, UNCHANGED shelf,
         WriteRequest \/ HelperExited \/ HelperRuns \/ HelperDies
  PROVE  EditorSteps' /\ Grows
<1> USE DEF EditorSteps
<1>1. /\ texts \in Lines /\ \A f \in DOMAIN texts : Len(texts[f]) \in Nat
  BY LinesAre DEF TextTypes
<1>2. UNCHANGED texts => Grows
  BY <1>1 DEF Grows
<1>3. /\ saving # "no" /\ pressed_target = NoTarget
      /\ UNCHANGED <<view, field, symbols, uppercase, page, pressed_target, touched,
                     handed>>
  BY DEF WriteRequest, HelperExited, HelperRuns, HelperDies, editing, HandingInv,
     PressInv
<1>4. view = "wifi" /\ texts = handed /\ CanBeSaved(texts)
  BY <1>3 DEF HandingInv
<1>5. PressInv'
  BY <1>3 DEF PressInv
<1>6. CASE UNCHANGED texts /\ wifi_status' \in {wifi_status, "failed"} /\ UNCHANGED profile
  <2>1. TextTypes'
    BY <1>3, <1>6 DEF TextTypes
  <2>2. EditorInv'
    BY <1>3, <1>4, <1>6 DEF EditorInv, CanBeSaved
  <2>3. HandingInv'
    <3>1. CASE WriteRequest \/ HelperDies \/ HelperRuns
      <4>1. /\ saving' # "no" /\ helper' # "none"
            /\ helper' \in {"stored", "done"} => helper \in {"stored", "done"} \/ profile' = texts
        BY <1>3, <3>1 DEF WriteRequest, HelperDies, HelperRuns, HandingInv
      <4> QED
        BY <1>3, <1>4, <1>6, <4>1 DEF HandingInv, CanBeSaved
    <3>2. CASE HelperExited
      BY <3>2 DEF HelperExited, HandingInv
    <3> QED
      BY <3>1, <3>2
  <2> QED
    BY <1>2, <1>5, <1>6, <2>1, <2>2, <2>3
<1>7. CASE WriteRequest \/ HelperDies
  BY <1>6, <1>7 DEF WriteRequest, HelperDies, editing
<1>8. CASE HelperRuns
  <2>1. CASE helper = "stored"
    BY <1>6, <1>8, <2>1 DEF HelperRuns, editing
  <2>2. CASE helper = "reading"
    <3>1. /\ helper' = "stored" /\ profile' = texts /\ UNCHANGED <<texts, wifi_status, saving>>
      BY <1>8, <2>2 DEF HelperRuns, editing
    <3>2. TextTypes'
      BY <1>3, <3>1 DEF TextTypes
    <3>3. HandingInv'
      BY <1>3, <1>4, <3>1 DEF HandingInv, CanBeSaved
    <3>4. EditorInv'
      BY <1>3, <1>4, <3>1 DEF EditorInv, CanBeSaved
    <3> QED
      BY <1>2, <1>5, <3>1, <3>2, <3>3, <3>4
  <2> QED
    BY <1>8, <2>1, <2>2 DEF HelperRuns
<1>9. CASE HelperExited
  <2>1. CASE wrote /\ Succeeded
    <3>1. /\ wifi_status' = "saved" /\ texts' = [texts EXCEPT !.passphrase = <<>>]
          /\ saving' = "no" /\ helper' = "none" /\ profile' = profile /\ profile = texts
      BY <1>9, <2>1 DEF HelperExited, Succeeded, HandingInv
    <3>2. texts' \in Lines
      <4>1. <<>> \in Seq(Characters)
        OBVIOUS
      <4> QED
        BY <1>1, <3>1, <4>1 DEF Lines
    <3>3. Grows
      <4>1. /\ texts'["ssid"] = texts["ssid"] /\ Len(texts'["passphrase"]) = 0
            /\ DOMAIN texts = {"ssid", "passphrase"}
        BY <1>1, <3>1 DEF Lines
      <4> QED
        BY <1>1, <4>1 DEF Grows
    <3>4. TextTypes'
      BY <1>3, <3>1, <3>2 DEF TextTypes
    <3>5. HandingInv'
      BY <3>1 DEF HandingInv
    <3>6. EditorInv'
      BY <1>3, <1>4, <3>1 DEF EditorInv, CanBeSaved, TextTypes
    <3> QED
      BY <1>5, <3>3, <3>4, <3>5, <3>6
  <2>2. CASE ~(wrote /\ Succeeded)
    BY <1>6, <1>9, <2>2 DEF HelperExited
  <2> QED
    BY <2>1, <2>2
<1> QED
  BY <1>7, <1>8, <1>9

\* A start, with an empty editor.
LEMMA EmptyEditor ==
  ASSUME view' = "menu", texts' = NoProfile, field' = "ssid", symbols' = FALSE,
         uppercase' = FALSE, page' = Page(symbols', uppercase'),
         pressed_target' = NoTarget, saving' = "no", helper' = "none",
         shelf' \in Shelves, profile' # NoProfile => CanBeSaved(profile)'
  PROVE  EditorSteps'
<1>1. NoProfile \in Lines
  BY EmptySeq DEF NoProfile, Lines
<1>2. TextTypes'
  BY <1>1 DEF TextTypes
<1>3. HandingInv' /\ PressInv'
  BY DEF HandingInv, PressInv
<1>4. EditorInv'
  BY DEF EditorInv
<1> QED
  BY <1>2, <1>3, <1>4 DEF EditorSteps

\* The editor is empty at the start.
LEMMA EditorStepsInit == Init => EditorSteps
<1> SUFFICES ASSUME Init
             PROVE  EditorSteps
  OBVIOUS
<1>1. /\ view = "menu" /\ texts = NoProfile /\ field = "ssid" /\ symbols = FALSE
      /\ uppercase = FALSE /\ page = Page(symbols, uppercase)
      /\ pressed_target = NoTarget /\ saving = "no" /\ helper = "none"
      /\ profile = NoProfile
  BY DEF Init, EditorInit
<1>2. shelf \in Shelves
  <2>1. Shelves # {}
    BY SettingsAssumption, Zenon
  <2>2. shelf \in Shelves \/ shelf = CHOOSE s \in Shelves : TRUE
    BY DEF Init
  <2> QED
    BY <2>1, <2>2
<1>3. NoProfile \in Lines
  BY EmptySeq DEF NoProfile, Lines
<1>4. TextTypes
  BY <1>1, <1>2, <1>3 DEF TextTypes
<1>5. HandingInv /\ PressInv
  BY <1>1 DEF HandingInv, PressInv
<1>6. EditorInv
  BY <1>1 DEF EditorInv
<1> QED
  BY <1>4, <1>5, <1>6 DEF EditorSteps

\* Every step keeps what the editor relies on and types only what was touched.
LEMMA EditorStepsNext ==
  ASSUME EditorSteps, [Next]_all
  PROVE  EditorSteps' /\ (Grows \/ UNCHANGED editor)
<1>1. CASE UNCHANGED <<editor, shelf>>
  BY <1>1, OthersKeepEditor
<1>2. CASE \/ StartUp \/ SaveStep \/ Exit \/ Change \/ Launch
           \/ PlayerTurnsVolume \/ PlayerEnds \/ SignalShutdown \/ UNCHANGED all
  <2>1. UNCHANGED <<editor, shelf>>
    BY <1>2 DEF StartUp, SaveStep, Exit, Change, Launch, PlayerTurnsVolume,
       PlayerEnds, SignalShutdown, all, settings
  <2> QED
    BY <1>1, <2>1
<1>3. CASE Edit
  BY <1>3, EditKeeps DEF Edit, settings
<1>4. CASE Handing \/ HelperStep \/ HelperGone
  BY <1>4, HandingKeeps DEF Handing, HelperStep, HelperGone, settings
<1>5. CASE Turn("menu", "settings") \/ Turn("settings", "menu")
  <2>1. /\ MenuIdle /\ view # "wifi" /\ view' \in {"menu", "settings"}
        /\ UNCHANGED <<texts, field, symbols, uppercase, wifi_status, page, saving,
                       wrote, helper, profile, handed, pressed_target, touched, shelf>>
    BY <1>5 DEF Turn, editing, storing, settings
  <2>2. texts \in Lines /\ \A f \in DOMAIN texts : Len(texts[f]) \in Nat
    BY LinesAre DEF EditorSteps, TextTypes
  <2>3. Grows
    BY <2>1, <2>2 DEF Grows
  <2>4. TextTypes'
    BY <2>1 DEF EditorSteps, TextTypes
  <2>5. HandingInv' /\ PressInv'
    BY <2>1 DEF EditorSteps, HandingInv, PressInv, MenuIdle
  <2>6. EditorInv'
    BY <2>1 DEF EditorSteps, EditorInv, CanBeSaved
  <2> QED
    BY <2>3, <2>4, <2>5, <2>6 DEF EditorSteps
<1>6. CASE StartedAgain
  <2>1. /\ view' = "menu" /\ texts' = NoProfile /\ field' = "ssid"
        /\ symbols' = FALSE /\ uppercase' = FALSE
        /\ page' = Page(symbols', uppercase')
        /\ pressed_target' = NoTarget /\ saving' = "no" /\ helper = "none"
        /\ UNCHANGED <<helper, profile, shelf>>
    BY <1>6 DEF StartedAgain, Draw
  <2>2. EditorSteps'
    BY <2>1, EmptyEditor DEF EditorSteps, EditorInv, TextTypes, CanBeSaved
  <2>3. Grows
    <3>1. texts \in Lines /\ \A f \in DOMAIN texts : Len(texts[f]) \in Nat
      BY LinesAre DEF EditorSteps, TextTypes
    <3>2. DOMAIN texts = {"ssid", "passphrase"}
      BY <3>1 DEF Lines
    <3>3. Len(texts'["ssid"]) = 0 /\ Len(texts'["passphrase"]) = 0
      BY <2>1 DEF NoProfile
    <3> QED
      BY <3>1, <3>2, <3>3 DEF Grows
  <2> QED
    BY <2>2, <2>3
<1> QED
  BY <1>2, <1>3, <1>4, <1>5, <1>6 DEF Next, Program, User

\* So it holds at all times.
LEMMA EditorStepsInvariant == Spec => []EditorSteps
<1>1. EditorSteps /\ [Next]_all => EditorSteps'
  BY EditorStepsNext
<1> QED
  BY <1>1, EditorStepsInit, PTL DEF Spec

\* Whenever the dashboard waits for input, what it shows is what its files hold
\* and the backlight has, unmuting is possible, a touch anywhere on a button is
\* a touch of that button, and what the editor says of its profile is true.
THEOREM SettingsAgree == Spec => []SettingsInv
<1>1. ASSUME EditorSteps
      PROVE  EditorInv /\ ScreenIsPlain
  <2>1. EditorInv
    BY <1>1 DEF EditorSteps
  <2>2. shelf.systems \in 1 .. 6 /\ Len(shelf.indices) \in Nat
    <3>1. shelf \in Shelves
      BY <1>1 DEF EditorSteps, TextTypes
    <3>2. \A s \in Shelves : s.systems \in 1 .. 6 /\ s.indices \in Seq(Nat)
      BY SettingsAssumption, Zenon
    <3>3. shelf.systems \in 1 .. 6 /\ shelf.indices \in Seq(Nat)
      BY <3>1, <3>2, Zenon
    <3> QED
      BY <3>3
  <2>3. IsPlain(MenuScreen(shelf.systems, shelf.indices, shelf.position))
    BY <2>2, MenuScreenIsPlain
  <2>4. page \in Pages
    BY <1>1, PagesAre DEF EditorSteps, TextTypes
  <2>5. IsPlain(EditorScreen[page])
    BY <2>4, EditorScreenIs
  <2>6. ScreenIsPlain
    BY <2>3, <2>5, SettingsScreenIsPlain DEF ScreenIsPlain
  <2> QED
    BY <2>1, <2>6
<1>2. Spec => []((EditorInv /\ ScreenIsPlain) /\ UnmutesToTheLast /\ BacklightIsTrue
                 /\ (MenuIdle /\ kind # "save file" => memory = file.value))
  BY <1>1, EditorStepsInvariant, SettingsAreShown, PTL
<1>3. /\ EditorInv /\ ScreenIsPlain /\ UnmutesToTheLast /\ BacklightIsTrue
      /\ (MenuIdle /\ kind # "save file" => memory = file.value)
      => SettingsInv
  BY DEF SettingsInv
<1> QED
  BY <1>2, <1>3, PTL

\* A character is typed only by the key that shows it: the finger was put down
\* and lifted on that key, drawn as it was when the finger came.
THEOREM KeysTypeWhatTheyShow == Spec => TypedIsTouched
<1>1. EditorSteps /\ [Next]_all => Grows \/ UNCHANGED editor
  BY EditorStepsNext
<1> QED
  BY <1>1, EditorStepsInvariant, PTL DEF Spec, TypedIsTouched, Grows

=============================================================================
