---------------------------- MODULE WifiProfiles ----------------------------
(***************************************************************************)
(* deck-wifi-profile-add, the helper behind SAVE in the dashboard's Wi-Fi  *)
(* editor.  It stores a profile under the canonical name of its network,   *)
(* removes the names an import may have used for it and puts the network   *)
(* in front of the preferred ones; the Wi-Fi selector reads all of it at   *)
(* any time, and writes the preferred file as well.                        *)
(*                                                                         *)
(* A passphrase is the one a profile was imported with or the one entered. *)
(* Nothing here is synced: a process that is killed loses nothing, but     *)
(* when the power fails every file that has changed since the kernel last  *)
(* wrote back is as it was then, as it is now, or an empty file.           *)
(***************************************************************************)
EXTENDS Lists, SequencesExt

CONSTANTS
  Nets,            \* SSIDs
  FileOrder,       \* names of profiles, in the order the shell lists them
  PreferredLimit

Name(net, canonical) == [net |-> net, canonical |-> canonical]

ASSUME ProfilesAssumption ==
  /\ FileOrder \in Seq([net : Nets, canonical : BOOLEAN]) /\ IsInjective(FileOrder)
  /\ \A n \in Nets : Contains(FileOrder, Name(n, TRUE))
  /\ PreferredLimit \in Nat \ {0}

VARIABLES
  dir,         \* the profiles: the passphrase at each place of FileOrder in use,
               \* or "empty" for a file that holds none any more
  preferred,   \* /etc/deck-wifi/preferred
  helper,      \* the helper process
  lock,        \* .profile-add.lock, in the directory of the profiles
  faults,      \* bound: file operations that may still fail
  saves,       \* bound: profiles that may still be saved
  entered,     \* history: networks whose profile has been saved
  known        \* history: networks that have had a profile; the power has not
               \* failed before the disk had what these two say

profiles == <<dir, preferred, helper, lock, saves, entered, known>>

Usable(i) == i \in DOMAIN dir /\ dir[i] # "empty"
FilesOf(net) == {i \in DOMAIN dir : FileOrder[i].net = net}
Saved == {FileOrder[i].net : i \in {j \in DOMAIN dir : Usable(j)}}

\* The first name of the network behind which load_profile_key finds a key.
FileOf(net) ==
  CHOOSE i \in FilesOf(net) :
    Usable(i) /\ \A j \in FilesOf(net) : Usable(j) => i <= j

CanonicalOf(net) ==
  CHOOSE i \in DOMAIN FileOrder : FileOrder[i] = Name(net, TRUE)

\* spellings are the names still to be removed, draft the next preferred file.
NoHelper(net) == [pc |-> "none", net |-> net, spellings |-> {}, draft |-> <<>>]
HelperIdle == helper.pc = "none"

ProfilesInit(imported, home, locked) ==
  /\ dir = [i \in imported |-> "imported"]
  /\ preferred = <<>> /\ helper = NoHelper(home) /\ lock = locked
  /\ entered = {} /\ known = Saved

\* Both writers of the preferred file: a network moves to the front.
Ahead(net) ==
  LET others == Only(preferred, Nets \ {net}) IN
  <<net>> \o SubSeq(others, 1, IF Len(others) < PreferredLimit
                               THEN Len(others) ELSE PreferredLimit - 1)

-----------------------------------------------------------------------------
\* A file operation fails.
Fault == faults > 0 /\ faults' = faults - 1

\* SAVE: the helper has read and checked both lines.
SaveProfile(net) ==
  /\ HelperIdle /\ saves > 0 /\ saves' = saves - 1
  /\ helper' = [NoHelper(net) EXCEPT !.pc = "lock"]
  /\ UNCHANGED <<dir, preferred, lock, faults, entered, known>>

\* The end of the helper and its cleanup, which takes the lock away.
Ends == helper' = NoHelper(helper.net) /\ lock' = FALSE

\* mkdir of the lock; the trap is set only after it.
TakeLock ==
  /\ helper.pc = "lock"
  /\ IF lock THEN helper' = NoHelper(helper.net)
             ELSE helper' = [helper EXCEPT !.pc = "store"]
  /\ lock' = TRUE
  /\ UNCHANGED <<dir, preferred, faults, saves, entered, known>>

\* The profile is written beside the others and renamed, and the shell lists
\* the names that are there now.
StoreProfile ==
  /\ helper.pc = "store"
  /\ LET place == CanonicalOf(helper.net)
     IN \/ /\ dir' = [i \in DOMAIN dir \cup {place} |->
                        IF i = place THEN "entered" ELSE dir[i]]
           /\ known' = known \cup {helper.net}
           /\ helper' = [helper EXCEPT !.pc = "remove",
                                       !.spellings = FilesOf(helper.net) \ {place}]
           /\ UNCHANGED <<lock, faults>>
        \/ Fault /\ Ends /\ UNCHANGED <<dir, known>>
  /\ UNCHANGED <<preferred, saves, entered>>

RemoveSpelling ==
  /\ helper.pc = "remove"
  /\ \E i \in helper.spellings :
       /\ \A j \in helper.spellings : i <= j
       /\ \/ /\ dir' = [j \in DOMAIN dir \ {i} |-> dir[j]]
             /\ helper' = [helper EXCEPT !.spellings = @ \ {i}]
             /\ UNCHANGED <<lock, faults>>
          \/ Fault /\ Ends /\ UNCHANGED dir
  /\ UNCHANGED <<preferred, saves, entered, known>>

\* The next preferred file, from what the present one holds.
ReadPreferred ==
  /\ helper.pc = "remove" /\ helper.spellings = {}
  /\ \/ /\ helper' = [helper EXCEPT !.pc = "publish", !.draft = Ahead(helper.net)]
        /\ UNCHANGED <<lock, faults>>
     \/ Fault /\ Ends
  /\ UNCHANGED <<dir, preferred, saves, entered, known>>

PublishPreferred ==
  /\ helper.pc = "publish"
  /\ Ends
  /\ \/ /\ preferred' = helper.draft
        /\ entered' = entered \cup {helper.net}
        /\ UNCHANGED faults
     \/ Fault /\ UNCHANGED <<preferred, entered>>
  /\ UNCHANGED <<dir, saves, known>>

HelperStep ==
  TakeLock \/ StoreProfile \/ RemoveSpelling \/ ReadPreferred \/ PublishPreferred

\* A file as it is: its contents, or that there is none.
At(files, i) == IF i \in DOMAIN files THEN files[i] ELSE "absent"

\* The places whose profile differs from the one on the disk.
Unwritten(onDisk) == {i \in DOMAIN FileOrder : At(dir, i) # At(onDisk.dir, i)}
AtRisk(onDisk) == {FileOrder[i].net : i \in Unwritten(onDisk)}

\* The power fails, with this on the disk; nobody runs the trap.
HelperIsCut(onDisk) ==
  /\ helper' = NoHelper(helper.net)
  /\ \E survives \in [Unwritten(onDisk) -> {"absent", "empty", "imported", "entered"}] :
       /\ \A i \in Unwritten(onDisk) :
            \/ survives[i] \in {At(dir, i), At(onDisk.dir, i)}
            \/ survives[i] = "empty" /\ i \in DOMAIN dir
       /\ dir' = [i \in {j \in DOMAIN FileOrder :
                           IF j \in Unwritten(onDisk) THEN survives[j] # "absent"
                                                    ELSE j \in DOMAIN dir}
                    |-> IF i \in Unwritten(onDisk) THEN survives[i] ELSE dir[i]]
  /\ \/ preferred' \in {preferred, onDisk.preferred}
     \/ preferred # onDisk.preferred /\ preferred' = <<>>
  /\ lock' \in {lock, onDisk.lock}
  /\ entered' = entered \ AtRisk(onDisk)
  /\ known' = (known \ AtRisk(onDisk)) \cup Saved'
  /\ UNCHANGED saves

-----------------------------------------------------------------------------
\* A network once saved has a usable profile at every moment, also while another
\* one replaces it and when that fails half way.  A power failure can only take
\* the profile of a network whose files had changed since the last write-back:
\* the helper syncs nothing, so there its "never creates a moment with no usable
\* profile" (deck-wifi-profile-add:81-83) does not hold.
NeverWithout == known \subseteq Saved

\* The passphrase that was saved is the one the selector finds, whatever names
\* the network's profile has had, with the same exception.
EnteredIsUsed == \A n \in entered : dir[FileOf(n)] = "entered"

\* A helper writes under the lock, and what it has written stays.
HelperInv ==
  /\ helper.pc \in {"store", "remove", "publish"} => lock
  /\ helper.pc \in {"remove", "publish"} =>
       dir[CanonicalOf(helper.net)] = "entered"

ProfilesInv == NeverWithout /\ EnteredIsUsed /\ HelperInv
=============================================================================
