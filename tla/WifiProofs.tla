------------------------------ MODULE WifiProofs ------------------------------
(***************************************************************************)
(* First, runs of deck-wifi-select under the watcher, for any networks,    *)
(* profiles, limits and faults: a run commits a configuration straight     *)
(* after a check that failed, ends with the configuration it found or one  *)
(* that has worked, and refreshes WireGuard when it reports a connection,  *)
(* but for what the properties except by name.                             *)
(*                                                                         *)
(* What makes it so is where a run may be while the configuration, the     *)
(* backup and the loaded network differ: CourseInv. The helper's profiles  *)
(* (StoreInv) and the lists of networks which it, the selector and the     *)
(* watcher share (WatchInv) are the others.                                *)
(*                                                                         *)
(* Then, the chiptune player, for any playlist, devices and losses: what   *)
(* is open is what is shown, commands come from presses, and the buttons   *)
(* skip to the nearest file that plays. PlayerIInv has a half for the      *)
(* player and one for its devices. What the loops over files return is     *)
(* shown by the least number of turns after which it would be wrong.       *)
(***************************************************************************)
EXTENDS WifiWatch, Chiptunes, Lemmas

Fields == {"pc", "from", "round", "retry", "seen", "cand", "pass", "att",
           "elapsed", "assocSeen", "renewed", "backup", "listed", "skipped"}

\* Before the backup, and while candidates are tried or put back.
Looking == {"start", "scan", "probe", "retry", "build", "confirm"}
Trying == {"try", "apply", "reload", "wait", "restore"}

\* The shell variables exist, and passes are counted.
ShellInv == DOMAIN sel = Fields /\ sel.pass \in Nat

\* What is loaded is what is configured unless loading it has failed, and a
\* complete connection has worked.
LoadedInv ==
  /\ sel.pc # "reload" /\ ~unloaded => live = config
  /\ Ready => live \in proven

\* The configuration that a run found is in place until it has a backup, and
\* in the backup from then on; past the last pass it is in place again.
CourseInv ==
  /\ sel.pc \in Looking => config = sel.from
  /\ sel.pc \in Trying => sel.backup = sel.from
  /\ sel.pc \in {"try", "apply"} => sel.pass <= Passes
  /\ sel.pc \in {"reload", "wait"} /\ RollingBack => config = sel.backup
  /\ sel.pc \in {"recovered", "publish"} =>
       live \in proven /\ (unloaded \/ config \in {sel.from} \cup proven)

\* The check before a candidate has just failed, and so has the last one of the
\* wait before the restoration.
CheckedInv ==
  sel.pc = "apply" \/ (sel.pc = "restore" /\ ~sel.skipped) => ~noticed

RunInv == ShellInv /\ LoadedInv /\ CourseInv /\ CheckedInv

-----------------------------------------------------------------------------
\* What a run carries along from one label to another.
Carries(s, t) ==
  /\ DOMAIN t = DOMAIN s
  /\ t.from = s.from /\ t.backup = s.backup /\ t.pass = s.pass

\* Pc changes the label and nothing else.
LEMMA LabelChanges ==
  ASSUME ShellInv, NEW l
  PROVE  Carries(sel, Pc(l)) /\ Pc(l).pc = l
  BY DEF ShellInv, Fields, Carries, Pc

\* A run that is over has the shell variables it began with.
LEMMA IdleIs == DOMAIN Idle = Fields /\ Idle.pass = 0 /\ Idle.pc = "idle"
  BY DEF Idle, Fields

\* NextCandidate goes on to a candidate of an allowed pass, or restores.
LEMMA NextCandidateIs ==
  ASSUME ShellInv
  PROVE  /\ DOMAIN NextCandidate = Fields
         /\ NextCandidate.from = sel.from /\ NextCandidate.backup = sel.backup
         /\ NextCandidate.pass \in Nat /\ NextCandidate.skipped = sel.skipped
         /\ \/ NextCandidate.pc = "try" /\ (sel.pass <= Passes => NextCandidate.pass <= Passes)
            \/ NextCandidate.pc = "restore"
<1>1. Passes \in Nat
  BY WifiAssumption
<1> QED
  BY <1>1 DEF ShellInv, Fields, NextCandidate, Pc

\* The steps between two labels that touch neither files nor radio.
LEMMA LookingKeeps ==
  ASSUME RunInv, FirstCheck \/ ScanCheck \/ RetryCheck \/ Scan \/ Build
  PROVE  RunInv'
<1>1. /\ UNCHANGED <<live, link, unloaded, config, proven>> /\ noticed' = Ready
      /\ sel.pc \in {"start", "scan", "probe", "retry", "build"}
  BY DEF FirstCheck, ScanCheck, RetryCheck, Check, Scan, Build, Exit, Go, radio
<1>2. \/ sel' = Idle
      \/ /\ Carries(sel, sel')
         /\ sel'.pc \in Looking \/ (sel'.pc = "recovered" /\ Ready)
  <2>1. CASE FirstCheck
    BY <2>1, LabelChanges DEF FirstCheck, Exit, Go, RunInv, Looking
  <2>2. CASE ScanCheck \/ RetryCheck
    BY <2>2, LabelChanges DEF ScanCheck, RetryCheck, Check, Go, RunInv, Looking
  <2>3. CASE Scan
    BY <2>3 DEF Scan, Go, NextRound, Pc, RunInv, ShellInv, Fields, Carries, Looking
  <2>4. CASE Build
    BY <2>4 DEF Build, Go, Exit, Pc, RunInv, ShellInv, Fields, Carries, Looking
  <2> QED
    BY <2>1, <2>2, <2>3, <2>4
<1>3. CASE sel' = Idle
  BY <1>1, <1>3, IdleIs DEF RunInv, ShellInv, LoadedInv, CourseInv, CheckedInv,
     Looking, Trying, Ready
<1>4. CASE /\ Carries(sel, sel')
           /\ sel'.pc \in Looking \/ (sel'.pc = "recovered" /\ Ready)
  BY <1>1, <1>4 DEF RunInv, ShellInv, LoadedInv, CourseInv, CheckedInv, Carries,
     Looking, Trying, Ready
<1> QED
  BY <1>2, <1>3, <1>4

\* The backup is of the configuration that the run found.
LEMMA ConfirmKeeps ==
  ASSUME RunInv, Confirm
  PROVE  RunInv'
<1>1. /\ UNCHANGED <<live, link, unloaded, config, proven>>
      /\ sel.pc = "confirm" /\ config = sel.from
  BY DEF Confirm, radio, RunInv, CourseInv, Looking
<1>2. Passes \in Nat \ {0}
  BY WifiAssumption
<1>3. CASE sel' = Idle
  BY <1>1, <1>3, IdleIs DEF RunInv, ShellInv, LoadedInv, CourseInv, CheckedInv,
     Looking, Trying, Ready
<1>4. CASE sel' = Pc("recovered")
  <2>1. Ready
    <3> DEFINE tries == [Pc("try") EXCEPT !.backup = config, !.pass = 1]
    <3>1. sel'.pc = "recovered" /\ Idle.pc = "idle" /\ tries.pc = "try"
      BY <1>4, LabelChanges, IdleIs DEF RunInv, ShellInv, Pc, Fields
    <3> HIDE DEF tries
    <3>2. Go(IF Ready THEN Pc("recovered") ELSE tries) \/ sel' = Idle
      BY DEF Confirm, Exit, Go, tries
    <3> QED
      BY <3>1, <3>2 DEF Go
  <2> QED
    BY <1>1, <1>4, <2>1, LabelChanges DEF RunInv, ShellInv, LoadedInv, CourseInv,
       CheckedInv, Carries, Looking, Trying, Ready
<1>5. CASE sel' = [Pc("try") EXCEPT !.backup = config, !.pass = 1]
  <2>1. /\ DOMAIN sel' = Fields /\ sel'.pc = "try" /\ sel'.backup = config
        /\ sel'.pass = 1 /\ sel'.from = sel.from
    BY <1>5 DEF Pc, RunInv, ShellInv, Fields
  <2> QED
    BY <1>1, <1>2, <2>1 DEF RunInv, ShellInv, LoadedInv, CourseInv,
       CheckedInv, Looking, Trying, Ready
<1> QED
  BY <1>3, <1>4, <1>5 DEF Confirm, Go, Exit

\* A candidate is checked for, committed, loaded and waited for.
LEMMA TryingKeeps ==
  ASSUME RunInv, TryCheck \/ Apply \/ Restore \/ Reload
  PROVE  RunInv'
<1> USE DEF RunInv, ShellInv, LoadedInv, CourseInv, CheckedInv, Looking, Trying, Ready
<1>1. CASE TryCheck
  BY <1>1, LabelChanges, ZenonT(30) DEF TryCheck, Check, Go, Carries, radio
<1>2. CASE Apply
  <2>1. UNCHANGED <<live, link, unloaded, proven>> /\ noticed' = Ready /\ sel.pc = "apply"
    BY <1>2 DEF Apply, Go, radio
  <2>2. CASE sel' = [Pc("reload") EXCEPT !.skipped = FALSE]
    <3>1. sel'.pc = "reload" /\ sel'.pass <= Passes /\ Carries(sel, sel')
      BY <2>1, <2>2, LabelChanges DEF Carries, Fields
    <3>2. Passes \in Nat /\ sel'.pass \in Nat
      BY <3>1, WifiAssumption DEF Carries
    <3> QED
      BY <2>1, <3>1, <3>2 DEF Carries, RollingBack
  <2>3. CASE sel' = [NextCandidate EXCEPT !.skipped = TRUE] /\ config' = config
    <3>1. /\ DOMAIN sel' = Fields /\ sel'.pc = NextCandidate.pc /\ sel'.skipped
          /\ sel'.from = sel.from /\ sel'.backup = sel.backup
          /\ sel'.pass = NextCandidate.pass
      BY <2>3, NextCandidateIs DEF Fields
    <3> QED
      BY <2>1, <2>3, <3>1, NextCandidateIs
  <2> QED
    BY <1>2, <2>2, <2>3 DEF Apply, Go
<1>3. CASE Restore
  <2>1. UNCHANGED <<live, link, unloaded, proven>> /\ sel.pc = "restore"
    BY <1>3 DEF Restore, radio
  <2>2. CASE sel' = Pc("reload") /\ config' = sel.backup
    BY <2>1, <2>2, LabelChanges DEF Carries
  <2>3. CASE sel' = Idle /\ config' = config
    BY <2>1, <2>3, IdleIs
  <2> QED
    BY <1>3, <2>2, <2>3 DEF Restore, Go, Exit
<1>4. CASE Reload
  <2>1. /\ UNCHANGED <<config, proven>> /\ sel.pc = "reload"
        /\ \/ live' = config /\ (link' = "down" \/ (live = config /\ link' = link))
           \/ unloaded' /\ live' = live /\ link' = link
    BY <1>4 DEF Reload
  <2>2. sel'.pc = "wait" /\ Carries(sel, sel')
    BY <1>4 DEF Reload, Go, Waiting, Carries, Fields
  <2> QED
    BY <2>1, <2>2 DEF Carries, RollingBack
<1> QED
  BY <1>1, <1>2, <1>3, <1>4

\* The wait ends with the connection, the next candidate or the restoration.
LEMMA WaitKeeps ==
  ASSUME RunInv, Wait
  PROVE  RunInv'
<1> USE DEF RunInv, ShellInv, LoadedInv, CourseInv, CheckedInv, Looking, Trying, Ready
<1>1. UNCHANGED <<live, link, unloaded, config, proven>> /\ noticed' = Ready /\ sel.pc = "wait"
  BY DEF Wait, GiveUp, Exit, Go
<1>2. CASE Ready /\ sel' = Pc("recovered")
  BY <1>1, <1>2, LabelChanges DEF Carries
<1>3. CASE sel' = Idle
  BY <1>1, <1>3, IdleIs
<1>4. CASE ~Ready /\ ~RollingBack /\ sel' = NextCandidate
  <2>1. Passes \in Nat
    BY WifiAssumption
  <2>2. sel.pass <= Passes
    BY <1>4, <2>1 DEF RollingBack
  <2> QED
    BY <1>1, <1>4, <2>2, NextCandidateIs
<1>5. CASE sel' = [sel EXCEPT !.elapsed = @ + 1, !.renewed = @ \/ Renews,
                              !.assocSeen = @ \/ link = "assoc"]
  <2>1. Carries(sel, sel') /\ sel'.pc = sel.pc
    BY <1>5 DEF Carries, Fields
  <2> QED
    BY <1>1, <2>1 DEF Carries, RollingBack
<1> QED
  BY <1>2, <1>3, <1>4, <1>5 DEF Wait, GiveUp, Exit, Go

\* What the watcher and the radio do leaves a run where it is, but for the
\* launch of a new one and the reboot that ends it.
LEMMA OthersKeep ==
  ASSUME RunInv, Radio \/ StartRecord \/ Recover \/ Watcher \/ RecordEnds
                   \/ RestartWatch \/ WriteBack \/ Reboot \/ UNCHANGED wifi
  PROVE  RunInv'
<1> USE DEF RunInv, ShellInv, LoadedInv, CourseInv, CheckedInv, Looking, Trying,
     Ready, RollingBack
<1>1. CASE Associate \/ Lease
  BY <1>1 DEF Associate, Lease, Leases, selector
<1>2. CASE Flip
  BY <1>2 DEF Flip
<1>3. CASE Recover
  BY <1>3, IdleIs DEF Recover, Exit, Go, radio
<1>8. CASE StartRecord
  BY <1>8, LabelChanges DEF StartRecord, Go, Carries, radio
<1>4. CASE BootDone \/ PollUp \/ Record \/ RecordEnds \/ SelectorReturned \/ Rest
  BY <1>4 DEF BootDone, PollUp, Record, RecordEnds, SelectorReturned, Rest, wifi, radio,
     selector
<1>5. CASE PollDown
  <2>1. UNCHANGED <<live, link, unloaded, config, proven, noticed>>
    BY <1>5 DEF PollDown, radio
  <2>2. CASE sel' = sel
    BY <2>1, <2>2
  <2>3. CASE ~LockTaken /\ Launch
    <3>1. /\ DOMAIN sel' = Fields /\ sel'.pc = "start" /\ sel'.from = config
          /\ sel'.pass = 0
      BY <2>3 DEF Launch, Idle, Fields
    <3>2. unloaded \/ live = config
      BY <2>3 DEF LockTaken, Running
    <3> QED
      BY <2>1, <3>1, <3>2
  <2> QED
    BY <1>5, <2>2, <2>3 DEF PollDown
<1>6. CASE RestartWatch \/ WriteBack \/ UNCHANGED wifi
  BY <1>6 DEF RestartWatch, WriteBack, wifi, radio, selector
<1>7. CASE Reboot
  BY <1>7, IdleIs DEF Reboot
<1> QED
  BY <1>1, <1>2, <1>3, <1>4, <1>5, <1>6, <1>7, <1>8 DEF Radio, Watcher

\* A selector's run keeps to its course.
THEOREM RunInvariant == Spec => []RunInv
<1>1. Init => RunInv
  <2> SUFFICES ASSUME Init
               PROVE  RunInv
    OBVIOUS
  <2>1. sel = Idle /\ live = config /\ live \in proven
    BY DEF Init, InitWifi
  <2> QED
    BY <2>1, IdleIs DEF RunInv, ShellInv, LoadedInv, CourseInv, CheckedInv,
       Looking, Trying
<1>2. RunInv /\ [Next]_vars => RunInv'
  BY LookingKeeps, ConfirmKeeps, TryingKeeps, WaitKeeps, OthersKeep
     DEF Next, Selector, vars
<1> QED
  BY <1>1, <1>2, PTL DEF Spec

\* The steps that end a run, and what they leave.
LEMMA RunEnds ==
  ASSUME RunInv, Selector \/ Radio \/ Watcher \/ RecordEnds \/ RestartWatch
                   \/ WriteBack \/ UNCHANGED wifi,
         sel.pc # "idle", sel'.pc = "idle"
  PROVE  /\ \/ config' \in {sel.from} \cup proven
            \/ status' = "CONNECTED" /\ unloaded' /\ live' \in proven
            \/ status' = "RESTORE FAILED"
         /\ sel.pc # "start" /\ status' = "CONNECTED" => fresh' = Ready
<1> USE DEF RunInv, ShellInv
<1>1. CASE FirstCheck \/ Build
  <2>1. config' = config /\ config = sel.from
    BY <1>1 DEF FirstCheck, Build, CourseInv, Looking
  <2>2. sel.pc = "start" \/ Build
    BY <1>1 DEF FirstCheck
  <2>3. Build => status' = "FAILED"
    BY DEF Build, Exit, Go, Pc, Fields
  <2> QED
    BY <2>1, <2>2, <2>3
<1>2. CASE ScanCheck \/ RetryCheck \/ TryCheck
  BY <1>2, LabelChanges DEF ScanCheck, RetryCheck, TryCheck, Check, Go
<1>3. CASE Scan
  BY <1>3 DEF Scan, Go, NextRound, Pc, Fields
<1>4. CASE Confirm
  <2>1. sel' # [Pc("try") EXCEPT !.backup = config, !.pass = 1] /\ sel' # Pc("recovered")
    BY LabelChanges DEF Pc, Fields
  <2> QED
    BY <1>4, <2>1 DEF Confirm, Go, Exit, CourseInv, Looking
<1>5. CASE Apply
  <2>1. /\ [Pc("reload") EXCEPT !.skipped = FALSE].pc = "reload"
        /\ [NextCandidate EXCEPT !.skipped = TRUE].pc = NextCandidate.pc
    BY LabelChanges, NextCandidateIs DEF Pc, Fields
  <2>2. NextCandidate.pc # "idle"
    BY NextCandidateIs
  <2> QED
    BY <1>5, <2>1, <2>2 DEF Apply, Go
<1>6. CASE Restore
  BY <1>6, LabelChanges DEF Restore, Go, Exit
<1>7. CASE Reload
  BY <1>7 DEF Reload, Go, Waiting, Fields
<1>8. CASE Wait
  <2>1. /\ sel' # Pc("recovered") /\ sel' # NextCandidate
        /\ sel' # [sel EXCEPT !.elapsed = @ + 1, !.renewed = @ \/ Renews,
                              !.assocSeen = @ \/ link = "assoc"]
    <3>1. sel.pc = "wait"
      BY <1>8 DEF Wait
    <3> QED
      BY <3>1, LabelChanges, NextCandidateIs, ZenonT(30) DEF Fields
  <2>2. RollingBack /\ status' = "FAILED" /\ config' = config /\ sel.pc = "wait"
    BY <1>8, <2>1 DEF Wait, GiveUp, Go, Exit
  <2> QED
    BY <2>2 DEF CourseInv, Trying
<1>9. CASE Recover
  BY <1>9 DEF Recover, Exit, CourseInv, radio
<1>12. CASE StartRecord
  BY <1>12, LabelChanges DEF StartRecord, Go
<1>10. CASE Radio \/ RestartWatch \/ RecordEnds \/ WriteBack \/ UNCHANGED wifi
  BY <1>10 DEF Radio, Associate, Lease, Flip, RestartWatch, RecordEnds, WriteBack, wifi,
     selector
<1>11. CASE Watcher
  BY <1>11 DEF Watcher, BootDone, PollUp, Record, PollDown, SelectorReturned, Rest,
     Running, LockTaken, wifi, selector
<1> QED
  BY <1>1, <1>2, <1>3, <1>4, <1>5, <1>6, <1>7, <1>8, <1>9, <1>10, <1>11, <1>12 DEF Selector

\* A run of deck-wifi-select keeps a connection that its last check has met,
\* leaves what it found or what has worked unless loading it has failed, and
\* refreshes WireGuard when it reports.
THEOREM RunsKeepWhatWorks == Spec => RunsAreSound
<1>1. ASSUME RunInv, [Next]_vars
      PROVE  /\ sel.pc \in {"apply", "restore"} /\ sel'.pc = "reload"
                  => ~noticed \/ (sel.pc = "restore" /\ sel.skipped)
             /\ sel.pc # "idle" /\ sel'.pc = "idle" /\ ~Reboot
                  => \/ config' \in {sel.from} \cup proven
                     \/ status' = "CONNECTED" /\ unloaded' /\ live' \in proven
                     \/ status' = "RESTORE FAILED"
             /\ sel.pc \notin {"idle", "start"} /\ sel'.pc = "idle"
                    /\ status' = "CONNECTED"
                  => (Ready => fresh') \/ Reboot
  <2>1. sel.pc \in {"apply", "restore"} => ~noticed \/ (sel.pc = "restore" /\ sel.skipped)
    BY <1>1 DEF RunInv, CheckedInv
  <2>2. CASE Reboot
    BY <2>1, <2>2
  <2>3. CASE ~Reboot
    <3>1. \/ Selector \/ Radio \/ Watcher \/ RecordEnds \/ RestartWatch \/ WriteBack
          \/ UNCHANGED wifi
      BY <1>1, <2>3 DEF Next, vars
    <3> QED
      BY <1>1, <2>1, <3>1, RunEnds DEF Ready
  <2> QED
    BY <2>2, <2>3
<1> QED
  BY <1>1, RunInvariant, PTL
     DEF Spec, RunsAreSound, CommitsAreChecked, RunIsAtomic, RunRefreshes
-----------------------------------------------------------------------------
\* The profile of a network is under its canonical name alone, as entered.
OnlyCanonical(n) ==
  FilesOf(n) = {CanonicalOf(n)} /\ dir[CanonicalOf(n)] = "entered"

\* The names that are still to be removed are those of the helper's network but
\* for the canonical one, which is there from the rename on.
SpellingsInv ==
  helper.pc = "remove" =>
    /\ CanonicalOf(helper.net) \in DOMAIN dir
    /\ helper.spellings = FilesOf(helper.net) \ {CanonicalOf(helper.net)}

\* The helper's variables exist and profiles have names of FileOrder.
HelperShellInv ==
  /\ DOMAIN helper = {"pc", "net", "spellings", "draft"} /\ helper.net \in Nets
  /\ DOMAIN dir \subseteq DOMAIN FileOrder

StoreInv ==
  /\ HelperShellInv /\ NeverWithout /\ HelperInv /\ SpellingsInv
  /\ helper.pc = "publish" => OnlyCanonical(helper.net)
  /\ \A n \in entered : n \in Nets /\ OnlyCanonical(n)

\* There is a canonical name for every network, and it is the network's.
LEMMA CanonicalIs ==
  ASSUME NEW n \in Nets
  PROVE  CanonicalOf(n) \in DOMAIN FileOrder /\ FileOrder[CanonicalOf(n)].net = n
<1>1. PICK i \in DOMAIN FileOrder : FileOrder[i] = Name(n, TRUE)
  <2>1. Contains(FileOrder, Name(n, TRUE))
    BY ProfilesAssumption
  <2>2. DOMAIN FileOrder = 1 .. Len(FileOrder)
    BY ProfilesAssumption
  <2> QED
    BY <2>1, <2>2, Zenon DEF Contains
<1>2. CanonicalOf(n) \in DOMAIN FileOrder /\ FileOrder[CanonicalOf(n)] = Name(n, TRUE)
  BY <1>1 DEF CanonicalOf
<1> QED
  BY <1>2 DEF Name

\* The profile is renamed to its canonical name.
LEMMA StoreKeeps ==
  ASSUME StoreInv, StoreProfile
  PROVE  StoreInv'
<1> DEFINE place == CanonicalOf(helper.net)
<1> USE DEF StoreInv, HelperShellInv, NeverWithout, HelperInv, SpellingsInv,
     OnlyCanonical
<1>1. place \in DOMAIN FileOrder /\ FileOrder[place].net = helper.net
  BY CanonicalIs
<1>2. CASE Ends /\ UNCHANGED <<dir, known, entered>>
  BY <1>2 DEF Ends, NoHelper, Saved, Usable, FilesOf, CanonicalOf
<1>3. CASE /\ dir' = [i \in DOMAIN dir \cup {place} |->
                        IF i = place THEN "entered" ELSE dir[i]]
           /\ known' = known \cup {helper.net}
           /\ helper' = [helper EXCEPT !.pc = "remove",
                                       !.spellings = FilesOf(helper.net) \ {place}]
           /\ UNCHANGED <<lock, entered>>
  <2>1. /\ helper'.pc = "remove" /\ helper'.net = helper.net
        /\ helper'.spellings = FilesOf(helper.net) \ {place}
        /\ DOMAIN helper' = DOMAIN helper
    BY <1>3
  <2>2. DOMAIN dir' = DOMAIN dir \cup {place} /\ dir'[place] = "entered"
    BY <1>3
  <2>3. \A n : FilesOf(n)' = FilesOf(n) \cup {j \in {place} : n = helper.net}
    BY <1>1, <2>2 DEF FilesOf
  <2>4. known' \subseteq Saved'
    BY <1>1, <1>3, <2>2 DEF Saved, Usable
  <2>5. CanonicalOf(helper.net)' = place
    BY <2>1 DEF CanonicalOf
  <2>7. SpellingsInv'
    BY <2>1, <2>2, <2>3, <2>5
  <2>8. HelperInv' /\ HelperShellInv'
    BY <1>1, <1>3, <2>1, <2>2, <2>5 DEF StoreProfile
  <2>6. ASSUME NEW n \in entered
        PROVE  OnlyCanonical(n)'
    <3>1. FilesOf(n)' = FilesOf(n)
      BY <2>3, <2>6
    <3>2. CanonicalOf(n) \in DOMAIN dir
      BY <2>6 DEF FilesOf
    <3>3. dir'[CanonicalOf(n)] = "entered"
      BY <1>3, <2>6, <3>2
    <3> QED
      BY <2>6, <3>1, <3>3 DEF CanonicalOf
  <2> QED
    BY <1>3, <2>1, <2>4, <2>6, <2>7, <2>8
<1> QED
  BY <1>2, <1>3 DEF StoreProfile

\* One of the other names is removed: no network loses its only profile.
LEMMA RemoveKeeps ==
  ASSUME StoreInv, RemoveSpelling
  PROVE  StoreInv'
<1> DEFINE place == CanonicalOf(helper.net)
<1> USE DEF StoreInv, HelperShellInv, NeverWithout, HelperInv, SpellingsInv,
     OnlyCanonical
<1>1. place \in DOMAIN FileOrder /\ FileOrder[place].net = helper.net
  BY CanonicalIs
<1>2. PICK i \in helper.spellings :
        \/ /\ dir' = [j \in DOMAIN dir \ {i} |-> dir[j]]
           /\ helper' = [helper EXCEPT !.spellings = @ \ {i}]
           /\ UNCHANGED lock
        \/ Ends /\ UNCHANGED dir
  BY DEF RemoveSpelling
<1>3. UNCHANGED <<known, entered>> /\ helper.pc = "remove"
  BY DEF RemoveSpelling
<1>4. CASE Ends /\ UNCHANGED dir
  BY <1>3, <1>4 DEF Ends, NoHelper, Saved, Usable, FilesOf, CanonicalOf
<1>5. CASE /\ dir' = [j \in DOMAIN dir \ {i} |-> dir[j]]
           /\ helper' = [helper EXCEPT !.spellings = @ \ {i}]
           /\ UNCHANGED lock
  <2>1. /\ helper'.pc = "remove" /\ helper'.net = helper.net
        /\ helper'.spellings = helper.spellings \ {i}
        /\ DOMAIN helper' = DOMAIN helper
    BY <1>3, <1>5
  <2>2. DOMAIN dir' = DOMAIN dir \ {i} /\ \A j \in DOMAIN dir' : dir'[j] = dir[j]
    BY <1>5
  <2>3. i # place /\ i \in DOMAIN dir /\ FileOrder[i].net = helper.net
    BY <1>3 DEF FilesOf
  <2>4. \A n : FilesOf(n)' = FilesOf(n) \ {i}
    BY <2>2 DEF FilesOf
  <2>5. known' \subseteq Saved'
    BY <1>1, <1>3, <2>2, <2>3 DEF Saved, Usable
  <2>6. CanonicalOf(helper.net)' = place
    BY <2>1 DEF CanonicalOf
  <2>8. SpellingsInv'
    BY <1>3, <2>1, <2>2, <2>3, <2>4, <2>6
  <2>9. HelperInv' /\ HelperShellInv'
    BY <1>3, <1>5, <2>1, <2>2, <2>3, <2>6
  <2>7. ASSUME NEW n \in entered
        PROVE  OnlyCanonical(n)'
    <3>1. i \notin FilesOf(n)
      BY <2>3, <2>7 DEF FilesOf
    <3> QED
      BY <2>2, <2>4, <2>7, <3>1 DEF FilesOf, CanonicalOf
  <2> QED
    BY <1>3, <2>1, <2>5, <2>7, <2>8, <2>9
<1> QED
  BY <1>2, <1>4, <1>5

\* The profiles are left alone while the helper goes on, except into the removals.
LEMMA HelperMoves ==
  ASSUME StoreInv, UNCHANGED <<dir, known>>,
         DOMAIN helper' = DOMAIN helper, helper'.net \in Nets,
         helper'.pc \in {"none", "lock"} \/ (helper'.pc = "store" /\ lock')
           \/ (/\ helper'.pc = "publish" /\ helper'.net = helper.net
               /\ OnlyCanonical(helper.net) /\ lock'),
         entered' = entered \/ (/\ entered' = entered \cup {helper.net}
                                /\ OnlyCanonical(helper.net))
  PROVE  StoreInv'
<1>1. \A n : OnlyCanonical(n)' <=> OnlyCanonical(n)
  BY DEF OnlyCanonical, FilesOf, CanonicalOf
<1>2. HelperShellInv' /\ NeverWithout' /\ SpellingsInv'
  BY DEF StoreInv, HelperShellInv, NeverWithout, SpellingsInv, Saved, Usable
<1>3. helper'.pc = "publish" => OnlyCanonical(helper.net)'
  BY <1>1, ZenonT(30) DEF OnlyCanonical, FilesOf, CanonicalOf
<1>4. HelperInv'
  BY <1>3 DEF HelperInv, OnlyCanonical
<1>5. \A n \in entered' : n \in Nets /\ OnlyCanonical(n)'
  BY <1>1 DEF StoreInv, HelperShellInv
<1> QED
  BY <1>2, <1>3, <1>4, <1>5 DEF StoreInv

\* A helper at its start.
LEMMA NoHelperIs ==
  ASSUME NEW n
  PROVE  /\ DOMAIN NoHelper(n) = {"pc", "net", "spellings", "draft"}
         /\ NoHelper(n).pc = "none" /\ NoHelper(n).net = n
  BY DEF NoHelper

\* When the power fails, the files of a network that were on the disk stay.
LEMMA PowerKeeps ==
  ASSUME StoreInv, Reboot
  PROVE  StoreInv'
<1> DEFINE gone == AtRisk(stored)
<1> USE DEF StoreInv, HelperShellInv
<1>1. PICK survives \in [Unwritten(stored) -> {"absent", "empty", "imported", "entered"}] :
        dir' = [i \in {j \in DOMAIN FileOrder :
                         IF j \in Unwritten(stored) THEN survives[j] # "absent"
                                                  ELSE j \in DOMAIN dir}
                  |-> IF i \in Unwritten(stored) THEN survives[i] ELSE dir[i]]
  BY DEF Reboot, HelperIsCut
<1>2. DOMAIN dir' \subseteq DOMAIN FileOrder
  BY <1>1
<1>3. /\ helper' = NoHelper(helper.net)
      /\ entered' = entered \ gone /\ known' = (known \ gone) \cup Saved'
  BY DEF Reboot, HelperIsCut
<1>4. ASSUME NEW i \in DOMAIN FileOrder, FileOrder[i].net \notin gone
      PROVE  /\ i \in DOMAIN dir' <=> i \in DOMAIN dir
             /\ i \in DOMAIN dir => dir'[i] = dir[i]
  <2> DEFINE D == {j \in DOMAIN FileOrder :
                         IF j \in Unwritten(stored) THEN survives[j] # "absent"
                                                  ELSE j \in DOMAIN dir}
  <2>1. i \notin Unwritten(stored)
    BY <1>4 DEF AtRisk
  <2>2. i \in D <=> i \in DOMAIN dir
    BY <1>4, <2>1
  <2>3. dir' = [j \in D |-> IF j \in Unwritten(stored) THEN survives[j] ELSE dir[j]]
    BY <1>1
  <2> HIDE DEF D
  <2> QED
    BY <2>1, <2>2, <2>3
<1>5. known \ gone \subseteq Saved'
  <2> SUFFICES ASSUME NEW n \in known, n \notin gone
               PROVE  n \in Saved'
    OBVIOUS
  <2>1. PICK i \in DOMAIN dir : FileOrder[i].net = n /\ dir[i] # "empty"
    BY DEF NeverWithout, Saved, Usable
  <2>2. i \in DOMAIN dir' /\ dir'[i] # "empty"
    BY <1>4, <2>1
  <2> QED
    BY <2>1, <2>2 DEF Saved, Usable
<1>6. ASSUME NEW n \in entered \ gone
      PROVE  n \in Nets /\ OnlyCanonical(n)'
  <2>1. n \in Nets /\ OnlyCanonical(n)
    BY <1>6
  <2>2. CanonicalOf(n) \in DOMAIN FileOrder /\ FileOrder[CanonicalOf(n)].net = n
    BY <2>1, CanonicalIs
  <2>3. FilesOf(n)' = FilesOf(n)
    BY <1>2, <1>4, <1>6 DEF FilesOf
  <2>4. CanonicalOf(n) \in DOMAIN dir
    BY <2>1 DEF OnlyCanonical, FilesOf
  <2>5. dir'[CanonicalOf(n)] = "entered"
    BY <1>4, <1>6, <2>1, <2>2, <2>4 DEF OnlyCanonical
  <2> QED
    BY <2>1, <2>3, <2>5 DEF OnlyCanonical, CanonicalOf
<1> QED
  BY <1>2, <1>3, <1>5, <1>6, NoHelperIs DEF NeverWithout, HelperInv, SpellingsInv

\* Steps that leave the profiles alone: of the helper, or of anyone else.
LEMMA OtherStepsKeep ==
  ASSUME StoreInv,
         \/ UNCHANGED others \/ TakeLock \/ ReadPreferred
         \/ PublishPreferred \/ \E n \in Nets : SaveProfile(n)
  PROVE  StoreInv'
<1> USE NoHelperIs DEF HelperShellInv
<1>1. CASE UNCHANGED others
  BY <1>1, ZenonT(30) DEF others, StoreInv, NeverWithout, HelperInv, SpellingsInv, OnlyCanonical,
     Saved, Usable, FilesOf, CanonicalOf
<1>3. CASE TakeLock
  <2>1. UNCHANGED <<dir, known, entered>> /\ lock'
    BY <1>3 DEF TakeLock
  <2>2. helper' = NoHelper(helper.net) \/ helper' = [helper EXCEPT !.pc = "store"]
    BY <1>3 DEF TakeLock
  <2> QED
    BY <2>1, <2>2, HelperMoves DEF StoreInv
<1>4. CASE ReadPreferred
  <2>1. UNCHANGED <<dir, known, entered>> /\ helper.pc = "remove" /\ helper.spellings = {}
    BY <1>4 DEF ReadPreferred
  <2>2. \/ helper' = NoHelper(helper.net)
        \/ lock' = lock /\ helper' = [helper EXCEPT !.pc = "publish", !.draft = Ahead(helper.net)]
    BY <1>4 DEF ReadPreferred, Ends
  <2>3. CanonicalOf(helper.net) \in FilesOf(helper.net)
    BY <2>1, CanonicalIs DEF StoreInv, SpellingsInv, FilesOf
  <2>4. FilesOf(helper.net) = {CanonicalOf(helper.net)}
    BY <2>1, <2>3 DEF StoreInv, SpellingsInv
  <2>5. OnlyCanonical(helper.net) /\ lock
    BY <2>1, <2>4 DEF StoreInv, HelperInv, OnlyCanonical
  <2> QED
    BY <2>1, <2>2, <2>5, HelperMoves DEF StoreInv
<1>5. CASE PublishPreferred
  BY <1>5, HelperMoves DEF PublishPreferred, Ends, StoreInv
<1>6. CASE \E n \in Nets : SaveProfile(n)
  BY <1>6, HelperMoves DEF SaveProfile, StoreInv
<1> QED
  BY <1>1, <1>3, <1>4, <1>5, <1>6

\* The steps of the radio, the selector and the watcher are not the helper's.
LEMMA OnlyHelperWrites ==
  ASSUME Radio \/ Selector \/ Watcher \/ RecordEnds \/ RestartWatch \/ WriteBack
  PROVE  UNCHANGED others
<1> USE DEF others, profiles
<1>1. CASE Radio
  BY <1>1 DEF Radio, Associate, Lease, Flip
<1>2. CASE Selector
  BY <1>2 DEF Selector, FirstCheck, ScanCheck, RetryCheck, TryCheck, Check, Scan, Build,
     Confirm, Apply, Restore, Reload, Wait, StartRecord, Recover
<1>3. CASE Watcher \/ RecordEnds \/ RestartWatch \/ WriteBack
  BY <1>3 DEF Watcher, BootDone, PollUp, Record, PollDown, SelectorReturned, Rest,
     RecordEnds, RestartWatch, WriteBack
<1> QED
  BY <1>1, <1>2, <1>3

\* The helper keeps a network's profiles in order at every point of its work.
THEOREM StoreInvariant == Spec => []StoreInv
<1>1. Init => StoreInv
  <2> SUFFICES ASSUME Init
               PROVE  StoreInv
    OBVIOUS
  <2>1. PICK s \in Scenarios : InitWifi(s)
    BY DEF Init
  <2>2. /\ helper = NoHelper(Home) /\ known = Saved /\ entered = {}
        /\ DOMAIN dir = s.imported
    BY <2>1 DEF InitWifi, ProfilesInit
  <2> QED
    BY <2>2, WifiAssumption DEF StoreInv, HelperShellInv, NeverWithout, HelperInv,
       SpellingsInv, NoHelper
<1>2. StoreInv /\ [Next]_vars => StoreInv'
  <2> SUFFICES ASSUME StoreInv, [Next]_vars
               PROVE  StoreInv'
    OBVIOUS
  <2>1. CASE Helper
    BY <2>1, StoreKeeps, RemoveKeeps, OtherStepsKeep DEF Helper, HelperStep
  <2>2. CASE Radio \/ Selector \/ Watcher \/ RecordEnds \/ RestartWatch \/ WriteBack
    BY <2>2, OnlyHelperWrites, OtherStepsKeep
  <2>3. CASE Reboot
    BY <2>3, PowerKeeps
  <2>4. CASE UNCHANGED vars
    BY <2>4, OtherStepsKeep DEF vars, profiles, others
  <2> QED
    BY <2>1, <2>2, <2>3, <2>4 DEF Next
<1> QED
  BY <1>1, <1>2, PTL DEF Spec

\* deck-wifi-profile-add never leaves a network that has been saved without a
\* profile, and what was entered last is what the selector finds, whatever
\* fails half way; a power failure takes only what was not written back.
THEOREM ProfilesAreKept == Spec => []ProfilesInv
<1>1. StoreInv => ProfilesInv
  <2> SUFFICES ASSUME StoreInv, NEW n \in entered
               PROVE  dir[FileOf(n)] = "entered"
    BY DEF StoreInv, ProfilesInv, EnteredIsUsed
  <2>1. n \in Nets /\ OnlyCanonical(n)
    BY DEF StoreInv
  <2>2. CanonicalOf(n) \in Int
    BY <2>1, CanonicalIs, ProfilesAssumption
  <2>3. FileOf(n) = CanonicalOf(n)
    BY <2>1, <2>2 DEF FileOf, OnlyCanonical
  <2> QED
    BY <2>1, <2>3 DEF OnlyCanonical
<1> QED
  BY <1>1, StoreInvariant, PTL

-----------------------------------------------------------------------------
(***************************************************************************)
(* The lists: the preferred networks, which two writers rename into place, *)
(* and the candidates of a run.                                            *)
(***************************************************************************)

\* No element is twice in a list.
NoneTwice(list) == \A j, k \in 1 .. Len(list) : list[j] = list[k] => j = k

\* What the preferred file, and the next one that is being written, may be.
Preferences ==
  {list \in Seq(Nets) : Len(list) <= PreferredLimit /\ NoneTwice(list)}

PreferencesInv ==
  preferred \in Preferences /\ draft \in Preferences /\ helper.draft \in Preferences

\* The candidates of a run, and that each saved network is one of them.
NetsOf(s) == [i \in DOMAIN s.cand |-> FileOrder[s.cand[i]].net]
Tried(s) ==
  s.cand # <<>> =>
    /\ ToSet(NetsOf(s)) = s.listed /\ IsInjective(NetsOf(s))
    /\ s.from.net \in s.listed => NetsOf(s)[1] = s.from.net

Labels == {"idle", "start", "scan", "probe", "retry", "build", "confirm", "try",
           "apply", "reload", "wait", "restore", "recovered", "publish"}
Longest == IF RollbackGrace > SwitchTimeout THEN RollbackGrace ELSE SwitchTimeout

\* The shell variables of a run.
GoodRun(s) ==
  /\ DOMAIN s = Fields /\ s.pc \in Labels
  /\ s.from \in Configs /\ s.backup \in Configs /\ s.seen \subseteq Nets
  /\ s.cand \in Seq(DOMAIN FileOrder) /\ Len(s.cand) <= Len(FileOrder)
  /\ s.round \in 0 .. ScanRounds /\ s.retry \in 0 .. ScanRetries - 1
  /\ s.pc \in {"start", "scan", "probe", "retry"} => s.round < ScanRounds
  /\ s.pass \in 0 .. Passes + 1 /\ s.att \in 1 .. Len(FileOrder) + 1
  /\ s.elapsed \in 0 .. Longest
  /\ Tried(s)

\* The radio and the configuration.
RadioInv ==
  /\ up \subseteq Nets /\ live \in Configs /\ link \in {"down", "assoc", "ready"}
  /\ kick \in BOOLEAN /\ flips \in Nat /\ config \in Configs /\ proven \subseteq Configs
  /\ unloaded \in BOOLEAN

FlagsInv ==
  /\ lock \in BOOLEAN /\ fresh \in BOOLEAN /\ noticed \in BOOLEAN
  /\ recorded \in BOOLEAN /\ recording \in BOOLEAN
  /\ status \in {"BOOT", "BUSY", "CONNECTED", "DISCONNECTED", "FAILED",
                 "RESTORE FAILED"}

CountsInv == faults \in Nat /\ saves \in Nat /\ restarts \in Nat /\ cuts \in Nat

\* The watcher has reached its threshold only while it waits for a run.
WatchingInv ==
  /\ watch \in {"boot", "poll", "record", "recording", "select", "rest"}
  /\ misses \in 0 .. DisconnectThreshold
  /\ watch # "select" => misses < DisconnectThreshold
  /\ OneSelector

WorldInv == RadioInv /\ FlagsInv /\ CountsInv /\ WatchingInv

ProfileTypes ==
  /\ \A i \in DOMAIN dir : dir[i] \in {"imported", "entered", "empty"}
  /\ helper.pc \in {"none", "lock", "store", "remove", "publish"}
  /\ helper.spellings \subseteq DOMAIN dir

\* What was written back is what such files may be.
DiskInv ==
  /\ DOMAIN stored.dir \subseteq DOMAIN FileOrder
  /\ \A i \in DOMAIN stored.dir : stored.dir[i] \in {"imported", "entered", "empty"}
  /\ stored.preferred \in Preferences /\ stored.lock \in BOOLEAN /\ stored.config \in Configs

WatchInv == WorldInv /\ GoodRun(sel) /\ PreferencesInv /\ ProfileTypes /\ DiskInv

\* A network that is put in front is in the list once.
LEMMA AheadIs ==
  ASSUME preferred \in Preferences, NEW n \in Nets
  PROVE  Ahead(n) \in Preferences
<1> DEFINE kept == Only(preferred, Nets \ {n})
           m == IF Len(kept) < PreferredLimit THEN Len(kept) ELSE PreferredLimit - 1
           front == SubSeq(kept, 1, m)
<1>1. preferred \in Seq(Nets) /\ NoneTwice(preferred)
  BY DEF Preferences
<1>2. /\ kept \in Seq(Nets) /\ Len(kept) \in Nat
      /\ \A k \in 1 .. Len(kept) : kept[k] \in Nets \ {n}
      /\ NoneTwice(kept)
  BY <1>1, OnlyIs DEF NoneTwice
<1>3. Ahead(n) = <<n>> \o front
  BY DEF Ahead
<1> HIDE DEF kept
<1>4. m \in 0 .. Len(kept) /\ m + 1 <= PreferredLimit /\ PreferredLimit \in Nat
  BY <1>2, ProfilesAssumption
<1> HIDE DEF m
<1>5. /\ front \in Seq(Nets) /\ Len(front) = m
      /\ \A k \in 1 .. m : front[k] = kept[k]
  BY <1>2, <1>4
<1> HIDE DEF front
<1> DEFINE list == Ahead(n)
<1>6. /\ list \in Seq(Nets) /\ Len(list) = m + 1 /\ list[1] = n
      /\ \A k \in 2 .. m + 1 : list[k] = kept[k - 1]
  BY <1>3, <1>4, <1>5
<1> HIDE DEF list
<1>7. NoneTwice(list)
  <2>1. ASSUME NEW k \in 2 .. m + 1
        PROVE  k - 1 \in 1 .. Len(kept) /\ list[k] # n
    <3>1. m \in Nat /\ m <= Len(kept) /\ Len(kept) \in Nat
      BY <1>2, <1>4
    <3>2. k - 1 \in 1 .. Len(kept)
      BY <3>1
    <3>3. kept[k - 1] # n
      BY <1>2, <3>2
    <3> QED
      BY <1>6, <3>2, <3>3
  <2>2. ASSUME NEW j \in 2 .. m + 1, NEW k \in 2 .. m + 1, list[j] = list[k]
        PROVE  j = k
    <3>1. kept[j - 1] = kept[k - 1]
      BY <1>6, <2>2
    <3>2. j - 1 = k - 1
      BY <1>2, <2>1, <3>1 DEF NoneTwice
    <3> QED
      BY <1>4, <3>2
  <2>3. \A k \in 1 .. m + 1 : k = 1 \/ k \in 2 .. m + 1
    BY <1>4
  <2> QED
    BY <1>6, <2>1, <2>2, <2>3 DEF NoneTwice
<1> QED
  BY <1>4, <1>6, <1>7 DEF Preferences, list

\* Nothing is preferred at first.
LEMMA NothingPreferred == <<>> \in Preferences
  BY ProfilesAssumption DEF Preferences, NoneTwice

\* The profiles are finitely many, and a saved network has a first one.
LEMMA SavedIs ==
  ASSUME StoreInv
  PROVE  /\ IsFiniteSet(Saved) /\ Saved \subseteq Nets
         /\ \A n \in Saved : /\ FileOf(n) \in DOMAIN FileOrder /\ FileOf(n) \in Nat \ {0}
                             /\ FileOrder[FileOf(n)].net = n
<1>1. /\ Len(FileOrder) \in Nat /\ DOMAIN FileOrder = 1 .. Len(FileOrder)
      /\ FileOrder \in Seq([net : Nets, canonical : BOOLEAN])
  BY ProfilesAssumption
<1>2. DOMAIN dir \subseteq 1 .. Len(FileOrder)
  BY <1>1 DEF StoreInv, HelperShellInv
<1>3. IsFiniteSet(Saved)
  <2> DEFINE places == {j \in DOMAIN dir : Usable(j)}
             net == [i \in places |-> FileOrder[i].net]
  <2>1. IsFiniteSet(places)
    <3>1. IsFiniteSet(1 .. Len(FileOrder))
      BY <1>1, FS_Interval
    <3> QED
      BY <1>2, <3>1, FS_Subset
  <2>2. net \in Surjection(places, Saved)
    BY DEF Surjection, Saved
  <2> QED
    BY <2>1, <2>2, FS_Surjection
<1>4. Saved \subseteq Nets
  <2>1. \A i \in 1 .. Len(FileOrder) : FileOrder[i] \in [net : Nets, canonical : BOOLEAN]
    BY <1>1, ElementOfSeq
  <2> QED
    BY <1>2, <2>1 DEF Saved
<1>5. ASSUME NEW n \in Saved
      PROVE  FileOf(n) \in FilesOf(n)
  <2> DEFINE T == {i \in FilesOf(n) : Usable(i)}
  <2>1. T # {} /\ T \subseteq Nat
    BY <1>2, <1>5 DEF Saved, FilesOf
  <2>2. \E i \in T : \A j \in T : i <= j
    BY <2>1, LeastIs
  <2> QED
    BY <2>2 DEF FileOf
<1> QED
  BY <1>1, <1>2, <1>3, <1>4, <1>5 DEF FilesOf

\* A list's member has a place in it.
LEMMA PlaceInIs ==
  ASSUME NEW n \in Nat, NEW list, DOMAIN list = 1 .. n, NEW x \in ToSet(list)
  PROVE  PlaceIn(list, x) \in 1 .. n /\ list[PlaceIn(list, x)] = x
<1>1. \E i \in DOMAIN list : list[i] = x
  BY DEF ToSet
<1> QED
  BY <1>1 DEF PlaceIn

\* The scan's ranking is a list of its networks.
LEMMA RankingIs ==
  ASSUME NEW S, IsFiniteSet(S), NEW ranking \in SetToSeqs(S)
  PROVE  Len(ranking) \in Nat /\ DOMAIN ranking = 1 .. Len(ranking)
<1>1. Cardinality(S) \in Nat
  BY FS_CardinalityType
<1>2. ranking \in [1 .. Cardinality(S) -> S]
  BY DEF SetToSeqs
<1>3. ranking \in Seq(S)
  BY <1>1, <1>2
<1> QED
  BY <1>3

\* What a rank says about a saved network.
LEMMA RankIs ==
  ASSUME StoreInv, preferred \in Preferences,
         NEW ranking, Len(ranking) \in Nat, DOMAIN ranking = 1 .. Len(ranking),
         NEW n \in Saved
  PROVE  \/ n = sel.from.net /\ RankOf(ranking, n) = 0
         \/ \E i \in 1 .. Len(preferred) :
              n # sel.from.net /\ preferred[i] = n /\ RankOf(ranking, n) = i
         \/ \E i \in 1 .. Len(ranking) :
              /\ n # sel.from.net /\ ranking[i] = n
              /\ RankOf(ranking, n) = Len(preferred) + i
         \/ \E i \in Nat \ {0} :
              /\ n # sel.from.net /\ FileOf(n) = i
              /\ RankOf(ranking, n) = Len(preferred) + Len(ranking) + i
<1>1. Len(preferred) \in Nat /\ DOMAIN preferred = 1 .. Len(preferred)
  BY DEF Preferences
<1>2. CASE n = sel.from.net
  BY <1>2 DEF RankOf
<1>3. CASE n # sel.from.net /\ n \in ToSet(preferred)
  BY <1>1, <1>3, PlaceInIs DEF RankOf
<1>4. CASE n # sel.from.net /\ n \in ToSet(ranking) \ ToSet(preferred)
  BY <1>4, PlaceInIs DEF RankOf
<1>5. CASE n # sel.from.net /\ n \notin ToSet(ranking) \cup ToSet(preferred)
  BY <1>5, SavedIs DEF RankOf
<1> QED
  BY <1>2, <1>3, <1>4, <1>5

\* Ranks are natural numbers, and no two saved networks have one.
LEMMA RanksDiffer ==
  ASSUME StoreInv, preferred \in Preferences,
         NEW ranking, Len(ranking) \in Nat, DOMAIN ranking = 1 .. Len(ranking)
  PROVE  /\ \A n \in Saved : RankOf(ranking, n) \in Nat
         /\ \A n \in Saved : n = sel.from.net => RankOf(ranking, n) = 0
         /\ \A m, n \in Saved : RankOf(ranking, m) = RankOf(ranking, n) => m = n
<1>1. Len(preferred) \in Nat
  BY DEF Preferences
<1>2. ASSUME NEW n \in Saved
      PROVE  /\ RankOf(ranking, n) \in Nat
             /\ n = sel.from.net => RankOf(ranking, n) = 0
  BY <1>1, <1>2, RankIs
<1>3. ASSUME NEW m \in Saved, NEW n \in Saved,
             RankOf(ranking, m) = RankOf(ranking, n)
      PROVE  m = n
  <2>1. \A k \in Saved : FileOrder[FileOf(k)].net = k
    BY SavedIs
  <2>2. PICK r \in Nat : r = RankOf(ranking, m) /\ r = RankOf(ranking, n)
    BY <1>2, <1>3
  <2>3. PICK p \in Nat, q \in Nat : p = Len(preferred) /\ q = Len(ranking)
    BY <1>1
  <2>4. ASSUME NEW k \in Saved, r = RankOf(ranking, k)
        PROVE  /\ r = 0 <=> k = sel.from.net
               /\ r \in 1 .. p => preferred[r] = k
               /\ r \in p + 1 .. p + q => ranking[r - p] = k
               /\ r > p + q => FileOf(k) = r - (p + q)
    <3>1. \/ k = sel.from.net /\ r = 0
          \/ \E i \in 1 .. p : k # sel.from.net /\ preferred[i] = k /\ r = i
          \/ \E i \in 1 .. q : k # sel.from.net /\ ranking[i] = k /\ r = p + i
          \/ \E i \in Nat \ {0} : k # sel.from.net /\ FileOf(k) = i /\ r = p + q + i
      BY <2>3, <2>4, RankIs
    <3> QED
      BY <3>1
  <2>6. r = 0 \/ r \in 1 .. p \/ r \in p + 1 .. p + q \/ r > p + q
    OBVIOUS
  <2> QED
    BY <2>1, <2>2, <2>4, <2>6
<1> QED
  BY <1>2, <1>3

\* Every saved network becomes a candidate, once, and the configured one first.
LEMMA CandidatesAre ==
  ASSUME StoreInv, preferred \in Preferences,
         NEW ranking \in SetToSeqs(Findable)
  PROVE  /\ Candidates(ranking) \in Seq(DOMAIN FileOrder)
         /\ Len(Candidates(ranking)) <= Len(FileOrder)
         /\ \A s : /\ s.cand = Candidates(ranking) /\ s.listed = Saved
                   /\ s.from = sel.from
                   => Tried(s)
<1> DEFINE rank == [n \in Saved |-> RankOf(ranking, n)]
           N == Cardinality(Saved)
           order == Sorted(Saved, rank)
           cand == Candidates(ranking)
<1>1. IsFiniteSet(Saved) /\ \A n \in Saved :
        FileOf(n) \in DOMAIN FileOrder /\ FileOrder[FileOf(n)].net = n
  BY SavedIs
<1>2. Len(ranking) \in Nat /\ DOMAIN ranking = 1 .. Len(ranking)
  <2>1. IsFiniteSet(Findable)
    BY <1>1, FS_Subset DEF Findable
  <2> QED
    BY <2>1, RankingIs
<1>3. /\ rank \in [Saved -> Int]
      /\ \A x, y \in Saved : rank[x] = rank[y] => x = y
      /\ \A x, y \in Saved : x = sel.from.net => rank[x] <= rank[y]
  BY <1>2, RanksDiffer
<1>4. /\ N \in Nat /\ order \in [1 .. N -> Saved]
      /\ \A j, k \in 1 .. N : order[j] = order[k] => j = k
      /\ \A x \in Saved : \E k \in 1 .. N : order[k] = x
      /\ \A x \in Saved : x = sel.from.net => 1 \in 1 .. N /\ order[1] = x
  <2> HIDE DEF rank
  <2> QED
    BY <1>1, <1>3, SortedIs
<1>5. cand = [k \in 1 .. N |-> FileOf(order[k])]
  BY <1>4 DEF Candidates, InOrder
<1> HIDE DEF order, cand, N
<1>6. \A k \in 1 .. N : cand[k] \in DOMAIN FileOrder /\ FileOrder[cand[k]].net = order[k]
  BY <1>1, <1>4, <1>5
<1>7. cand \in Seq(DOMAIN FileOrder) /\ Len(cand) = N /\ DOMAIN cand = 1 .. N
  BY <1>4, <1>5, <1>6
<1>8. Len(cand) <= Len(FileOrder)
  <2>1. /\ Len(FileOrder) \in Nat /\ DOMAIN FileOrder = 1 .. Len(FileOrder)
    BY ProfilesAssumption
  <2>2. cand \in Injection(1 .. N, 1 .. Len(FileOrder))
    <3>1. cand \in [1 .. N -> 1 .. Len(FileOrder)]
      BY <1>5, <1>6, <2>1
    <3>2. \A j, k \in 1 .. N : cand[j] = cand[k] => j = k
      BY <1>4, <1>6
    <3> QED
      BY <3>1, <3>2 DEF Injection, IsInjective
  <2>3. /\ IsFiniteSet(1 .. Len(FileOrder))
        /\ Cardinality(1 .. Len(FileOrder)) = Len(FileOrder)
        /\ Cardinality(1 .. N) = N
    BY <1>4, <2>1, PlacesOfList
  <2> QED
    BY <1>7, <2>2, <2>3, FS_Injection
<1>9. ASSUME NEW s, s.cand = cand, s.listed = Saved, s.from = sel.from
      PROVE  Tried(s)
  <2>1. NetsOf(s) = [k \in 1 .. N |-> order[k]]
    BY <1>6, <1>7, <1>9 DEF NetsOf
  <2> DEFINE nets == NetsOf(s)
  <2>2. DOMAIN nets = 1 .. N /\ \A k \in 1 .. N : nets[k] = order[k]
    BY <2>1
  <2> HIDE DEF nets
  <2>3. ToSet(nets) = Saved
    BY <1>4, <2>2 DEF ToSet
  <2>4. IsInjective(nets)
    BY <1>4, <2>2 DEF IsInjective
  <2>5. sel.from.net \in Saved => nets[1] = sel.from.net
    BY <1>4, <2>2
  <2> QED
    BY <1>9, <2>3, <2>4, <2>5 DEF Tried, nets
<1> QED
  BY <1>7, <1>8, <1>9 DEF cand

-----------------------------------------------------------------------------
\* The bounds of a run are natural numbers.
LEMMA BoundsAre ==
  /\ ScanRounds \in Nat \ {0} /\ ScanRetries \in Nat \ {0} /\ Passes \in Nat \ {0}
  /\ SwitchTimeout \in Nat /\ RollbackGrace \in Nat /\ Longest \in Nat
  /\ Limit \in Nat /\ Limit <= Longest /\ Len(FileOrder) \in Nat
<1>1. /\ ScanRounds \in Nat \ {0} /\ ScanRetries \in Nat \ {0} /\ Passes \in Nat \ {0}
      /\ SwitchTimeout \in Nat /\ RollbackGrace \in Nat
  BY WifiAssumption
<1>2. Len(FileOrder) \in Nat
  BY ProfilesAssumption
<1> QED
  BY <1>1, <1>2 DEF Longest, Limit

\* The list stays good while it and what it was made from stay.
LEMMA SameList ==
  ASSUME GoodRun(sel), NEW t,
         t.cand = sel.cand, t.listed = sel.listed, t.from = sel.from
  PROVE  Tried(t)
<1>1. NetsOf(t) = NetsOf(sel)
  BY DEF NetsOf
<1> QED
  BY <1>1 DEF GoodRun, Tried

\* A run may go on to another label.
LEMMA LabelKeepsRun ==
  ASSUME GoodRun(sel), NEW l \in Labels,
         l \in {"start", "scan", "probe", "retry"} => sel.round < ScanRounds
  PROVE  GoodRun(Pc(l))
<1>1. /\ DOMAIN Pc(l) = DOMAIN sel /\ Pc(l).pc = l
      /\ \A f \in Fields \ {"pc"} : Pc(l)[f] = sel[f]
  BY DEF GoodRun, Fields, Pc
<1>2. Tried(Pc(l))
  BY <1>1, SameList DEF Fields
<1> QED
  BY <1>1, <1>2 DEF GoodRun, Fields

\* Whether the last candidate was applied has no part in it.
LEMMA SkippedKeepsRun ==
  ASSUME NEW s, GoodRun(s), NEW b
  PROVE  GoodRun([s EXCEPT !.skipped = b])
<1> DEFINE t == [s EXCEPT !.skipped = b]
<1>1. DOMAIN t = Fields /\ \A f \in Fields \ {"skipped"} : t[f] = s[f]
  BY DEF GoodRun, Fields
<1>2. NetsOf(t) = NetsOf(s)
  BY <1>1 DEF NetsOf, Fields
<1>3. Tried(t)
  BY <1>1, <1>2 DEF GoodRun, Tried, Fields
<1> HIDE DEF t
<1>4. GoodRun(t)
  BY <1>1, <1>3 DEF GoodRun, Fields
<1> QED
  BY <1>4 DEF t

\* No run, and one that begins, have no candidates yet.
LEMMA RunBegins ==
  ASSUME config \in Configs,
         NEW s, s \in {Idle, [Idle EXCEPT !.pc = "start", !.from = config]}
  PROVE  GoodRun(s)
<1>1. AtHome \in Configs
  BY WifiAssumption DEF AtHome, Config, Configs, Keys
<1>2. /\ DOMAIN s = Fields /\ s.pc \in Labels /\ s.from \in Configs
      /\ s.backup \in Configs /\ s.seen = {} /\ s.cand = <<>> /\ s.round = 0
      /\ s.retry = 0 /\ s.pass = 0 /\ s.att = 1 /\ s.elapsed = 0
  <2>1. CASE s = Idle
    BY <1>1, <2>1 DEF Idle, Fields, Labels
  <2>2. CASE s = [Idle EXCEPT !.pc = "start", !.from = config]
    BY <1>1, <2>2 DEF Idle, Fields, Labels
  <2> QED
    BY <2>1, <2>2
<1> QED
  BY <1>2, BoundsAre DEF GoodRun, Tried

\* The next candidate is one of the list, or of the next pass.
LEMMA NextCandidateIsGood ==
  ASSUME GoodRun(sel), sel.pass <= Passes
  PROVE  GoodRun(NextCandidate)
<1> DEFINE t == NextCandidate
<1>1. /\ DOMAIN t = Fields
      /\ \A f \in Fields \ {"pc", "att", "pass"} : t[f] = sel[f]
      /\ t.pc \in {"try", "restore"}
      /\ \/ sel.att < Len(sel.cand) /\ t.att = sel.att + 1 /\ t.pass = sel.pass
         \/ sel.pass < Passes /\ t.att = 1 /\ t.pass = sel.pass + 1
         \/ t.att = sel.att /\ t.pass = sel.pass + 1
  <2>1. /\ DOMAIN sel = Fields /\ Len(sel.cand) \in Nat /\ sel.att \in Nat
        /\ sel.pass \in Nat
    BY BoundsAre, SMTT(30) DEF GoodRun
  <2>2. CASE sel.att < Len(sel.cand)
    <3>1. t = [Pc("try") EXCEPT !.att = @ + 1]
      BY <2>1, <2>2 DEF NextCandidate
    <3> QED
      BY <2>1, <2>2, <3>1 DEF Fields, Pc
  <2>3. CASE sel.att >= Len(sel.cand) /\ sel.pass < Passes
    <3>1. t = [Pc("try") EXCEPT !.att = 1, !.pass = @ + 1]
      BY <2>1, <2>3 DEF NextCandidate
    <3> QED
      BY <2>1, <2>3, <3>1 DEF Fields, Pc
  <2>4. CASE ~(sel.att < Len(sel.cand))
               /\ ~(sel.att >= Len(sel.cand) /\ sel.pass < Passes)
    <3>1. t = [Pc("restore") EXCEPT !.pass = @ + 1]
      BY <2>4 DEF NextCandidate
    <3> QED
      BY <2>1, <3>1 DEF Fields, Pc
  <2> QED
    BY <2>1, <2>2, <2>3, <2>4
<1> HIDE DEF t
<1>2. Tried(t)
  BY <1>1, SameList DEF Fields
<1>3. t.att \in 1 .. Len(FileOrder) + 1 /\ t.pass \in 0 .. Passes + 1
  <2>1. /\ Len(sel.cand) \in Nat /\ Len(sel.cand) <= Len(FileOrder)
        /\ sel.att \in 1 .. Len(FileOrder) + 1 /\ sel.pass \in Nat
    BY BoundsAre DEF GoodRun
  <2>2. PICK files \in Nat, passes \in Nat : files = Len(FileOrder) /\ passes = Passes
    BY BoundsAre
  <2> QED
    BY <1>1, <2>1, <2>2, SMTT(30)
<1>4. GoodRun(t)
  BY <1>1, <1>2, <1>3 DEF GoodRun, Fields, Labels
<1> QED
  BY <1>4 DEF t

\* Looking for candidates keeps the shell variables within their bounds.
LEMMA LookingIsGood ==
  ASSUME WatchInv, RunInv, StoreInv,
         FirstCheck \/ ScanCheck \/ RetryCheck \/ TryCheck \/ Scan \/ Build \/ Confirm
  PROVE  GoodRun(sel')
<1> USE DEF WatchInv
<1>1. GoodRun(sel) /\ config \in Configs
  BY DEF WorldInv, RadioInv
<1>2. GoodRun(Idle)
  BY <1>1, RunBegins
<1>3. CASE FirstCheck \/ ScanCheck \/ RetryCheck \/ TryCheck
  <2>1. \/ sel' = Idle
        \/ sel' = Pc("scan") /\ sel.pc = "start"
        \/ sel' = Pc("probe") /\ sel.pc \in {"scan", "retry"}
        \/ sel' = Pc("apply")
        \/ sel' = Pc("recovered")
    BY <1>3 DEF FirstCheck, ScanCheck, RetryCheck, TryCheck, Check, Exit, Go
  <2> QED
    BY <1>1, <1>2, <2>1, LabelKeepsRun, ZenonT(30) DEF GoodRun, Labels
<1>4. CASE Scan
  <2>1. sel.pc = "probe" /\ sel.round < ScanRounds
    BY <1>1, <1>4 DEF Scan, GoodRun
  <2>2. \/ \E s \in SUBSET up \ {{}} :
             sel' = NextRound([sel EXCEPT !.seen = @ \cup s])
        \/ sel.retry + 1 < ScanRetries
             /\ sel' = [Pc("retry") EXCEPT !.retry = @ + 1]
        \/ sel' = NextRound(sel)
    BY <1>4 DEF Scan, Go
  <2>3. CASE sel.retry + 1 < ScanRetries
               /\ sel' = [Pc("retry") EXCEPT !.retry = @ + 1]
    <3>1. /\ DOMAIN sel' = Fields /\ sel'.pc = "retry"
          /\ sel'.retry = sel.retry + 1
          /\ \A f \in Fields \ {"pc", "retry"} : sel'[f] = sel[f]
      BY <1>1, <2>3 DEF GoodRun, Fields, Pc
    <3>2. Tried(sel')
      BY <1>1, <3>1, SameList DEF Fields
    <3>3. sel'.retry \in 0 .. ScanRetries - 1
      <4>1. PICK retries \in Nat : retries = ScanRetries
        BY BoundsAre
      <4>2. sel.retry \in 0 .. retries - 1 /\ sel.retry + 1 < retries
        BY <1>1, <2>3, <4>1 DEF GoodRun
      <4> QED
        BY <3>1, <4>1, <4>2
    <3> QED
      BY <1>1, <2>1, <3>1, <3>2, <3>3 DEF GoodRun, Fields, Labels
  <2>4. CASE \/ \E s \in SUBSET up \ {{}} :
                  sel' = NextRound([sel EXCEPT !.seen = @ \cup s])
             \/ sel' = NextRound(sel)
    <3>1. /\ DOMAIN sel' = Fields /\ sel'.seen \subseteq Nets
          /\ sel'.round = sel.round + 1 /\ sel'.retry = 0
          /\ sel'.pc = IF sel.round + 1 < ScanRounds THEN "scan" ELSE "build"
          /\ \A f \in Fields \ {"pc", "seen", "round", "retry"} : sel'[f] = sel[f]
      <4>1. DOMAIN sel = Fields /\ sel.seen \subseteq Nets /\ up \subseteq Nets
        BY <1>1 DEF GoodRun, WorldInv, RadioInv
      <4>2. CASE sel' = NextRound(sel)
        BY <4>1, <4>2 DEF Fields, NextRound
      <4>3. ASSUME NEW s \in SUBSET up, sel' = NextRound([sel EXCEPT !.seen = @ \cup s])
            PROVE  /\ DOMAIN sel' = Fields /\ sel'.seen = sel.seen \cup s
                   /\ sel'.round = sel.round + 1 /\ sel'.retry = 0
                   /\ sel'.pc = IF sel.round + 1 < ScanRounds THEN "scan" ELSE "build"
                   /\ \A f \in Fields \ {"pc", "seen", "round", "retry"} : sel'[f] = sel[f]
        BY <4>1, <4>3 DEF Fields, NextRound
      <4> QED
        BY <2>4, <4>1, <4>2, <4>3, ZenonT(30)
    <3>2. Tried(sel')
      BY <1>1, <3>1, SameList DEF Fields
    <3> QED
      BY <1>1, <2>1, <3>1, <3>2, BoundsAre DEF GoodRun, Fields, Labels
  <2> QED
    BY <2>2, <2>3, <2>4
<1>5. CASE Build
  <2>1. CASE sel' = Idle
    BY <1>2, <2>1
  <2>2. CASE \E ranking \in SetToSeqs(Findable) :
               sel' = [Pc("confirm") EXCEPT !.cand = Candidates(ranking),
                                            !.listed = Saved, !.seen = {}, !.round = 0]
    <3>1. PICK ranking \in SetToSeqs(Findable) :
            sel' = [Pc("confirm") EXCEPT !.cand = Candidates(ranking),
                                         !.listed = Saved, !.seen = {}, !.round = 0]
      BY <2>2
    <3>2. /\ DOMAIN sel' = Fields /\ sel'.pc = "confirm"
          /\ sel'.cand = Candidates(ranking) /\ sel'.listed = Saved
          /\ sel'.seen = {} /\ sel'.round = 0
          /\ \A f \in Fields \ {"pc", "cand", "listed", "seen", "round"} :
               sel'[f] = sel[f]
      BY <1>1, <3>1 DEF GoodRun, Fields, Pc
    <3>3. /\ sel'.cand \in Seq(DOMAIN FileOrder)
          /\ Len(sel'.cand) <= Len(FileOrder) /\ Tried(sel')
      BY <3>2, CandidatesAre DEF Fields, PreferencesInv
    <3> QED
      BY <1>1, <3>2, <3>3, BoundsAre DEF GoodRun, Fields, Labels
  <2> QED
    BY <1>5, <2>1, <2>2 DEF Build, Exit, Go
<1>6. CASE Confirm
  <2>1. CASE sel' = [Pc("try") EXCEPT !.backup = config, !.pass = 1]
    <3>1. /\ DOMAIN sel' = Fields /\ sel'.pc = "try" /\ sel'.backup = config
          /\ sel'.pass = 1
          /\ \A f \in Fields \ {"pc", "backup", "pass"} : sel'[f] = sel[f]
      BY <1>1, <2>1 DEF GoodRun, Fields, Pc
    <3>2. Tried(sel')
      BY <1>1, <3>1, SameList DEF Fields
    <3> QED
      BY <1>1, <3>1, <3>2, BoundsAre DEF GoodRun, Fields, Labels
  <2>2. CASE sel' = Pc("recovered") \/ sel' = Idle
    BY <1>1, <1>2, <2>2, LabelKeepsRun DEF Labels
  <2> QED
    BY <1>6, <2>1, <2>2 DEF Confirm, Go, Exit
<1> QED
  BY <1>3, <1>4, <1>5, <1>6

\* So does trying them, up to the record of what has worked.
LEMMA TryingIsGood ==
  ASSUME WatchInv, RunInv,
         Apply \/ Restore \/ Reload \/ Wait \/ StartRecord \/ Recover
  PROVE  GoodRun(sel')
<1> USE DEF WatchInv
<1>1. GoodRun(sel) /\ config \in Configs
  BY DEF WorldInv, RadioInv
<1>2. GoodRun(Idle)
  BY <1>1, RunBegins
<1>3. CASE Apply
  <2>1. sel.pass <= Passes
    BY <1>3 DEF Apply, RunInv, CourseInv
  <2>2. GoodRun(Pc("reload")) /\ GoodRun(NextCandidate)
    BY <1>1, <2>1, LabelKeepsRun, NextCandidateIsGood DEF Labels
  <2>3. \/ sel' = [Pc("reload") EXCEPT !.skipped = FALSE]
        \/ sel' = [NextCandidate EXCEPT !.skipped = TRUE]
    BY <1>3 DEF Apply, Go
  <2> QED
    BY <2>2, <2>3, SkippedKeepsRun
<1>4. CASE Restore
  BY <1>1, <1>2, <1>4, LabelKeepsRun DEF Restore, Go, Exit, Labels
<1>5. CASE Reload
  <2>1. /\ DOMAIN sel' = Fields /\ sel'.pc = "wait" /\ sel'.elapsed = 0
        /\ \A f \in Fields \ {"pc", "elapsed", "assocSeen", "renewed"} :
             sel'[f] = sel[f]
    BY <1>1, <1>5 DEF Reload, Go, Waiting, GoodRun, Fields
  <2>2. Tried(sel')
    BY <1>1, <2>1, SameList DEF Fields
  <2> QED
    BY <1>1, <2>1, <2>2, BoundsAre DEF GoodRun, Fields, Labels
<1>6. CASE Wait
  <2>1. CASE sel' = Pc("recovered") \/ sel' = Idle
    BY <1>1, <1>2, <2>1, LabelKeepsRun DEF Labels
  <2>2. CASE ~RollingBack /\ sel' = NextCandidate
    <3>1. sel.pass <= Passes
      BY <1>1, <2>2, BoundsAre DEF RollingBack, GoodRun
    <3> QED
      BY <1>1, <2>2, <3>1, NextCandidateIsGood
  <2>3. CASE /\ sel.elapsed < Limit
             /\ sel' = [sel EXCEPT !.elapsed = @ + 1, !.renewed = @ \/ Renews,
                                   !.assocSeen = @ \/ link = "assoc"]
    <3>1. /\ DOMAIN sel' = Fields /\ sel'.elapsed = sel.elapsed + 1
          /\ \A f \in Fields \ {"elapsed", "assocSeen", "renewed"} :
               sel'[f] = sel[f]
      BY <1>1, <2>3 DEF GoodRun, Fields
    <3>2. Tried(sel')
      BY <1>1, <3>1, SameList DEF Fields
    <3>3. sel'.elapsed \in 0 .. Longest
      <4>1. PICK limit \in Nat, longest \in Nat :
              limit = Limit /\ longest = Longest /\ limit <= longest
        BY BoundsAre
      <4>2. sel.elapsed \in 0 .. longest /\ sel.elapsed < limit
        BY <1>1, <2>3, <4>1 DEF GoodRun
      <4> QED
        BY <3>1, <4>1, <4>2
    <3> QED
      BY <1>1, <3>1, <3>2, <3>3 DEF GoodRun, Fields
  <2> QED
    BY <1>6, <2>1, <2>2, <2>3 DEF Wait, GiveUp, Go, Exit
<1>7. CASE StartRecord \/ Recover
  BY <1>1, <1>2, <1>7, LabelKeepsRun DEF StartRecord, Recover, Go, Exit, Labels
<1> QED
  BY <1>3, <1>4, <1>5, <1>6, <1>7

-----------------------------------------------------------------------------
\* A file operation that may fail fails once less.
LEMMA FaultsAre ==
  ASSUME faults \in Nat, Fault \/ UNCHANGED faults
  PROVE  faults' \in Nat
  BY DEF Fault

\* The radio has no part in the lists, and its state stays one.
LEMMA RadioIsGood ==
  ASSUME WatchInv, Radio, UNCHANGED <<watcher, surroundings>>
  PROVE  WatchInv'
<1>1. /\ UNCHANGED <<live, unloaded, config, status, sel, draft, misses, watch, recorded>>
      /\ UNCHANGED <<recording, restarts, cuts, stored, faults, dir, preferred, helper>>
      /\ UNCHANGED <<lock, saves>>
  BY DEF Radio, Associate, Lease, Flip, selector, watcher, profiles, surroundings
<1>2. /\ PreferencesInv' /\ ProfileTypes' /\ GoodRun(sel') /\ WatchingInv' /\ CountsInv'
      /\ DiskInv'
  BY <1>1 DEF WatchInv, PreferencesInv, ProfileTypes, WorldInv, WatchingInv, CountsInv,
     OneSelector, Running, DiskInv
<1>3. RadioInv /\ FlagsInv
  BY DEF WatchInv, WorldInv
<1>4. up' \subseteq Nets /\ link' \in {"down", "assoc", "ready"} /\ proven' \subseteq Configs
  BY <1>3 DEF Radio, Associate, Lease, Flip, selector, RadioInv
<1>5. flips' \in Nat
  <2>1. CASE Associate \/ Lease
    BY <1>3, <2>1 DEF Associate, Lease, RadioInv
  <2>2. CASE Flip
    BY <1>3, <2>2 DEF Flip, RadioInv
  <2> QED
    BY <2>1, <2>2 DEF Radio
<1>6. kick' \in BOOLEAN /\ fresh' \in BOOLEAN /\ noticed' \in BOOLEAN
  <2>1. kick' \in {kick, FALSE} /\ noticed' \in {noticed, FALSE}
    BY DEF Radio, Associate, Lease, Flip, selector
  <2>2. fresh' = fresh \/ fresh' = (fresh /\ ~Ready) \/ fresh' = FALSE
    BY DEF Radio, Associate, Lease, Flip, selector
  <2> QED
    BY <1>3, <2>1, <2>2 DEF RadioInv, FlagsInv
<1>7. RadioInv' /\ FlagsInv'
  BY <1>1, <1>3, <1>4, <1>5, <1>6 DEF RadioInv, FlagsInv
<1> QED
  BY <1>2, <1>7 DEF WatchInv, WorldInv

\* What record_success reads and renames is a good list.
LEMMA RecordsAreGood ==
  ASSUME PreferencesInv, config \in Configs, faults \in Nat
  PROVE  /\ ReadsPreferred => draft' \in Preferences
         /\ RecordSuccess => preferred' \in Preferences /\ faults' \in Nat
<1>1. config.net \in Nets
  BY DEF Configs
<1>2. Ahead(config.net) \in Preferences
  BY <1>1, AheadIs DEF PreferencesInv
<1> QED
  BY <1>2, NothingPreferred, FaultsAre
     DEF ReadsPreferred, RecordSuccess, PreferencesInv

\* The selector keeps what it shares with the others.
LEMMA SelectorIsGood ==
  ASSUME WatchInv, RunInv, StoreInv, Selector, UNCHANGED <<watcher, surroundings>>
  PROVE  WorldInv' /\ PreferencesInv' /\ ProfileTypes' /\ DiskInv'
<1> USE DEF WatchInv
<1>1. /\ up' = up /\ flips' = flips /\ proven' = proven /\ noticed' = Ready
      /\ UNCHANGED <<watch, misses, recorded, recording, restarts, cuts>>
      /\ UNCHANGED others /\ Running
  BY OnlyHelperWrites
     DEF Selector, FirstCheck, ScanCheck, RetryCheck, TryCheck, Check, Scan, Build,
         Confirm, Apply, Restore, Reload, Wait, GiveUp, StartRecord, Recover, Exit, Go,
         radio, watcher, surroundings, Running
<1>16. DiskInv'
  BY DEF surroundings, DiskInv
<1>2. ProfileTypes' /\ lock' = lock /\ saves' = saves /\ helper' = helper
  BY <1>1 DEF others, ProfileTypes
<1>3. WatchingInv'
  <2>1. ~recording /\ OneSelector'
    BY <1>1 DEF WorldInv, WatchingInv, OneSelector
  <2> QED
    BY <1>1, <2>1 DEF WorldInv, WatchingInv
<1>10. RadioInv /\ FlagsInv /\ CountsInv
  BY DEF WorldInv
<1>11. ASSUME live' \in {live, config}, link' \in {link, "down"}, kick' \in BOOLEAN,
              config' \in Configs, unloaded' \in {unloaded, TRUE, FALSE}
       PROVE  RadioInv'
  BY <1>1, <1>10, <1>11 DEF RadioInv
<1>12. ASSUME fresh' \in BOOLEAN,
              status' \in {status, "CONNECTED", "BUSY", "FAILED", "RESTORE FAILED"}
       PROVE  FlagsInv'
  <2>1. noticed' \in BOOLEAN
    BY <1>1 DEF Ready
  <2> QED
    BY <1>1, <1>2, <1>10, <1>12, <2>1 DEF FlagsInv
<1>13. ASSUME faults' \in Nat
       PROVE  CountsInv'
  BY <1>1, <1>2, <1>10, <1>13 DEF CountsInv
<1>14. ASSUME preferred' \in Preferences, draft' \in Preferences
       PROVE  PreferencesInv'
  BY <1>2, <1>14 DEF PreferencesInv
<1>15. /\ config \in Configs /\ kick \in BOOLEAN /\ fresh \in BOOLEAN /\ faults \in Nat
       /\ preferred \in Preferences /\ draft \in Preferences /\ Ready \in BOOLEAN
  BY <1>10 DEF RadioInv, FlagsInv, CountsInv, PreferencesInv, Ready
<1> USE <1>2, <1>3, <1>15, <1>16 DEF WorldInv
<1>4. CASE FirstCheck \/ ScanCheck \/ RetryCheck \/ TryCheck \/ Scan \/ Build
  <2>1. UNCHANGED <<live, link, kick, unloaded, config, fresh, preferred, draft, faults>>
        /\ status' \in {status, "CONNECTED", "BUSY", "FAILED"}
    BY <1>4 DEF FirstCheck, ScanCheck, RetryCheck, TryCheck, Check, Scan, Build, Exit,
       radio, profiles
  <2> QED
    BY <2>1, <1>11, <1>12, <1>13, <1>14
<1>5. CASE Confirm \/ Apply \/ Restore
  <2>1. /\ UNCHANGED <<live, link, kick, unloaded, fresh, preferred, draft>>
        /\ status' \in {status, "BUSY", "FAILED", "RESTORE FAILED"}
        /\ Fault \/ UNCHANGED faults
    BY <1>5 DEF Confirm, Apply, Restore, Exit, radio, profiles
  <2>2. config' \in Configs
    <3>1. CASE config' = config
      BY <3>1 DEF WorldInv, RadioInv, CountsInv
    <3>2. CASE config' = sel.backup
      BY <3>2 DEF GoodRun
    <3>3. ASSUME NEW file \in DOMAIN dir, config' = Config(FileOrder[file].net, dir[file])
          PROVE  config' \in Configs
      <4>1. FileOrder[file].net \in Nets
        <5>1. file \in 1 .. Len(FileOrder)
          BY ProfilesAssumption DEF StoreInv, HelperShellInv
        <5>2. FileOrder[file] \in [net : Nets, canonical : BOOLEAN]
          BY <5>1, ProfilesAssumption, ElementOfSeq
        <5> QED
          BY <5>2
      <4> QED
        BY <3>3, <4>1 DEF ProfileTypes, Config, Configs, Keys
    <3> QED
      BY <1>5, <3>1, <3>2, <3>3 DEF Confirm, Apply, Restore, Usable
  <2>3. faults' \in Nat
    BY <2>1, FaultsAre DEF WorldInv, RadioInv, CountsInv
  <2> QED
    BY <2>1, <2>2, <2>3, <1>11, <1>12, <1>13, <1>14
<1>6. CASE Reload
  <2>1. /\ UNCHANGED <<config, preferred, draft, status>> /\ live' \in {live, config}
        /\ link' \in {link, "down"} /\ kick' \in {kick, FALSE} /\ fresh' \in {fresh, FALSE}
        /\ unloaded' \in {TRUE, FALSE} /\ (Fault \/ UNCHANGED faults)
    BY <1>6 DEF Reload, profiles
  <2>2. faults' \in Nat
    BY <2>1, FaultsAre
  <2> QED
    BY <2>1, <2>2, <1>11, <1>12, <1>13, <1>14
<1>7. CASE Wait
  <2>1. /\ UNCHANGED <<config, live, link, unloaded, fresh, preferred, draft, faults>>
        /\ status' \in {status, "FAILED"} /\ kick' \in {kick, kick \/ Renews}
    BY <1>7 DEF Wait, GiveUp, Exit, profiles
  <2>2. kick' \in BOOLEAN
    BY <2>1 DEF WorldInv, RadioInv, CountsInv
  <2> QED
    BY <2>1, <2>2, <1>11, <1>12, <1>13, <1>14
<1>8. CASE StartRecord
  <2>1. /\ UNCHANGED <<config, live, link, kick, unloaded, fresh, preferred, faults>>
        /\ ReadsPreferred /\ UNCHANGED status
    BY <1>8 DEF StartRecord, radio, profiles
  <2>2. draft' \in Preferences
    BY <2>1, RecordsAreGood DEF WorldInv, RadioInv, CountsInv
  <2> QED
    BY <2>1, <2>2, <1>11, <1>12, <1>13, <1>14
<1>9. CASE Recover
  <2>1. /\ UNCHANGED <<config, live, link, kick, unloaded, draft>> /\ RecordSuccess
        /\ fresh' = Ready /\ status' = "CONNECTED"
    BY <1>9 DEF Recover, Exit, radio
  <2>2. preferred' \in Preferences /\ faults' \in Nat
    BY <2>1, RecordsAreGood DEF WorldInv, RadioInv, CountsInv
  <2> QED
    BY <2>1, <2>2, <1>11, <1>12, <1>13, <1>14
<1> QED
  BY <1>4, <1>5, <1>6, <1>7, <1>8, <1>9 DEF Selector

\* The watcher counts below its threshold unless it waits for a run.
LEMMA WatcherIsGood ==
  ASSUME WatchInv, Watcher \/ RecordEnds \/ RestartWatch
  PROVE  WatchInv'
<1>1. /\ UNCHANGED <<up, live, link, kick, flips, unloaded, config, proven>>
      /\ UNCHANGED <<fresh, noticed, dir, helper, lock, saves, cuts, stored>>
  BY DEF Watcher, BootDone, PollUp, Record, PollDown, SelectorReturned, Rest, RecordEnds,
     RestartWatch, wifi, radio, selector, profiles, others, surroundings
<1>2. /\ GoodRun(sel) /\ PreferencesInv /\ ProfileTypes /\ DiskInv
      /\ RadioInv /\ FlagsInv /\ CountsInv /\ WatchingInv
  BY DEF WatchInv, WorldInv
<1>3. RadioInv' /\ ProfileTypes' /\ DiskInv'
  BY <1>1, <1>2 DEF RadioInv, ProfileTypes, DiskInv
<1>4. /\ (preferred' = preferred /\ faults' = faults) \/ RecordSuccess
      /\ draft' = draft \/ ReadsPreferred
  BY DEF Watcher, BootDone, PollUp, Record, PollDown, SelectorReturned, Rest, RecordEnds,
     RestartWatch, wifi, selector, profiles
<1>5. PreferencesInv' /\ faults' \in Nat
  BY <1>1, <1>2, <1>4, RecordsAreGood DEF PreferencesInv, RadioInv, CountsInv
<1>6. restarts' = restarts \/ (restarts > 0 /\ restarts' = restarts - 1)
  BY DEF Watcher, BootDone, PollUp, Record, PollDown, SelectorReturned, Rest, RecordEnds,
     RestartWatch, surroundings
<1>7. CountsInv'
  BY <1>1, <1>2, <1>5, <1>6 DEF CountsInv
<1>8. GoodRun(sel')
  <2>1. sel' = sel \/ Launch
    BY DEF Watcher, BootDone, PollUp, Record, PollDown, SelectorReturned, Rest,
       RecordEnds, RestartWatch, wifi, selector
  <2>2. GoodRun([Idle EXCEPT !.pc = "start", !.from = config])
    BY <1>2, RunBegins DEF RadioInv
  <2> QED
    BY <1>2, <2>1, <2>2 DEF Launch
<1>9. FlagsInv'
  <2>1. status' \in {status, "CONNECTED", "DISCONNECTED", "BOOT"}
    BY DEF Watcher, BootDone, PollUp, Record, PollDown, SelectorReturned, Rest,
       RecordEnds, RestartWatch, Begin, wifi, selector
  <2>2. recording' \in {recording, TRUE, FALSE}
    BY DEF Watcher, BootDone, PollUp, Record, PollDown, SelectorReturned, Rest,
       RecordEnds, RestartWatch
  <2>3. recorded' \in {recorded, FALSE} \/ recorded' = LockTaken
          \/ recorded' = (faults' = faults)
    BY DEF Watcher, BootDone, PollUp, Record, PollDown, SelectorReturned, Rest,
       RecordEnds, RestartWatch, Begin
  <2>4. recorded' \in BOOLEAN
    BY <1>2, <2>3 DEF FlagsInv, LockTaken, Running
  <2> QED
    BY <1>1, <1>2, <2>1, <2>2, <2>4 DEF FlagsInv
<1>10. WatchingInv'
  <2>1. OneSelector'
    <3>1. \/ sel' = sel /\ (recording' = recording \/ recording' = FALSE)
          \/ sel' = sel /\ ~Running
          \/ ~LockTaken /\ recording' = recording
      BY DEF Watcher, BootDone, PollUp, Record, PollDown, SelectorReturned, Rest,
         RecordEnds, RestartWatch, wifi, selector, LockTaken
    <3> QED
      BY <1>2, <3>1 DEF WatchingInv, OneSelector, Running, LockTaken
  <2>2. PICK t \in Nat : t = DisconnectThreshold /\ t > 0
    BY WatchAssumption
  <2>3. /\ watch \in {"boot", "poll", "record", "recording", "select", "rest"}
        /\ misses \in 0 .. t
        /\ watch # "select" => misses < t
    BY <1>2, <2>2 DEF WatchingInv
  <2>4. \/ /\ misses' = 0
           /\ watch' \in {"boot", "rest", "record"}
        \/ /\ misses' = misses /\ watch' = watch
        \/ /\ misses' = misses /\ watch # "select"
           /\ watch' \in {"poll", "rest", "recording"}
        \/ /\ misses' = misses + 1 /\ misses + 1 < t /\ watch' = "rest"
        \/ /\ misses' = misses + 1 /\ watch = "poll" /\ watch' = "select"
    BY <2>2 DEF Watcher, BootDone, PollUp, Record, PollDown, SelectorReturned, Rest,
       RecordEnds, RestartWatch, Begin
  <2>5. /\ watch' \in {"boot", "poll", "record", "recording", "select", "rest"}
        /\ misses' \in 0 .. t
        /\ watch' # "select" => misses' < t
    BY <2>2, <2>3, <2>4
  <2>6. /\ misses' \in 0 .. DisconnectThreshold
        /\ watch' # "select" => misses' < DisconnectThreshold
    BY <2>2, <2>5
  <2> QED
    BY <2>1, <2>5, <2>6 DEF WatchingInv
<1> QED
  BY <1>3, <1>5, <1>7, <1>8, <1>9, <1>10 DEF WatchInv, WorldInv

\* The files are well-formed after what makes them what the disk has.
LEMMA WrittenIsGood ==
  ASSUME PreferencesInv, lock \in BOOLEAN, config \in Configs,
         DOMAIN dir \subseteq DOMAIN FileOrder,
         \A i \in DOMAIN dir : dir[i] \in {"imported", "entered", "empty"}
  PROVE  /\ DOMAIN FileState.dir \subseteq DOMAIN FileOrder
         /\ \A i \in DOMAIN FileState.dir : FileState.dir[i] \in {"imported", "entered", "empty"}
         /\ FileState.preferred \in Preferences /\ FileState.lock \in BOOLEAN
         /\ FileState.config \in Configs
  BY DEF FileState, PreferencesInv

\* The kernel's write-back has no part in the rest.
LEMMA WriteBackIsGood ==
  ASSUME WatchInv, StoreInv, WriteBack
  PROVE  WatchInv'
<1>1. /\ UNCHANGED <<up, live, link, kick, flips, unloaded, config, fresh, status, sel>>
      /\ UNCHANGED <<draft, proven, noticed, dir, preferred, helper, lock, saves, faults>>
      /\ UNCHANGED <<watch, misses, recorded, recording, restarts, cuts>>
      /\ stored' = FileState
  BY DEF WriteBack, wifi, radio, selector, profiles, watcher
<1>2. RadioInv' /\ WatchingInv' /\ FlagsInv' /\ CountsInv'
  <2>1. RadioInv'
    BY <1>1 DEF WatchInv, WorldInv, RadioInv
  <2>2. WatchingInv'
    BY <1>1 DEF WatchInv, WorldInv, WatchingInv, OneSelector, Running
  <2>3. FlagsInv'
    BY <1>1, Zenon DEF WatchInv, WorldInv, FlagsInv
  <2>4. CountsInv'
    BY <1>1 DEF WatchInv, WorldInv, CountsInv
  <2> QED
    BY <2>1, <2>2, <2>3, <2>4
<1>3. PreferencesInv' /\ ProfileTypes' /\ GoodRun(sel')
  BY <1>1 DEF WatchInv, PreferencesInv, ProfileTypes
<1>4. DiskInv'
  BY <1>1, WrittenIsGood DEF DiskInv, WatchInv, WorldInv, FlagsInv, RadioInv,
     ProfileTypes, StoreInv, HelperShellInv
<1> QED
  BY <1>2, <1>3, <1>4 DEF WatchInv, WorldInv

\* A power failure ends the selector, the record and the helper, and leaves files
\* that hold what was in them, what is, or nothing.
LEMMA RebootIsGood ==
  ASSUME WatchInv, StoreInv, Reboot
  PROVE  WatchInv'
<1>1. /\ UNCHANGED <<up, flips, faults, draft, proven, saves, restarts>>
      /\ cuts > 0 /\ cuts' = cuts - 1 /\ Begin
      /\ sel' = Idle /\ live' = config' /\ link' = "down" /\ kick' = FALSE
      /\ fresh' = TRUE /\ noticed' = FALSE /\ recording' = FALSE /\ unloaded' = FALSE
      /\ helper' = NoHelper(helper.net) /\ stored' = FileState'
      /\ lock' \in {lock, stored.lock} /\ preferred' \in {preferred, stored.preferred, <<>>}
      /\ config' \in {config, stored.config, [config EXCEPT !.key = "empty"]}
  BY DEF Reboot, HelperIsCut
<1>2. /\ PreferencesInv /\ ProfileTypes /\ DiskInv /\ DOMAIN dir \subseteq DOMAIN FileOrder
      /\ RadioInv /\ FlagsInv /\ CountsInv /\ WatchingInv
  BY DEF WatchInv, WorldInv, StoreInv, HelperShellInv
<1>8. config' \in Configs
  <2>1. [config EXCEPT !.key = "empty"] \in Configs
    BY <1>2 DEF RadioInv, Configs, Keys
  <2> QED
    BY <1>1, <1>2, <2>1 DEF RadioInv, DiskInv
<1>9. /\ DOMAIN dir' \subseteq DOMAIN FileOrder
      /\ \A i \in DOMAIN dir' : dir'[i] \in {"imported", "entered", "empty"}
  <2>1. PICK survives \in [Unwritten(stored) -> {"absent", "empty", "imported", "entered"}] :
          dir' = [i \in {j \in DOMAIN FileOrder :
                           IF j \in Unwritten(stored) THEN survives[j] # "absent"
                                                    ELSE j \in DOMAIN dir}
                    |-> IF i \in Unwritten(stored) THEN survives[i] ELSE dir[i]]
    BY DEF Reboot, HelperIsCut
  <2>2. DOMAIN dir' \subseteq DOMAIN FileOrder
    BY <2>1
  <2>3. ASSUME NEW i \in DOMAIN dir'
        PROVE  dir'[i] \in {"imported", "entered", "empty"}
    <3>1. CASE i \in Unwritten(stored)
      BY <2>1, <2>3, <3>1
    <3>2. CASE i \notin Unwritten(stored)
      BY <1>2, <2>1, <2>3, <3>2 DEF ProfileTypes
    <3> QED
      BY <3>1, <3>2
  <2> QED
    BY <2>2, <2>3
<1>3. GoodRun(sel')
  BY <1>1, <1>2, RunBegins DEF RadioInv
<1>4. helper'.pc = "none" /\ helper'.spellings = {} /\ helper'.draft = <<>>
  BY <1>1 DEF NoHelper
<1>5. PreferencesInv' /\ ProfileTypes'
  BY <1>1, <1>2, <1>4, <1>9, NothingPreferred DEF PreferencesInv, ProfileTypes, DiskInv
<1>10. DiskInv'
  <2>1. lock' \in BOOLEAN
    BY <1>1, <1>2 DEF FlagsInv, DiskInv
  <2> QED
    BY <1>1, <1>5, <1>8, <1>9, <2>1 DEF DiskInv, FileState, PreferencesInv
<1>6. RadioInv' /\ FlagsInv' /\ CountsInv'
  <2>1. RadioInv'
    BY <1>1, <1>2, <1>8 DEF RadioInv
  <2>2. FlagsInv'
    BY <1>1, <1>2 DEF FlagsInv, Begin, DiskInv
  <2>3. CountsInv'
    BY <1>1, <1>2 DEF CountsInv
  <2> QED
    BY <2>1, <2>2, <2>3
<1>7. WatchingInv'
  BY <1>1, <1>2, WatchAssumption DEF WatchingInv, Begin, OneSelector
<1> QED
  BY <1>3, <1>5, <1>6, <1>7, <1>10 DEF WatchInv, WorldInv

\* The helper stores profiles and lists under its own names.
LEMMA HelperIsGood ==
  ASSUME WatchInv, StoreInv, Helper, UNCHANGED <<wifi, watcher, surroundings>>
  PROVE  WatchInv'
<1> USE DEF WatchInv, WorldInv
<1>1. /\ UNCHANGED <<up, live, link, kick, flips, unloaded, config, fresh, status, sel>>
      /\ UNCHANGED <<draft, proven, noticed, watch, misses, recorded, recording>>
      /\ UNCHANGED <<restarts, cuts, stored>>
  BY DEF wifi, radio, selector, watcher, surroundings
<1>2. \/ faults' = faults
      \/ Fault
  BY DEF Helper, HelperStep, SaveProfile, TakeLock, StoreProfile, RemoveSpelling,
     ReadPreferred, PublishPreferred
<1>3. faults' \in Nat /\ GoodRun(sel') /\ helper.net \in Nets
  BY <1>1, <1>2, FaultsAre DEF CountsInv, StoreInv, HelperShellInv
<1>4. /\ DOMAIN helper = {"pc", "net", "spellings", "draft"}
      /\ \A n : /\ NoHelper(n).pc = "none" /\ NoHelper(n).spellings = {}
                /\ NoHelper(n).draft = <<>>
  BY DEF StoreInv, HelperShellInv, NoHelper
<1>5. ASSUME saves' \in Nat, lock' \in BOOLEAN, ProfileTypes',
             preferred' \in Preferences, helper'.draft \in Preferences
      PROVE  WatchInv'
  <2>1. RadioInv' /\ WatchingInv'
    BY <1>1 DEF RadioInv, WatchingInv, OneSelector, Running
  <2>2. FlagsInv'
    BY <1>1, <1>5 DEF FlagsInv
  <2>3. CountsInv' /\ PreferencesInv' /\ DiskInv'
    BY <1>1, <1>3, <1>5 DEF CountsInv, PreferencesInv, DiskInv
  <2> QED
    BY <1>3, <1>5, <2>1, <2>2, <2>3
<1>6. CASE \E n \in Nets : SaveProfile(n)
  <2>1. PICK n \in Nets : SaveProfile(n)
    BY <1>6
  <2>2. /\ UNCHANGED <<dir, preferred, lock>> /\ saves > 0 /\ saves' = saves - 1
        /\ helper' = [NoHelper(n) EXCEPT !.pc = "lock"]
    BY <2>1 DEF SaveProfile
  <2>3. helper'.pc = "lock" /\ helper'.spellings = {} /\ helper'.draft = <<>>
    BY <2>2 DEF NoHelper
  <2> QED
    <3>1. saves' \in Nat
      BY <2>2 DEF CountsInv
    <3>4. lock' \in BOOLEAN
      BY <2>2 DEF FlagsInv
    <3>2. preferred' \in Preferences /\ helper'.draft \in Preferences
      BY <2>2, <2>3, NothingPreferred DEF PreferencesInv
    <3>3. ProfileTypes'
      BY <2>2, <2>3 DEF ProfileTypes
    <3> QED
      BY <1>5, <3>1, <3>2, <3>3, <3>4
<1>7. CASE TakeLock
  <2>1. /\ UNCHANGED <<dir, preferred, saves>> /\ lock' = TRUE
        /\ \/ helper' = NoHelper(helper.net)
           \/ helper' = [helper EXCEPT !.pc = "store"]
    BY <1>7 DEF TakeLock
  <2>2. /\ helper'.pc \in {"none", "store"} /\ helper'.spellings \in {{}, helper.spellings}
        /\ helper'.draft \in {<<>>, helper.draft}
    BY <1>4, <2>1
  <2> QED
    BY <1>5, <2>1, <2>2, NothingPreferred DEF FlagsInv, CountsInv, PreferencesInv, ProfileTypes
<1>8. CASE StoreProfile
  <2> DEFINE place == CanonicalOf(helper.net)
  <2>1. UNCHANGED <<preferred, saves>>
    BY <1>8 DEF StoreProfile
  <2>2. CASE Ends /\ UNCHANGED dir
    BY <1>4, <1>5, <2>1, <2>2, NothingPreferred
       DEF Ends, FlagsInv, CountsInv, PreferencesInv, ProfileTypes
  <2>3. CASE /\ dir' = [i \in DOMAIN dir \cup {place} |->
                          IF i = place THEN "entered" ELSE dir[i]]
             /\ helper' = [helper EXCEPT !.pc = "remove",
                                         !.spellings = FilesOf(helper.net) \ {place}]
             /\ UNCHANGED lock
    <3>1. /\ helper'.pc = "remove" /\ helper'.draft = helper.draft
          /\ helper'.spellings \subseteq DOMAIN dir
      BY <1>4, <2>3 DEF FilesOf
    <3>2. /\ DOMAIN dir' = DOMAIN dir \cup {place}
          /\ \A i \in DOMAIN dir' :
               dir'[i] = "entered" \/ (i \in DOMAIN dir /\ dir'[i] = dir[i])
      BY <2>3
    <3> QED
      BY <1>5, <2>1, <2>3, <3>1, <3>2 DEF FlagsInv, CountsInv, PreferencesInv, ProfileTypes
  <2> QED
    BY <1>8, <2>2, <2>3 DEF StoreProfile
<1>9. CASE RemoveSpelling
  <2>1. UNCHANGED <<preferred, saves>>
    BY <1>9 DEF RemoveSpelling
  <2>2. CASE Ends /\ UNCHANGED dir
    BY <1>4, <1>5, <2>1, <2>2, NothingPreferred
       DEF Ends, FlagsInv, CountsInv, PreferencesInv, ProfileTypes
  <2>3. ASSUME NEW i \in helper.spellings,
               dir' = [j \in DOMAIN dir \ {i} |-> dir[j]],
               helper' = [helper EXCEPT !.spellings = @ \ {i}], UNCHANGED lock
        PROVE  WatchInv'
    <3>1. /\ helper'.pc = helper.pc /\ helper'.draft = helper.draft
          /\ helper'.spellings = helper.spellings \ {i}
      BY <1>4, <2>3
    <3>2. DOMAIN dir' = DOMAIN dir \ {i} /\ \A j \in DOMAIN dir' : dir'[j] = dir[j]
      BY <2>3
    <3> QED
      BY <1>5, <2>1, <2>3, <3>1, <3>2 DEF FlagsInv, CountsInv, PreferencesInv, ProfileTypes
  <2> QED
    BY <1>9, <2>2, <2>3 DEF RemoveSpelling
<1>10. CASE ReadPreferred
  <2>1. UNCHANGED <<dir, preferred, saves>>
    BY <1>10 DEF ReadPreferred
  <2>2. CASE Ends
    BY <1>4, <1>5, <2>1, <2>2, NothingPreferred
       DEF Ends, FlagsInv, CountsInv, PreferencesInv, ProfileTypes
  <2>3. CASE /\ helper' = [helper EXCEPT !.pc = "publish", !.draft = Ahead(helper.net)]
             /\ UNCHANGED lock
    <3>1. /\ helper'.pc = "publish" /\ helper'.draft = Ahead(helper.net)
          /\ helper'.spellings = helper.spellings
      BY <1>4, <2>3
    <3>2. helper'.draft \in Preferences
      BY <1>3, <3>1, AheadIs DEF PreferencesInv
    <3> QED
      BY <1>5, <2>1, <2>3, <3>1, <3>2 DEF FlagsInv, CountsInv, PreferencesInv, ProfileTypes
  <2> QED
    BY <1>10, <2>2, <2>3 DEF ReadPreferred
<1>11. CASE PublishPreferred
  <2>1. /\ UNCHANGED <<dir, saves>> /\ preferred' \in {preferred, helper.draft}
        /\ Ends
    BY <1>11 DEF PublishPreferred
  <2> QED
    BY <1>4, <1>5, <2>1, NothingPreferred
       DEF Ends, FlagsInv, CountsInv, PreferencesInv, ProfileTypes
<1> QED
  BY <1>6, <1>7, <1>8, <1>9, <1>10, <1>11 DEF Helper, HelperStep

\* At first nothing is preferred, and nobody runs.
LEMMA BeginsGood ==
  ASSUME Init
  PROVE  WatchInv
<1>1. PICK s \in Scenarios :
        InitWifi(s) /\ restarts = s.restarts /\ cuts = s.cuts /\ stored = FileState
  BY DEF Init
<1>2. /\ s.imported \subseteq DOMAIN FileOrder /\ s.locked \in BOOLEAN
      /\ s.flips \in Nat /\ s.faults \in Nat /\ s.saves \in Nat
      /\ s.restarts \in Nat /\ s.cuts \in Nat
  BY WifiAssumption
<1>3. /\ up \subseteq Nets /\ live = AtHome /\ link = "ready" /\ kick = FALSE
      /\ flips = s.flips /\ faults = s.faults /\ saves = s.saves
      /\ ProfilesInit(s.imported, Home, s.locked)
      /\ config = AtHome /\ fresh = TRUE /\ status = "BOOT" /\ draft = <<>>
      /\ sel = Idle /\ proven = {AtHome} /\ noticed = FALSE /\ unloaded = FALSE
  BY <1>1 DEF InitWifi
<1>4. /\ dir = [i \in s.imported |-> "imported"] /\ lock = s.locked
      /\ preferred = <<>> /\ helper = NoHelper(Home)
  BY <1>3 DEF ProfilesInit
<1>5. helper.pc = "none" /\ helper.spellings = {} /\ helper.draft = <<>>
  BY <1>4 DEF NoHelper
<1>6. AtHome \in Configs
  BY WifiAssumption DEF AtHome, Config, Configs, Keys
<1>7. watch = "boot" /\ misses = 0 /\ recorded = FALSE /\ recording = FALSE
  BY DEF Init
<1>8. PreferencesInv /\ ProfileTypes
  BY <1>3, <1>4, <1>5, NothingPreferred DEF PreferencesInv, ProfileTypes
<1>9. RadioInv
  BY <1>2, <1>3, <1>6 DEF RadioInv
<1>10. FlagsInv
  BY <1>2, <1>3, <1>4, <1>7 DEF FlagsInv
<1>11. CountsInv
  BY <1>1, <1>2, <1>3 DEF CountsInv
<1>12. WatchingInv
  BY <1>7, WatchAssumption DEF WatchingInv, OneSelector
<1>13. GoodRun(sel)
  BY <1>3, <1>6, RunBegins
<1>14. DiskInv
  BY <1>1, <1>2, <1>3, <1>4, <1>6, <1>8, WrittenIsGood DEF DiskInv
<1> QED
  BY <1>8, <1>9, <1>10, <1>11, <1>12, <1>13, <1>14 DEF WatchInv, WorldInv

\* Every step keeps the lists good.
LEMMA StepsAreGood ==
  ASSUME WatchInv, RunInv, StoreInv, [Next]_vars
  PROVE  WatchInv'
<1>1. CASE Radio /\ UNCHANGED <<watcher, surroundings>>
  BY <1>1, RadioIsGood
<1>2. CASE Selector /\ UNCHANGED <<watcher, surroundings>>
  BY <1>2, SelectorIsGood, LookingIsGood, TryingIsGood DEF Selector, WatchInv
<1>3. CASE Helper /\ UNCHANGED <<wifi, watcher, surroundings>>
  BY <1>3, HelperIsGood
<1>7. CASE WriteBack
  BY <1>7, WriteBackIsGood
<1>4. CASE Watcher \/ RecordEnds \/ RestartWatch
  BY <1>4, WatcherIsGood
<1>5. CASE Reboot
  BY <1>5, RebootIsGood
<1>6. CASE UNCHANGED vars
  <2>1. /\ UNCHANGED <<up, live, link, kick, flips, unloaded, config, fresh, status, sel>>
        /\ UNCHANGED <<draft, proven, noticed, dir, preferred, helper, lock, saves>>
        /\ UNCHANGED <<faults, watch, misses, recorded, recording, restarts, cuts, stored>>
    BY <1>6 DEF vars, wifi, radio, selector, profiles, watcher, surroundings
  <2>2. RadioInv' /\ WatchingInv'
    BY <2>1 DEF WatchInv, WorldInv, RadioInv, WatchingInv, OneSelector, Running
  <2>3. FlagsInv' /\ CountsInv' /\ DiskInv'
    BY <2>1 DEF WatchInv, WorldInv, FlagsInv, CountsInv, DiskInv
  <2>4. PreferencesInv' /\ ProfileTypes' /\ GoodRun(sel')
    BY <2>1 DEF WatchInv, PreferencesInv, ProfileTypes
  <2> QED
    BY <2>2, <2>3, <2>4 DEF WatchInv, WorldInv
<1> QED
  BY <1>1, <1>2, <1>3, <1>4, <1>5, <1>6, <1>7 DEF Next

\* What the run checks of the lists and the profiles follows.
LEMMA GoodListsFit ==
  ASSUME WatchInv, StoreInv, ProfilesInv
  PROVE  WifiInv
<1>1. /\ RadioInv /\ FlagsInv /\ CountsInv /\ WatchingInv
      /\ GoodRun(sel) /\ PreferencesInv /\ ProfileTypes /\ DiskInv
  BY DEF WatchInv, WorldInv
<1>2. EverySavedIsTried
  BY <1>1 DEF EverySavedIsTried, GoodRun, Tried, NetsOf
<1>3. NonePreferredTwice
  <2>1. /\ preferred \in Seq(Nets)
        /\ \A j, k \in 1 .. Len(preferred) : preferred[j] = preferred[k] => j = k
    BY <1>1 DEF PreferencesInv, Preferences, NoneTwice
  <2>2. DOMAIN preferred = 1 .. Len(preferred)
    BY <2>1
  <2> QED
    BY <2>1, <2>2, Zenon DEF NonePreferredTwice, IsInjective
<1>4. OneSelector
  BY <1>1 DEF WatchingInv
<1>5. TypeOK
  <2>1. /\ up \subseteq Nets /\ live \in Configs /\ link \in {"down", "assoc", "ready"}
        /\ kick \in BOOLEAN /\ config \in Configs /\ proven \subseteq Configs
        /\ unloaded \in BOOLEAN
    BY <1>1 DEF RadioInv
  <2>2. {flips, faults, saves, restarts, cuts} \subseteq Nat
    BY <1>1 DEF RadioInv, CountsInv
  <2>9. DOMAIN stored.dir \subseteq DOMAIN FileOrder /\ stored.config \in Configs
    BY <1>1 DEF DiskInv
  <2>3. \A list \in {preferred, draft, helper.draft} :
          list \in Seq(Nets) /\ Len(list) <= PreferredLimit
    BY <1>1 DEF PreferencesInv, Preferences
  <2>4. /\ DOMAIN dir \subseteq DOMAIN FileOrder
        /\ Range(dir) \subseteq Keys
        /\ helper.pc \in {"none", "lock", "store", "remove", "publish"}
        /\ helper.net \in Nets /\ helper.spellings \subseteq DOMAIN dir
    BY <1>1 DEF ProfileTypes, StoreInv, HelperShellInv, Range, Keys
  <2>5. {lock, fresh, noticed, recorded, recording, unloaded} \subseteq BOOLEAN
    BY <1>1, Zenon DEF FlagsInv, RadioInv
  <2>6. status \in {"BOOT", "BUSY", "CONNECTED", "DISCONNECTED", "FAILED",
                    "RESTORE FAILED"}
    BY <1>1 DEF FlagsInv
  <2>7. /\ sel.pc \in {"idle", "start", "scan", "probe", "retry", "build", "confirm",
                       "try", "apply", "reload", "wait", "restore", "recovered",
                       "publish"}
        /\ sel.seen \subseteq Nets /\ sel.cand \in Seq(DOMAIN FileOrder)
        /\ sel.round \in 0 .. ScanRounds /\ sel.retry \in 0 .. ScanRetries - 1
        /\ sel.pass \in 0 .. Passes + 1 /\ sel.att \in 1 .. Len(FileOrder) + 1
        /\ sel.elapsed \in 0 .. IF RollbackGrace > SwitchTimeout
                                THEN RollbackGrace ELSE SwitchTimeout
    BY <1>1 DEF GoodRun, Labels, Longest
  <2>8. /\ watch \in {"boot", "poll", "record", "recording", "select", "rest"}
        /\ misses \in 0 .. DisconnectThreshold
    BY <1>1 DEF WatchingInv
  <2> QED
    BY <2>1, <2>2, <2>3, <2>4, <2>5, <2>6, <2>7, <2>8, <2>9 DEF TypeOK
<1> QED
  BY <1>2, <1>3, <1>4, <1>5 DEF WifiInv

\* Two writers keep the list of preferred networks free of duplicates and within
\* its limit, a run tries every network that was saved when it listed them, once
\* in a pass and the configured one first, and at most one selector has the lock.
THEOREM ListsFitTogether == Spec => []WifiInv
<1>1. WatchInv /\ RunInv /\ StoreInv /\ [Next]_vars => WatchInv'
  BY StepsAreGood
<1>2. WatchInv /\ StoreInv /\ ProfilesInv => WifiInv
  BY GoodListsFit
<1> QED
  BY <1>1, <1>2, BeginsGood, RunInvariant, StoreInvariant, ProfilesAreKept, PTL DEF Spec

-----------------------------------------------------------------------------
\* The largest of some numbers is one of them.
LEMMA LargestIs ==
  ASSUME NEW k \in Nat, NEW s \in SUBSET (1 .. k), s # {}
  PROVE  /\ Max(s) \in s
         /\ \A i \in s : i <= Max(s)
<1> DEFINE above == {b \in Nat : \A i \in s : i <= b}
<1>1. k \in above
  OBVIOUS
<1> HIDE DEF above
<1>2. PICK b \in above : \A c \in above : b <= c
  BY <1>1, LeastIs DEF above
<1>3. b \in s
  <2>1. SUFFICES ASSUME b \notin s
                 PROVE  FALSE
    OBVIOUS
  <2>2. \A i \in s : i <= b - 1 /\ i \in Nat /\ i # 0
    BY <1>2, <2>1 DEF above
  <2>3. b - 1 \in Nat
    <3>1. PICK i \in s : TRUE
      OBVIOUS
    <3>2. b \in Nat
      BY <1>2 DEF above
    <3> QED
      BY <2>2, <3>1, <3>2
  <2>4. b - 1 \in above
    BY <2>2, <2>3 DEF above
  <2> QED
    BY <1>2, <2>4 DEF above
<1>4. \A i \in s : b >= i
  BY <1>2 DEF above
<1>5. Max(s) \in s /\ \A i \in s : Max(s) >= i
  BY <1>3, <1>4 DEF Max
<1> QED
  BY <1>5
-----------------------------------------------------------------------------
\* One more candidate, unless a file is open already.
Attempt(result, index) ==
  IF result.ok THEN result ELSE OpenFile(result.player, index)

IsFold(f, p, list, k) ==
  f = [s \in SUBSET (1 .. k) |->
         IF s = {} THEN Refused(p) ELSE Attempt(f[s \ {Max(s)}], list[Max(s)])]

\* There is a fold over the candidates.
LEMMA FoldExists ==
  ASSUME NEW p, NEW list, NEW n \in Nat
  PROVE  \E f : IsFold(f, p, list, n)
<1> DEFINE without == {k \in Nat : ~ \E f : IsFold(f, p, list, k)}
<1>1. SUFFICES ASSUME without # {}
               PROVE  FALSE
  OBVIOUS
<1>2. PICK k \in without : \A j \in without : k <= j
  BY <1>1, LeastIs
<1>3. CASE k = 0
  <2> DEFINE f == [s \in SUBSET (1 .. 0) |-> Refused(p)]
  <2>1. IsFold(f, p, list, 0)
    <3>1. \A s \in SUBSET (1 .. 0) : s = {}
      OBVIOUS
    <3> QED
      BY <3>1 DEF IsFold
  <2> QED
    BY <1>2, <1>3, <2>1
<1>4. CASE k # 0
  <2>1. k \in Nat /\ k - 1 \in Nat
    BY <1>2, <1>4
  <2>2. PICK g : IsFold(g, p, list, k - 1)
    BY <1>2, <2>1
  <2> DEFINE f == [s \in SUBSET (1 .. k) |->
                     IF k \in s THEN Attempt(g[s \ {k}], list[k]) ELSE g[s]]
  <2>3. ASSUME NEW s \in SUBSET (1 .. k), k \in s
        PROVE  f[s] = Attempt(f[s \ {Max(s)}], list[Max(s)])
    <3>1. Max(s) = k
      <4>1. s # {}
        BY <2>3
      <4>2. Max(s) \in s /\ k <= Max(s)
        BY <2>1, <2>3, <4>1, LargestIs
      <4>3. Max(s) \in 1 .. k
        BY <4>2
      <4> QED
        BY <2>1, <4>2, <4>3
    <3>2. s \ {k} \in SUBSET (1 .. k) /\ k \notin s \ {k}
      OBVIOUS
    <3>3. f[s \ {k}] = g[s \ {k}]
      BY <3>2
    <3>4. f[s] = Attempt(g[s \ {k}], list[k])
      BY <2>3
    <3> QED
      BY <3>1, <3>3, <3>4
  <2>4. ASSUME NEW s \in SUBSET (1 .. k), k \notin s, s # {}
        PROVE  f[s] = Attempt(f[s \ {Max(s)}], list[Max(s)])
    <3>1. s \in SUBSET (1 .. k - 1)
      BY <2>1, <2>4
    <3>2. s \ {Max(s)} \in SUBSET (1 .. k) /\ k \notin s \ {Max(s)}
      BY <2>4
    <3>3. f[s \ {Max(s)}] = g[s \ {Max(s)}]
      BY <3>2
    <3>4. f[s] = g[s]
      BY <2>4
    <3>5. g[s] = Attempt(g[s \ {Max(s)}], list[Max(s)])
      BY <2>2, <2>4, <3>1 DEF IsFold
    <3> QED
      BY <3>3, <3>4, <3>5
  <2>5. f[{}] = Refused(p)
    <3>1. {} \in SUBSET (1 .. k) /\ {} \in SUBSET (1 .. k - 1) /\ k \notin {}
      OBVIOUS
    <3>2. g[{}] = Refused(p)
      BY <2>2, <3>1 DEF IsFold
    <3> QED
      BY <3>1, <3>2
  <2> HIDE DEF f
  <2>6. f = [s \in SUBSET (1 .. k) |->
               IF s = {} THEN Refused(p) ELSE Attempt(f[s \ {Max(s)}], list[Max(s)])]
    <3>1. f = [s \in SUBSET (1 .. k) |-> f[s]]
      BY DEF f
    <3>2. \A s \in SUBSET (1 .. k) :
            f[s] = IF s = {} THEN Refused(p)
                   ELSE Attempt(f[s \ {Max(s)}], list[Max(s)])
      BY <2>3, <2>4, <2>5
    <3> QED
      BY <3>1, <3>2
  <2>7. IsFold(f, p, list, k)
    BY <2>6 DEF IsFold
  <2> QED
    BY <1>2, <2>7
<1> QED
  BY <1>3, <1>4

\* OpenOneOf tries one candidate after the other.
LEMMA TriedInTurn ==
  ASSUME NEW p, NEW list, Len(list) \in Nat, DOMAIN list = 1 .. Len(list)
  PROVE  \E r : /\ r[0] = Refused(p)
                /\ \A k \in 1 .. Len(list) : r[k] = Attempt(r[k - 1], list[k])
                /\ OpenOneOf(p, list) = r[Len(list)]
<1> DEFINE n == Len(list)
           g == CHOOSE x : IsFold(x, p, list, n)
           r == [k \in 0 .. n |-> g[1 .. k]]
<1>1. IsFold(g, p, list, n)
  BY FoldExists
<1>2. OpenOneOf(p, list) = g[1 .. n]
  BY DEF OpenOneOf, FoldLeft, MapThenFoldSet, IsFold, Attempt
<1> HIDE DEF g, n
<1>3. n \in Nat
  BY DEF n
<1>4. g[{}] = Refused(p)
  BY <1>1 DEF IsFold
<1>5. ASSUME NEW k \in 1 .. n
      PROVE  g[1 .. k] = Attempt(g[1 .. k - 1], list[k])
  <2>1. k \in Nat /\ k \in 1 .. k /\ 1 .. k \in SUBSET (1 .. k) /\ 1 .. k # {}
    <3>1. k \in Nat /\ 1 <= k
      BY <1>3
    <3>2. k \in 1 .. k
      BY <3>1
    <3> QED
      BY <3>1, <3>2
  <2>2. Max(1 .. k) = k
    <3>1. Max(1 .. k) \in 1 .. k /\ k <= Max(1 .. k)
      BY <2>1, LargestIs
    <3> QED
      BY <2>1, <3>1
  <2>3. (1 .. k) \ {k} = 1 .. k - 1
    BY <2>1
  <2>4. 1 .. k \in SUBSET (1 .. n)
    BY <1>3
  <2> QED
    BY <1>1, <2>1, <2>2, <2>3, <2>4 DEF IsFold
<1>6. r[0] = Refused(p)
  <2>1. 0 \in 0 .. n /\ 1 .. 0 = {}
    BY <1>3
  <2> QED
    BY <1>4, <2>1
<1>7. \A k \in 1 .. n : r[k] = Attempt(r[k - 1], list[k])
  <2>1. \A k \in 1 .. n : k \in 0 .. n /\ k - 1 \in 0 .. n
    BY <1>3
  <2> QED
    BY <1>5, <2>1
<1>8. OpenOneOf(p, list) = r[n]
  BY <1>2, <1>3
<1> QED
  BY <1>6, <1>7, <1>8 DEF n
-----------------------------------------------------------------------------
-----------------------------------------------------------------------------
\* The files are what the scenario says, and an open file is the one shown.
GoodDisk ==
  /\ Count \in Nat /\ DOMAIN disk = 0 .. Count - 1
  /\ \A index \in DOMAIN disk : disk[index] \in Files
PlayerType ==
  [file : Nat, loaded : Nat, backend : Backends, track : Nat, tracks : Nat, paused : BOOLEAN,
   started : BOOLEAN]
GoodPlayer(p) ==
  /\ p \in PlayerType
  /\ {p.file, p.loaded} \subseteq DOMAIN disk \cup {0}
  /\ p.backend # "none" =>
       /\ p.loaded \in DOMAIN disk
       /\ disk[p.loaded].opens
       /\ p.backend = disk[p.loaded].backend
       /\ p.tracks = disk[p.loaded].tracks
       /\ p.track \in 0 .. p.tracks - 1
       /\ p.started => p.track \notin disk[p.loaded].bad
       /\ \/ p.file = p.loaded
          \/ Playable = {} /\ p.file = 0 /\ p.loaded = Count - 1
GoodResult(result) ==
  result = [ok |-> result.ok, player |-> result.player]
    /\ result.ok \in BOOLEAN /\ GoodPlayer(result.player)

\* What a button that opens a file has to leave behind.
FromTheStart(p, index) ==
  p.file = index /\ p.started /\ p.track = 0 /\ ~p.paused

\* What is left loaded is the candidate that was tried last.
LastTried(p, list, k) == p.backend # "none" => p.loaded = list[k]

\* Starting a track leaves the file that is loaded, and plays it unless the
\* emulator refuses it.
LEMMA StartIsGood ==
  ASSUME GoodDisk, NEW p, GoodPlayer(p), p.backend # "none",
         NEW track \in 0 .. p.tracks - 1
  PROVE  /\ GoodResult(StartTrack(p, track))
         /\ StartTrack(p, track).ok <=> track \notin disk[p.loaded].bad
         /\ StartTrack(p, track).ok =>
              LET q == StartTrack(p, track).player
              IN  q.file = p.file /\ q.started /\ q.track = track /\ ~q.paused
         /\ StartTrack(p, track).player.loaded = p.loaded
<1>1. p.tracks \in Nat /\ track \in Nat
  BY DEF GoodPlayer, PlayerType
<1> DEFINE started == [p EXCEPT !.track = track, !.paused = FALSE, !.started = TRUE]
           refused == [p EXCEPT !.started = FALSE]
<1>2. /\ started \in PlayerType /\ started.file = p.file /\ started.loaded = p.loaded /\ started.backend = p.backend
      /\ started.track = track /\ started.tracks = p.tracks
      /\ started.paused = FALSE /\ started.started = TRUE
  BY <1>1 DEF GoodPlayer, PlayerType
<1>3. /\ refused \in PlayerType /\ refused.file = p.file /\ refused.loaded = p.loaded /\ refused.backend = p.backend
      /\ refused.track = p.track /\ refused.tracks = p.tracks
      /\ refused.started = FALSE
  BY DEF GoodPlayer, PlayerType
<1> HIDE DEF started, refused
<1>4. GoodPlayer(refused)
  BY <1>3 DEF GoodPlayer
<1>5. track \notin disk[p.loaded].bad => GoodPlayer(started)
  BY <1>2 DEF GoodPlayer
<1>6. StartTrack(p, track) = IF track \notin disk[p.loaded].bad
                             THEN [ok |-> TRUE, player |-> started]
                             ELSE [ok |-> FALSE, player |-> refused]
  BY DEF StartTrack, Done, Refused, started, refused
<1> DEFINE result == StartTrack(p, track)
<1> HIDE DEF result
<1>7. CASE track \notin disk[p.loaded].bad
  <2>1. result = [ok |-> TRUE, player |-> started]
    BY <1>6, <1>7 DEF result
  <2>2. result.ok = TRUE /\ result.player = started
    BY <2>1
  <2>3. GoodResult(result)
    BY <1>5, <1>7, <2>1, <2>2 DEF GoodResult
  <2> QED
    BY <1>2, <1>7, <2>2, <2>3 DEF result
<1>8. CASE track \in disk[p.loaded].bad
  <2>1. result = [ok |-> FALSE, player |-> refused]
    BY <1>6, <1>8 DEF result
  <2>2. result.ok = FALSE /\ result.player = refused
    BY <2>1
  <2>3. GoodResult(result)
    BY <1>4, <2>1, <2>2 DEF GoodResult
  <2> QED
    BY <1>3, <1>8, <2>2, <2>3 DEF result
<1> QED
  BY <1>7, <1>8

\* Closing leaves the file that is shown.
LEMMA CloseIsGood ==
  ASSUME NEW p, GoodPlayer(p)
  PROVE  /\ GoodPlayer(CloseTrack(p)) /\ CloseTrack(p).file = p.file
         /\ CloseTrack(p).backend = "none"
<1>1. /\ CloseTrack(p) \in PlayerType /\ CloseTrack(p).file = p.file
      /\ CloseTrack(p).backend = "none" /\ CloseTrack(p).loaded = 0
  BY DEF CloseTrack, GoodPlayer, PlayerType, Backends
<1> QED
  BY <1>1 DEF GoodPlayer

\* Opening a file plays it from its first track, unless it cannot be decoded.
LEMMA OpenIsGood ==
  ASSUME GoodDisk, NEW p, GoodPlayer(p), NEW index \in DOMAIN disk
  PROVE  /\ GoodResult(OpenFile(p, index))
         /\ OpenFile(p, index).ok <=> Decodes(disk[index])
         /\ OpenFile(p, index).ok => FromTheStart(OpenFile(p, index).player, index)
         /\ LET q == OpenFile(p, index).player
            IN  q.backend # "none" => q.loaded = index
<1> DEFINE closed == CloseTrack(p)
           ogg == [closed EXCEPT !.file = index, !.loaded = index, !.backend = "ogg",
                                 !.track = 0, !.tracks = 1, !.paused = FALSE,
                                 !.started = TRUE]
           gme == [closed EXCEPT !.file = index, !.loaded = index, !.backend = "gme",
                                 !.tracks = disk[index].tracks]
<1>1. /\ closed \in PlayerType /\ GoodPlayer(closed) /\ closed.backend = "none"
      /\ closed.track = 0 /\ closed.started = FALSE
  BY CloseIsGood DEF CloseTrack, GoodPlayer, PlayerType, Backends
<1>2. /\ disk[index].tracks \in Nat \ {0} /\ disk[index].backend \in {"gme", "ogg"}
      /\ disk[index].opens \in BOOLEAN /\ index \in Nat
      /\ disk[index].backend = "ogg" => disk[index].tracks = 1 /\ disk[index].bad = {}
  BY DEF GoodDisk, Files
<1> HIDE DEF closed
<1>3. /\ ogg \in PlayerType /\ ogg.file = index /\ ogg.loaded = index /\ ogg.backend = "ogg" /\ ogg.track = 0
      /\ ogg.tracks = 1 /\ ogg.paused = FALSE /\ ogg.started = TRUE
  BY <1>1, <1>2 DEF PlayerType, Backends
<1>4. /\ gme \in PlayerType /\ gme.file = index /\ gme.loaded = index /\ gme.backend = "gme" /\ gme.track = 0
      /\ gme.tracks = disk[index].tracks /\ gme.started = FALSE
  BY <1>1, <1>2 DEF PlayerType, Backends
<1> HIDE DEF ogg, gme
<1>5. OpenFile(p, index) =
        IF ~disk[index].opens THEN [ok |-> FALSE, player |-> closed]
        ELSE IF disk[index].backend = "ogg" THEN [ok |-> TRUE, player |-> ogg]
        ELSE StartTrack(gme, 0)
  BY DEF OpenFile, OpenVorbis, Done, Refused, closed, ogg, gme
<1>6. CASE ~disk[index].opens
  <2>1. OpenFile(p, index) = [ok |-> FALSE, player |-> closed]
    BY <1>5, <1>6
  <2>2. OpenFile(p, index).ok = FALSE /\ OpenFile(p, index).player = closed
    BY <2>1
  <2> QED
    BY <1>1, <1>6, <2>1, <2>2 DEF GoodResult, Decodes
<1>7. CASE disk[index].opens /\ disk[index].backend = "ogg"
  <2>1. GoodPlayer(ogg)
    BY <1>2, <1>3, <1>7 DEF GoodPlayer
  <2> QED
    BY <1>3, <1>5, <1>7, <2>1 DEF GoodResult, Decodes, FromTheStart
<1>8. CASE disk[index].opens /\ disk[index].backend # "ogg"
  <2>1. GoodPlayer(gme) /\ 0 \in 0 .. gme.tracks - 1 /\ gme.backend # "none"
    BY <1>2, <1>4, <1>8 DEF GoodPlayer
  <2>2. OpenFile(p, index) = StartTrack(gme, 0)
    BY <1>5, <1>8
  <2>3. /\ GoodResult(StartTrack(gme, 0))
        /\ StartTrack(gme, 0).ok <=> 0 \notin disk[index].bad
        /\ StartTrack(gme, 0).ok => FromTheStart(StartTrack(gme, 0).player, index)
        /\ StartTrack(gme, 0).player.loaded = index
    BY <1>4, <2>1, StartIsGood DEF FromTheStart
  <2> QED
    BY <1>8, <2>2, <2>3 DEF Decodes
<1> QED
  BY <1>6, <1>7, <1>8

\* The first candidate that plays is opened; with none, nothing is.
LEMMA OneOfIsGood ==
  ASSUME GoodDisk, NEW p, GoodPlayer(p), NEW list \in Seq(DOMAIN disk)
  PROVE  /\ GoodResult(OpenOneOf(p, list))
         /\ OpenOneOf(p, list).ok =>
              \E k \in 1 .. Len(list) :
                /\ Decodes(disk[list[k]])
                /\ FromTheStart(OpenOneOf(p, list).player, list[k])
                /\ \A j \in 1 .. k - 1 : ~Decodes(disk[list[j]])
         /\ ~OpenOneOf(p, list).ok =>
              /\ \A j \in 1 .. Len(list) : ~Decodes(disk[list[j]])
              /\ Len(list) > 0 => LastTried(OpenOneOf(p, list).player, list, Len(list))
         /\ Len(list) = 0 => OpenOneOf(p, list) = Refused(p)
<1> DEFINE n == Len(list)
<1>1. n \in Nat /\ DOMAIN list = 1 .. n
  OBVIOUS
<1>2. PICK r : /\ r[0] = Refused(p)
               /\ \A k \in 1 .. n : r[k] = Attempt(r[k - 1], list[k])
               /\ OpenOneOf(p, list) = r[n]
  BY <1>1, TriedInTurn
<1>3. \A k \in 1 .. n : list[k] \in DOMAIN disk
  BY ElementOfSeq
<1> HIDE DEF n
<1> DEFINE Opened1(k) == \E i \in 1 .. k :
                         /\ Decodes(disk[list[i]])
                         /\ FromTheStart(r[k].player, list[i])
                         /\ \A j \in 1 .. i - 1 : ~Decodes(disk[list[j]])
           NoneDecodes(k) == \A j \in 1 .. k : ~Decodes(disk[list[j]])
           Good(k) == /\ GoodResult(r[k])
                      /\ r[k].ok => Opened1(k)
                      /\ ~r[k].ok => NoneDecodes(k)
                      /\ ~r[k].ok /\ k > 0 => LastTried(r[k].player, list, k)
           bad == {k \in 0 .. n : ~Good(k)}
<1>4. Good(0)
  <2>1. r[0] = [ok |-> FALSE, player |-> p]
    BY <1>2 DEF Refused
  <2>2. GoodResult(r[0]) /\ ~r[0].ok
    BY <2>1 DEF GoodResult
  <2> QED
    BY <2>2
<1>5. ASSUME NEW k \in 1 .. n, Good(k - 1)
      PROVE  Good(k)
  <2>1. k \in Nat /\ k - 1 \in Nat /\ k \in 1 .. k
    BY <1>1
  <2>2. r[k] = Attempt(r[k - 1], list[k]) /\ list[k] \in DOMAIN disk
    BY <1>2, <1>3
  <2>3. GoodResult(r[k - 1])
    BY <1>5
  <2>4. CASE r[k - 1].ok
    <3>1. r[k] = r[k - 1]
      BY <2>2, <2>4 DEF Attempt
    <3>2. Opened1(k - 1)
      BY <1>5, <2>4
    <3>3. PICK i \in 1 .. k - 1 :
            /\ Decodes(disk[list[i]])
            /\ FromTheStart(r[k - 1].player, list[i])
            /\ \A j \in 1 .. i - 1 : ~Decodes(disk[list[j]])
      BY <3>2
    <3>4. i \in 1 .. k
      BY <2>1
    <3>5. Opened1(k)
      BY <3>1, <3>3, <3>4
    <3> QED
      BY <2>3, <2>4, <3>1, <3>5
  <2>5. CASE ~r[k - 1].ok
    <3>1. r[k] = OpenFile(r[k - 1].player, list[k])
      BY <2>2, <2>5 DEF Attempt
    <3>2. GoodPlayer(r[k - 1].player)
      BY <2>3 DEF GoodResult
    <3>3. /\ GoodResult(r[k])
          /\ r[k].ok <=> Decodes(disk[list[k]])
          /\ r[k].ok => FromTheStart(r[k].player, list[k])
      BY <2>2, <3>1, <3>2, OpenIsGood
    <3>4. NoneDecodes(k - 1)
      BY <1>5, <2>5
    <3>5. r[k].ok => Opened1(k)
      BY <2>1, <3>3, <3>4
    <3>7. LastTried(r[k].player, list, k)
      BY <2>2, <3>1, <3>2, OpenIsGood DEF LastTried
    <3>6. ~r[k].ok => NoneDecodes(k)
      <4>1. \A j \in 1 .. k : j = k \/ j \in 1 .. k - 1
        BY <2>1
      <4> QED
        BY <3>3, <3>4, <4>1
    <3> QED
      BY <3>3, <3>5, <3>6, <3>7
  <2> QED
    BY <2>4, <2>5
<1>6. Good(n)
  <2> HIDE DEF Good
  <2>1. SUFFICES ASSUME bad # {}
                 PROVE  FALSE
    BY <1>1
  <2>2. bad \in SUBSET Nat
    BY <1>1
  <2>3. PICK k \in bad : \A j \in bad : k <= j
    <3> HIDE DEF bad
    <3> QED
      BY <2>1, <2>2, LeastIs
  <2>4. k \in 0 .. n /\ ~Good(k)
    BY <2>3
  <2>5. k # 0
    BY <1>4, <2>4
  <2>6. k \in 1 .. n /\ k - 1 \in 0 .. n /\ ~(k <= k - 1)
    BY <1>1, <2>4, <2>5
  <2>7. Good(k - 1)
    BY <2>3, <2>6
  <2> QED
    BY <1>5, <2>4, <2>6, <2>7
<1> QED
  BY <1>2, <1>6 DEF n
-----------------------------------------------------------------------------
\* A remainder, also of a negative number.
LEMMA Remainder ==
  ASSUME NEW a \in Int, NEW d \in Nat \ {0}
  PROVE  a % d \in 0 .. d - 1 /\ \E q \in Int : a = (q * d) + (a % d)
<1>1. a % d \in 0 .. d - 1
  OBVIOUS
<1>2. a \div d \in Int
  OBVIOUS
<1>3. a = ((a \div d) * d) + (a % d)
  OBVIOUS
<1> QED
  BY <1>1, <1>2, <1>3

\* A number has one remainder.
LEMMA OneRemainder ==
  ASSUME NEW a \in Int, NEW d \in Nat \ {0}, NEW q \in Int, NEW r \in 0 .. d - 1,
         a = (q * d) + r
  PROVE  a % d = r
<1>1. PICK k \in Int : a = (k * d) + (a % d)
  BY Remainder
<1>2. a % d \in 0 .. d - 1
  BY Remainder
<1> DEFINE s == a % d
<1> HIDE DEF s
<1>3. q * d \in Int /\ k * d \in Int /\ (k - q) * d = (k * d) - (q * d)
  OBVIOUS
<1>4. (k - q) * d = r - s
  <2>1. (k * d) + s = (q * d) + r
    BY <1>1 DEF s
  <2>2. s \in Int
    BY <1>2 DEF s
  <2> QED
    BY <1>3, <2>1, <2>2
<1>5. k - q = 0
  <2>1. k - q \in Int /\ -d < r - s /\ r - s < d
    BY <1>2 DEF s
  <2> QED
    BY <1>4, <2>1, NoMultiple
<1>6. 0 * d = 0
  OBVIOUS
<1>7. r = s
  BY <1>2, <1>4, <1>5, <1>6 DEF s
<1> QED
  BY <1>7 DEF s

\* A file that is k files away, around the playlist, is k files away.
LEMMA AwayIs ==
  ASSUME GoodDisk, Count > 0, NEW from \in DOMAIN disk, NEW k \in 1 .. Count,
         NEW direction \in {-1, 1}
  PROVE  /\ (from + direction * k) % Count \in DOMAIN disk
         /\ Distance(from, (from + direction * k) % Count, direction) = k
<1> DEFINE c == Count
           to == (from + direction * k) % c
<1>1. c \in Nat \ {0} /\ DOMAIN disk = 0 .. c - 1 /\ from \in Nat /\ k \in 1 .. c
  BY DEF GoodDisk
<1>2. (direction = 1 => direction * k = k) /\ (direction = -1 => direction * k = -k)
      /\ direction * k \in Int
  BY <1>1
<1> HIDE DEF c
<1>20. from + direction * k \in Int
  BY <1>1, <1>2
<1> DEFINE sum == from + direction * k
<1>21. sum \in Int
  BY <1>20
<1> HIDE DEF sum
<1>22. sum % c \in 0 .. c - 1 /\ \E q \in Int : sum = (q * c) + (sum % c)
  BY <1>1, <1>21, Remainder
<1>3. to \in 0 .. c - 1
  BY <1>22 DEF sum
<1>4. PICK q \in Int : from + direction * k = (q * c) + to
  BY <1>22 DEF sum
<1> HIDE DEF to
<1> DEFINE m == q * c
<1>5. m \in Int /\ (-q) * c = -m /\ (1 - q) * c = c - m /\ (q + 1) * c = m + c
  BY <1>1
<1>6. /\ direction = 1 => direction * (to - from) = to - from
      /\ direction = -1 => direction * (to - from) = from - to
  BY <1>1, <1>3
<1>7. from + direction * k = m + to
  BY <1>4
<1> HIDE DEF m
<1> DEFINE d == (direction * (to - from)) % c
<1>8. (k < c => d = k) /\ (k = c => d = 0)
  <2>1. CASE direction = 1
    <3>1. to - from = k - m
      BY <1>1, <1>2, <1>3, <1>5, <1>7, <2>1
    <3>2. CASE k < c
      <4>1. to - from = ((-q) * c) + k /\ k \in 0 .. c - 1 /\ -q \in Int
        BY <1>1, <1>5, <3>1, <3>2
      <4>2. (to - from) % c = k
        <5>1. to - from \in Int
          BY <1>1, <1>3
        <5> QED
          BY <1>1, <4>1, <5>1, OneRemainder
      <4> QED
        BY <1>6, <2>1, <3>2, <4>2
    <3>3. CASE k = c
      <4>1. to - from = ((1 - q) * c) + 0 /\ 0 \in 0 .. c - 1 /\ 1 - q \in Int
        BY <1>1, <1>5, <3>1, <3>3
      <4>2. (to - from) % c = 0
        BY <1>1, <1>3, <4>1, OneRemainder
      <4> QED
        BY <1>6, <2>1, <3>3, <4>2
    <3> QED
      BY <1>1, <3>2, <3>3
  <2>2. CASE direction = -1
    <3>1. from - to = k + m
      BY <1>1, <1>2, <1>3, <1>5, <1>7, <2>2
    <3>2. CASE k < c
      <4>1. from - to = (q * c) + k /\ k \in 0 .. c - 1
        BY <1>1, <1>5, <3>1, <3>2 DEF m
      <4>2. (from - to) % c = k
        <5>1. from - to \in Int
          BY <1>1, <1>3
        <5> QED
          BY <1>1, <4>1, <5>1, OneRemainder
      <4> QED
        BY <1>6, <2>2, <3>2, <4>2
    <3>3. CASE k = c
      <4>1. from - to = ((q + 1) * c) + 0 /\ 0 \in 0 .. c - 1 /\ q + 1 \in Int
        BY <1>1, <1>5, <3>1, <3>3
      <4>2. (from - to) % c = 0
        BY <1>1, <1>3, <4>1, OneRemainder
      <4> QED
        BY <1>6, <2>2, <3>3, <4>2
    <3> QED
      BY <1>1, <3>2, <3>3
  <2> QED
    BY <2>1, <2>2
<1>9. Distance(from, to, direction) = IF d = 0 THEN c ELSE d
  BY DEF Distance, c
<1>10. Distance(from, to, direction) = k
  BY <1>1, <1>8, <1>9
<1> QED
  BY <1>1, <1>3, <1>10 DEF to, c

\* Going as far as a file is away leads to it.
LEMMA ReachedIs ==
  ASSUME GoodDisk, NEW from \in DOMAIN disk, NEW other \in DOMAIN disk,
         NEW direction \in {-1, 1}
  PROVE  /\ Count > 0 /\ Distance(from, other, direction) \in 1 .. Count
         /\ (from + direction * Distance(from, other, direction)) % Count = other
<1> DEFINE c == Count
           a == direction * (other - from)
           d == a % c
           k == Distance(from, other, direction)
<1>1. c \in Nat \ {0} /\ DOMAIN disk = 0 .. c - 1 /\ from \in Nat /\ other \in 0 .. c - 1
  BY DEF GoodDisk
<1> HIDE DEF c
<1>2. k = IF d = 0 THEN c ELSE d
  BY DEF Distance, c
<1>3. /\ direction = 1 => a = other - from
      /\ direction = -1 => a = from - other
      /\ a \in Int
  BY <1>1
<1> HIDE DEF k, a
<1>4. PICK q \in Int : a = (q * c) + d
  BY <1>1, <1>3, Remainder
<1>5. d \in 0 .. c - 1
  BY <1>1, <1>3, Remainder
<1> HIDE DEF d
<1>6. k \in 1 .. c
  BY <1>1, <1>2, <1>5
<1>7. PICK p \in Int : a = (p * c) + k
  <2>1. CASE d # 0
    BY <1>2, <1>4, <2>1
  <2>2. CASE d = 0
    <3>1. (q - 1) * c = (q * c) - c /\ q * c \in Int /\ q - 1 \in Int
      BY <1>1
    <3>2. a = ((q - 1) * c) + k
      BY <1>1, <1>2, <1>4, <2>2, <3>1
    <3> QED
      BY <3>1, <3>2
  <2> QED
    BY <2>1, <2>2
<1>8. p * c \in Int /\ (-p) * c = -(p * c) /\ -p \in Int
  BY <1>1
<1>9. (direction = 1 => direction * k = k) /\ (direction = -1 => direction * k = -k)
      /\ direction * k \in Int
  BY <1>1, <1>6
<1>10. \E z \in Int : from + direction * k = (z * c) + other
  <2>1. CASE direction = 1
    <3>1. from + direction * k = ((-p) * c) + other
      BY <1>1, <1>3, <1>6, <1>7, <1>8, <1>9, <2>1
    <3> QED
      BY <1>8, <3>1
  <2>2. CASE direction = -1
    <3>1. from + direction * k = (p * c) + other
      BY <1>1, <1>3, <1>6, <1>7, <1>8, <1>9, <2>2
    <3> QED
      BY <3>1
  <2> QED
    BY <2>1, <2>2
<1>11. (from + direction * k) % c = other
  <2> DEFINE sum == from + direction * k
  <2>1. sum \in Int
    BY <1>1, <1>9
  <2>2. PICK z \in Int : sum = (z * c) + other
    BY <1>10
  <2> HIDE DEF sum
  <2>3. sum % c = other
    BY <1>1, <2>1, <2>2, OneRemainder
  <2> QED
    BY <2>3 DEF sum
<1> QED
  BY <1>1, <1>6, <1>11 DEF k, c

-----------------------------------------------------------------------------
\* What the buttons and the end of a track do to the player.
LEMMA FirstIsGood ==
  ASSUME GoodDisk, NEW p, GoodPlayer(p), p.backend = "none"
  PROVE  GoodPlayer(OpenFirst(p).player)
<1> DEFINE list == [k \in 1 .. Count |-> k - 1]
           result == OpenOneOf(p, list)
           q == [result.player EXCEPT !.file = 0]
<1>1. list \in Seq(DOMAIN disk)
  <2>1. Count \in Nat /\ \A k \in 1 .. Count : k - 1 \in DOMAIN disk
    BY DEF GoodDisk
  <2> QED
    BY <2>1
<1>2. /\ GoodResult(result)
      /\ ~result.ok =>
           /\ \A j \in 1 .. Len(list) : ~Decodes(disk[list[j]])
           /\ Len(list) > 0 => LastTried(result.player, list, Len(list))
      /\ Len(list) = 0 => result = Refused(p)
  <2> HIDE DEF list
  <2> QED
    BY <1>1, OneOfIsGood
<1>3. OpenFirst(p) = IF result.ok THEN result ELSE Refused(q)
  BY DEF OpenFirst
<1>4. Count \in Nat /\ Len(list) = Count /\ \A j \in 1 .. Count : list[j] = j - 1
  BY DEF GoodDisk
<1> HIDE DEF result, list
<1>5. GoodPlayer(result.player)
  BY <1>2 DEF GoodResult
<1>6. CASE result.ok
  BY <1>3, <1>5, <1>6
<1>7. CASE ~result.ok
  <2>1. OpenFirst(p).player = q
    BY <1>3, <1>7 DEF Refused
  <2>2. /\ q \in PlayerType /\ q.file = 0 /\ q.loaded = result.player.loaded
        /\ q.backend = result.player.backend /\ q.track = result.player.track
        /\ q.tracks = result.player.tracks /\ q.started = result.player.started
    BY <1>5 DEF GoodPlayer, PlayerType
  <2> HIDE DEF q
  <2>3. Playable = {}
    <3>1. ASSUME NEW index \in DOMAIN disk
          PROVE  ~Decodes(disk[index])
      <4>1. index + 1 \in 1 .. Count /\ list[index + 1] = index
        BY <1>4 DEF GoodDisk
      <4> QED
        BY <1>2, <1>4, <1>7, <4>1
    <3> QED
      BY <3>1 DEF Playable
  <2>4. q.backend # "none" => q.loaded = Count - 1
    <3>1. CASE Count = 0
      <4>1. result.player = p
        BY <1>2, <1>4, <3>1 DEF Refused
      <4> QED
        BY <2>2, <4>1
    <3>2. CASE Count # 0
      <4>1. Count \in 1 .. Count /\ Len(list) > 0
        BY <1>4, <3>2
      <4>2. LastTried(result.player, list, Count) /\ list[Count] = Count - 1
        BY <1>2, <1>4, <1>7, <4>1
      <4> QED
        BY <2>2, <4>2 DEF LastTried
    <3> QED
      BY <3>1, <3>2
  <2> QED
    BY <1>5, <2>1, <2>2, <2>3, <2>4 DEF GoodPlayer
<1> QED
  BY <1>6, <1>7

\* A file button ends at the nearest file that plays.
LEMMA ChangeFileIsGood ==
  ASSUME GoodDisk, NEW p, GoodPlayer(p), NEW direction \in {-1, 1}
  PROVE  /\ GoodResult(ChangeFile(p, direction))
         /\ Playable # {} =>
              LET q == ChangeFile(p, direction).player
              IN  /\ q.file \in Playable
                  /\ q.started /\ q.track = 0 /\ ~q.paused
                  /\ \A other \in Playable :
                       Distance(p.file, q.file, direction)
                         <= Distance(p.file, other, direction)
<1> DEFINE list == [k \in 1 .. Count |-> (p.file + direction * k) % Count]
           result == ChangeFile(p, direction)
           q == result.player
<1>1. Count \in Nat /\ DOMAIN disk = 0 .. Count - 1
  BY DEF GoodDisk
<1>2. Count > 0 => p.file \in DOMAIN disk
  BY <1>1 DEF GoodPlayer
<1>3. \A k \in 1 .. Count : list[k] \in DOMAIN disk /\ Distance(p.file, list[k], direction) = k
  <2> TAKE k \in 1 .. Count
  <2>1. Count > 0
    BY <1>1
  <2> QED
    BY <1>2, <2>1, AwayIs
<1>4. list \in Seq(DOMAIN disk) /\ Len(list) = Count
  <2> DEFINE D == DOMAIN disk
  <2>1. \A k \in 1 .. Count : list[k] \in D
    BY <1>3
  <2>2. list = [k \in 1 .. Count |-> list[k]]
    OBVIOUS
  <2> HIDE DEF list, D
  <2>3. list \in Seq(D) /\ Len(list) = Count
    BY <1>1, <2>1, <2>2
  <2> QED
    BY <2>3 DEF D
<1>5. result = OpenOneOf(p, list)
  BY DEF ChangeFile
<1> HIDE DEF list, result
<1>6. /\ GoodResult(result)
      /\ result.ok => \E k \in 1 .. Count :
                        /\ Decodes(disk[list[k]])
                        /\ FromTheStart(q, list[k])
                        /\ \A j \in 1 .. k - 1 : ~Decodes(disk[list[j]])
      /\ ~result.ok => \A j \in 1 .. Count : ~Decodes(disk[list[j]])
  BY <1>4, <1>5, OneOfIsGood
<1> HIDE DEF q
<1>7. ASSUME NEW other \in Playable
      PROVE  \E j \in 1 .. Count : list[j] = other /\ Distance(p.file, other, direction) = j
  <2>1. other \in DOMAIN disk
    BY DEF Playable
  <2>2. Count > 0
    BY <1>1, <2>1
  <2>3. /\ Distance(p.file, other, direction) \in 1 .. Count
        /\ (p.file + direction * Distance(p.file, other, direction)) % Count = other
    BY <1>2, <2>1, <2>2, ReachedIs
  <2> QED
    BY <2>3 DEF list
<1>8. ASSUME Playable # {}
      PROVE  /\ q.file \in Playable
             /\ q.started /\ q.track = 0 /\ ~q.paused
             /\ \A other \in Playable : Distance(p.file, q.file, direction)
                                          <= Distance(p.file, other, direction)
  <2>1. result.ok
    <3>1. PICK other \in Playable : TRUE
      BY <1>8
    <3>2. PICK j \in 1 .. Count : list[j] = other
      BY <1>7
    <3>3. Decodes(disk[list[j]])
      BY <3>2 DEF Playable
    <3> QED
      BY <1>6, <3>3
  <2>2. PICK k \in 1 .. Count :
          /\ Decodes(disk[list[k]])
          /\ FromTheStart(q, list[k])
          /\ \A j \in 1 .. k - 1 : ~Decodes(disk[list[j]])
    BY <1>6, <2>1
  <2>3. q.file = list[k] /\ q.started /\ q.track = 0 /\ ~q.paused
    BY <2>2 DEF FromTheStart
  <2>4. q.file \in Playable /\ Distance(p.file, q.file, direction) = k
    BY <1>3, <2>2, <2>3 DEF Playable
  <2>5. ASSUME NEW other \in Playable
        PROVE  k <= Distance(p.file, other, direction)
    <3>1. PICK j \in 1 .. Count : list[j] = other /\ Distance(p.file, other, direction) = j
      BY <1>7
    <3>2. Decodes(disk[list[j]])
      BY <3>1 DEF Playable
    <3>3. j \notin 1 .. k - 1
      BY <2>2, <3>2
    <3>4. k <= j
      BY <1>1, <3>3
    <3> QED
      BY <3>1, <3>4
  <2> QED
    BY <2>3, <2>4, <2>5
<1> QED
  BY <1>6, <1>8 DEF q, result

\* A track button stays in the file.
LEMMA ChangeTrackIsGood ==
  ASSUME GoodDisk, NEW p, GoodPlayer(p), NEW direction \in {-1, 1}
  PROVE  GoodResult(ChangeTrack(p, direction))
<1>1. CASE p.backend # "gme"
  <2>1. ChangeTrack(p, direction) = [ok |-> FALSE, player |-> p]
    BY <1>1 DEF ChangeTrack, Refused
  <2> QED
    BY <2>1 DEF GoodResult
<1>2. CASE p.backend = "gme"
  <2>1. p.tracks \in Nat \ {0} /\ p.track \in Nat
    <3>1. p.loaded \in DOMAIN disk /\ p.tracks = disk[p.loaded].tracks /\ p.track \in Nat
      BY <1>2 DEF GoodPlayer, PlayerType
    <3> QED
      BY <3>1 DEF GoodDisk, Files
  <2>2. (p.track + direction) % p.tracks \in 0 .. p.tracks - 1
    <3>1. p.track + direction \in Int
      BY <2>1
    <3> QED
      BY <2>1, <3>1, Remainder
  <2>3. ChangeTrack(p, direction) = StartTrack(p, (p.track + direction) % p.tracks)
    BY <1>2 DEF ChangeTrack
  <2> QED
    BY <1>2, <2>2, <2>3, StartIsGood
<1> QED
  BY <1>1, <1>2

\* Whatever file and track chance picks, the player stays good.
LEMMA RandomIsGood ==
  ASSUME GoodDisk, NEW p, GoodPlayer(p), p.backend # "none",
         NEW result \in ChangeRandomFile(p)
  PROVE  GoodResult(result)
<1> DEFINE D == DOMAIN disk
           offsets == IF Count > 1 THEN 1 .. Count - 1 ELSE {0}
           Others(offset) == [k \in 1 .. Count |-> (p.file + offset + k - 1) % Count]
           S == {index \in D : Count = 1 \/ index # p.file}
           Opening(offset) == OpenOneOf(p, Only(Others(offset), S) \o <<p.file>>)
           AnyTrack(r) ==
             IF r.ok /\ r.player.backend = "gme"
             THEN {StartTrack(r.player, track) : track \in 0 .. r.player.tracks - 1}
             ELSE {r}
<1>1. Count \in Nat \ {0} /\ D = 0 .. Count - 1 /\ p.file \in D
  BY DEF GoodDisk, GoodPlayer
<1>2. PICK offset \in offsets : result \in AnyTrack(Opening(offset))
  <2>1. PICK list \in {Only(round, S) \o <<p.file>> :
                         round \in {Others(offset) : offset \in offsets}} :
          result \in AnyTrack(OpenOneOf(p, list))
    BY DEF ChangeRandomFile
  <2>2. PICK offset \in offsets : list = Only(Others(offset), S) \o <<p.file>>
    BY <2>1
  <2> HIDE DEF AnyTrack, S, Others
  <2>3. result \in AnyTrack(Opening(offset))
    BY <2>1, <2>2
  <2> QED
    BY <2>3
<1>3. offset \in Nat
  BY <1>1
<1>4. Others(offset) \in Seq(D)
  <2>1. \A k \in 1 .. Count : (p.file + offset + k - 1) % Count \in D
    <3> TAKE k \in 1 .. Count
    <3>1. p.file + offset + k - 1 \in Int
      BY <1>1, <1>3
    <3> QED
      BY <1>1, <3>1, Remainder
  <2> HIDE DEF D
  <2> QED
    BY <1>1, <2>1
<1>5. Only(Others(offset), S) \in Seq(D)
  <2> HIDE DEF D, S, Others
  <2> QED
    BY <1>4, OnlyIs
<1>6. Only(Others(offset), S) \o <<p.file>> \in Seq(D)
  <2> DEFINE only == Only(Others(offset), S)
  <2>1. only \in Seq(D) /\ <<p.file>> \in Seq(D)
    BY <1>1, <1>5
  <2> HIDE DEF only, D
  <2>2. only \o <<p.file>> \in Seq(D)
    BY <2>1
  <2> QED
    BY <2>2 DEF only
<1> DEFINE opening == Opening(offset)
<1>7. GoodResult(opening)
  <2> DEFINE list == Only(Others(offset), S) \o <<p.file>>
  <2>1. list \in Seq(D) /\ opening = OpenOneOf(p, list)
    BY <1>6
  <2> HIDE DEF list, opening
  <2> QED
    BY <2>1, OneOfIsGood
<1>8. result \in (IF opening.ok /\ opening.player.backend = "gme"
                  THEN {StartTrack(opening.player, track) :
                          track \in 0 .. opening.player.tracks - 1}
                  ELSE {opening})
  BY <1>2
<1> HIDE DEF opening
<1>9. GoodPlayer(opening.player)
  BY <1>7 DEF GoodResult
<1>10. CASE opening.ok /\ opening.player.backend = "gme"
  BY <1>8, <1>9, <1>10, StartIsGood
<1>11. CASE ~(opening.ok /\ opening.player.backend = "gme")
  BY <1>7, <1>8, <1>11
<1> QED
  BY <1>10, <1>11

\* Whatever mode it ends in, the player stays good.
LEMMA AdvanceIsGood ==
  ASSUME GoodDisk, GoodPlayer(player), player.backend # "none", mode \in Modes,
         NEW result \in AdvanceAfterEnd(player)
  PROVE  GoodResult(result)
<1> DEFINE p == player
<1>1. p.tracks \in Nat /\ p.track \in 0 .. p.tracks - 1 /\ p.track \in Nat
  BY DEF GoodPlayer, PlayerType
<1>2. CASE mode = "one"
  <2>1. result = StartTrack(p, p.track)
    BY <1>2 DEF AdvanceAfterEnd
  <2> QED
    BY <1>1, <2>1, StartIsGood
<1>3. CASE mode = "shuffle"
  <2>1. result \in ChangeRandomFile(p)
    BY <1>3 DEF AdvanceAfterEnd
  <2> QED
    BY <2>1, RandomIsGood
<1>4. CASE mode = "all" /\ p.backend = "gme" /\ p.track + 1 < p.tracks
  <2>1. result = StartTrack(p, p.track + 1)
    BY <1>4 DEF AdvanceAfterEnd
  <2>2. p.track + 1 \in 0 .. p.tracks - 1
    BY <1>1, <1>4
  <2> QED
    BY <2>1, <2>2, StartIsGood
<1>5. CASE mode = "all" /\ ~(p.backend = "gme" /\ p.track + 1 < p.tracks)
  <2>1. result = ChangeFile(p, 1)
    BY <1>5 DEF AdvanceAfterEnd
  <2> QED
    BY <2>1, ChangeFileIsGood
<1> QED
  BY <1>2, <1>3, <1>4, <1>5 DEF Modes

-----------------------------------------------------------------------------
Meanings == {"back", "prevFile", "nextFile", "pause", "mode", "prevTrack", "nextTrack",
             "volumeUp", "volumeDown"}

\* What a controller and a packet say of a control: of a key by its number, of an
\* axis by its name.
PadType == [keys : SUBSET (0 .. 7), x : -1 .. 1, y : -1 .. 1]
Controls == {<<"key", key>> : key \in 0 .. 7} \cup {<<"x", 0>>, <<"y", 0>>}
About(packet) == <<packet[1], packet[2]>>
Value(pad, control) ==
  CASE control[1] = "key" -> IF control[2] \in pad.keys THEN 1 ELSE 0
    [] control[1] = "x" -> pad.x
    [] control[1] = "y" -> pad.y

Dropped == <<"dropped", 0, 0>>
Empty == <<"empty", 0, 0>>
PadPackets ==
  {<<"key", key, value>> : key \in 0 .. 7, value \in 0 .. 1}
    \cup {<<axis, 0, value>> : axis \in {"x", "y"}, value \in -1 .. 1}
Messages == PadPackets \cup {Dropped, Empty}
OfKeys(keys) == {<<"key", key>> : key \in keys}

\* What the packets of one controller say of it, but for some of its controls.
LastIsTrue(q, pad, out) ==
  \A i \in 1 .. Len(q) :
    /\ q[i] \in PadPackets /\ About(q[i]) \notin out
    /\ \A j \in i + 1 .. Len(q) : q[j] # Dropped /\ About(q[j]) # About(q[i])
    => q[i][3] = Value(pad, About(q[i]))
NothingLost(q, taken) == ~taken.dropping /\ \A i \in 1 .. Len(q) : q[i] # Dropped
RestIsKnown(q, taken, pad, out) ==
  NothingLost(q, taken) =>
    \A control \in Controls \ out :
      (\A i \in 1 .. Len(q) : About(q[i]) # control)
        => Value(taken.raw, control) = Value(pad, control)

\* What a controller may say.
LEMMA PadPacketIs ==
  ASSUME NEW packet \in PadPackets
  PROVE  /\ packet # Dropped /\ packet # Empty /\ About(packet) \in Controls
         /\ \/ packet[1] = "key" /\ packet[2] \in 0 .. 7 /\ packet[3] \in 0 .. 1
            \/ packet[1] \in {"x", "y"} /\ packet[2] = 0 /\ packet[3] \in -1 .. 1
<1>1. CASE packet \in {<<"key", key, value>> : key \in 0 .. 7, value \in 0 .. 1}
  BY <1>1 DEF Dropped, Empty, About, Controls
<1>2. CASE packet \in {<<axis, 0, value>> : axis \in {"x", "y"}, value \in -1 .. 1}
  BY <1>2 DEF Dropped, Empty, About, Controls
<1> QED
  BY <1>1, <1>2 DEF PadPackets

\* A loss and an empty report are about no control and nobody's press.
LEMMA NotPressed ==
  /\ Dropped[1] = "dropped" /\ Empty[1] = "empty" /\ Dropped # Empty
  /\ About(Dropped) \notin Controls /\ About(Empty) \notin Controls
  /\ Presses(Dropped) = {} /\ Presses(Empty) = {}
  /\ \A pad : Applied(pad, Empty) = pad
<1>1. Dropped[1] = "dropped" /\ Empty[1] = "empty" /\ Dropped # Empty
  BY DEF Dropped, Empty
<1>2. About(Dropped) \notin Controls /\ About(Empty) \notin Controls
  BY <1>1 DEF About, Controls
<1> QED
  BY <1>1, <1>2 DEF Presses, Applied

\* The value of a key and of an axis.
LEMMA ValueIs ==
  ASSUME NEW pad
  PROVE  /\ \A key : Value(pad, <<"key", key>>) = IF key \in pad.keys THEN 1 ELSE 0
         /\ Value(pad, <<"x", 0>>) = pad.x
         /\ Value(pad, <<"y", 0>>) = pad.y
  BY DEF Value

\* A control is a key or an axis.
LEMMA ControlsAre ==
  ASSUME NEW control \in Controls
  PROVE  \/ \E key \in 0 .. 7 : control = <<"key", key>>
         \/ control = <<"x", 0>>
         \/ control = <<"y", 0>>
  BY DEF Controls

\* Keys and axes are told apart.
LEMMA ControlsDiffer ==
  /\ \A key, other : <<"key", key>> = <<"key", other>> <=> key = other
  /\ \A key : <<"key", key>> # <<"x", 0>> /\ <<"key", key>> # <<"y", 0>>
  /\ <<"x", 0>> # <<"y", 0>>
  OBVIOUS

\* A packet changes the control it is about.
LEMMA AppliedChanges ==
  ASSUME NEW pad \in PadType, NEW packet \in PadPackets
  PROVE  /\ Applied(pad, packet) \in PadType
         /\ \A control \in Controls :
              Value(Applied(pad, packet), control)
                = IF control = About(packet) THEN packet[3] ELSE Value(pad, control)
<1> DEFINE now == Applied(pad, packet)
<1>1. CASE packet[1] = "key" /\ packet[3] = 1
  <2>1. packet[2] \in 0 .. 7
    BY <1>1, PadPacketIs
  <2>2. now = [pad EXCEPT !.keys = @ \cup {packet[2]}]
    BY <1>1 DEF Applied
  <2>3. now \in PadType /\ now.keys = pad.keys \cup {packet[2]}
        /\ now.x = pad.x /\ now.y = pad.y
    BY <2>1, <2>2 DEF PadType
  <2> HIDE DEF now
  <2>4. About(packet) = <<"key", packet[2]>>
    BY <1>1, <2>1 DEF About
  <2>5. ASSUME NEW control \in Controls
        PROVE  Value(now, control)
                 = IF control = About(packet) THEN packet[3] ELSE Value(pad, control)
    BY <1>1, <2>3, <2>4, ControlsAre, ControlsDiffer, ValueIs
  <2> QED
    BY <2>3, <2>5 DEF now
<1>2. CASE packet[1] = "key" /\ packet[3] = 0
  <2>1. packet[2] \in 0 .. 7
    BY <1>2, PadPacketIs
  <2>2. now = [pad EXCEPT !.keys = @ \ {packet[2]}]
    BY <1>2 DEF Applied
  <2>3. now \in PadType /\ now.keys = pad.keys \ {packet[2]}
        /\ now.x = pad.x /\ now.y = pad.y
    BY <2>1, <2>2 DEF PadType
  <2> HIDE DEF now
  <2>4. About(packet) = <<"key", packet[2]>>
    BY <1>2, <2>1 DEF About
  <2>5. ASSUME NEW control \in Controls
        PROVE  Value(now, control)
                 = IF control = About(packet) THEN packet[3] ELSE Value(pad, control)
    BY <1>2, <2>3, <2>4, ControlsAre, ControlsDiffer, ValueIs
  <2> QED
    BY <2>3, <2>5 DEF now
<1>3. CASE packet[1] = "x"
  <2>1. packet[2] = 0 /\ packet[3] \in -1 .. 1
    BY <1>3, PadPacketIs
  <2>2. now = [pad EXCEPT !.x = packet[3]]
    BY <1>3 DEF Applied
  <2>3. now \in PadType /\ now.keys = pad.keys /\ now.x = packet[3] /\ now.y = pad.y
    BY <2>1, <2>2 DEF PadType
  <2> HIDE DEF now
  <2>4. About(packet) = <<"x", 0>>
    BY <1>3, <2>1 DEF About
  <2>5. ASSUME NEW control \in Controls
        PROVE  Value(now, control)
                 = IF control = About(packet) THEN packet[3] ELSE Value(pad, control)
    BY <1>3, <2>3, <2>4, ControlsAre, ControlsDiffer, ValueIs
  <2> QED
    BY <2>3, <2>5 DEF now
<1>4. CASE packet[1] = "y"
  <2>1. packet[2] = 0 /\ packet[3] \in -1 .. 1
    BY <1>4, PadPacketIs
  <2>2. now = [pad EXCEPT !.y = packet[3]]
    BY <1>4 DEF Applied
  <2>3. now \in PadType /\ now.keys = pad.keys /\ now.x = pad.x /\ now.y = packet[3]
    BY <2>1, <2>2 DEF PadType
  <2> HIDE DEF now
  <2>4. About(packet) = <<"y", 0>>
    BY <1>4, <2>1 DEF About
  <2>5. ASSUME NEW control \in Controls
        PROVE  Value(now, control)
                 = IF control = About(packet) THEN packet[3] ELSE Value(pad, control)
    BY <1>4, <2>3, <2>4, ControlsAre, ControlsDiffer, ValueIs
  <2> QED
    BY <2>3, <2>5 DEF now
<1> QED
  BY <1>1, <1>2, <1>3, <1>4, PadPacketIs

\* The commands that the keys of a controller stand for.
KeyMeanings(pad) == UNION {gamepad_key[key + 1] : key \in pad.keys}
\* The commands a controller stands for, of its keys and of its axes.
LEMMA StateIs ==
  ASSUME NEW pad
  PROVE  gamepad_state(pad) = KeyMeanings(pad)
                                \cup axis_buttons(pad.x, "prevFile", "nextFile")
                                \cup axis_buttons(pad.y, "volumeUp", "volumeDown")
  BY DEF gamepad_state, KeyMeanings

\* Every control stands for some of the nine commands.
LEMMA MeaningsAre ==
  /\ \A packet \in PadPackets : Presses(packet) \subseteq Meanings
  /\ \A pad \in PadType : gamepad_state(pad) \subseteq Meanings
  /\ \A at : touch_command(at) \subseteq Meanings
<1>1. \A key \in 0 .. 7 : gamepad_key[key + 1] \subseteq Meanings
  <2>1. /\ gamepad_key[1] = {"back"} /\ gamepad_key[2] = {"back"} /\ gamepad_key[3] = {"pause"}
        /\ gamepad_key[4] = {"pause"} /\ gamepad_key[5] = {"prevTrack"}
        /\ gamepad_key[6] = {"nextTrack"} /\ gamepad_key[7] = {} /\ gamepad_key[8] = {"mode"}
    BY DEF gamepad_key
  <2>2. \A key \in 0 .. 7 : key + 1 \in {1, 2, 3, 4, 5, 6, 7, 8}
    OBVIOUS
  <2> QED
    BY <2>1, <2>2 DEF Meanings
<1>2. \A value : /\ axis_buttons(value, "prevFile", "nextFile") \subseteq Meanings
                 /\ axis_buttons(value, "volumeUp", "volumeDown") \subseteq Meanings
  BY DEF axis_buttons, Meanings
<1>3. \A at : touch_command(at) \subseteq Meanings
  <2>1. \A i \in DOMAIN kButtons : kButtons[i][1] \in Meanings
    BY DEF kButtons, Meanings
  <2> QED
    BY <2>1 DEF touch_command
<1>4. ASSUME NEW packet \in PadPackets
      PROVE  Presses(packet) \subseteq Meanings
  BY <1>1, <1>2, PadPacketIs DEF Presses
<1>5. ASSUME NEW pad \in PadType
      PROVE  gamepad_state(pad) \subseteq Meanings
  <2>1. \A key \in pad.keys : key \in 0 .. 7
    BY DEF PadType
  <2>2. KeyMeanings(pad) \subseteq Meanings
    BY <1>1, <2>1 DEF KeyMeanings
  <2> QED
    BY <1>2, <2>2, StateIs
<1> QED
  BY <1>3, <1>4, <1>5

\* A command that a packet gives is one it stands for.
LEMMA RisesArePresses ==
  ASSUME NEW pad \in PadType, NEW packet \in PadPackets \cup {Empty}
  PROVE  gamepad_state(Applied(pad, packet)) \ gamepad_state(pad) \subseteq Presses(packet)
<1>1. CASE packet = Empty
  BY <1>1, NotPressed
<1> SUFFICES ASSUME packet \in PadPackets
             PROVE  gamepad_state(Applied(pad, packet)) \ gamepad_state(pad)
                      \subseteq Presses(packet)
  BY <1>1
<1> DEFINE now == Applied(pad, packet)
<1>2. CASE packet[1] = "key" /\ packet[3] = 1
  <2>1. packet[2] \in 0 .. 7
    BY <1>2, PadPacketIs
  <2>2. now = [pad EXCEPT !.keys = @ \cup {packet[2]}]
    BY <1>2 DEF Applied
  <2>3. now.keys = pad.keys \cup {packet[2]} /\ now.x = pad.x /\ now.y = pad.y
    BY <2>1, <2>2 DEF PadType
  <2>4. Presses(packet) = gamepad_key[packet[2] + 1]
    BY <1>2 DEF Presses
  <2> HIDE DEF now
  <2>5. gamepad_state(now) \ gamepad_state(pad) \subseteq Presses(packet)
    BY <2>3, <2>4 DEF gamepad_state
  <2> QED
    BY <2>5 DEF now
<1>3. CASE packet[1] = "key" /\ packet[3] = 0
  <2>2. now = [pad EXCEPT !.keys = @ \ {packet[2]}]
    BY <1>3 DEF Applied
  <2>3. now.keys = pad.keys \ {packet[2]} /\ now.x = pad.x /\ now.y = pad.y
    BY <2>2 DEF PadType
  <2> HIDE DEF now
  <2>5. gamepad_state(now) \ gamepad_state(pad) = {}
    BY <2>3 DEF gamepad_state
  <2> QED
    BY <2>5 DEF now
<1>4. CASE packet[1] = "x"
  <2>2. now = [pad EXCEPT !.x = packet[3]]
    BY <1>4 DEF Applied
  <2>3. now.keys = pad.keys /\ now.x = packet[3] /\ now.y = pad.y
    BY <2>2 DEF PadType
  <2>4. Presses(packet) = axis_buttons(packet[3], "prevFile", "nextFile")
    BY <1>4 DEF Presses
  <2> HIDE DEF now
  <2>6. KeyMeanings(now) = KeyMeanings(pad)
    BY <2>3 DEF KeyMeanings
  <2>5. gamepad_state(now) \ gamepad_state(pad) \subseteq Presses(packet)
    BY <2>3, <2>4, <2>6, StateIs
  <2> QED
    BY <2>5 DEF now
<1>5. CASE packet[1] = "y"
  <2>2. now = [pad EXCEPT !.y = packet[3]]
    BY <1>5 DEF Applied
  <2>3. now.keys = pad.keys /\ now.x = pad.x /\ now.y = packet[3]
    BY <2>2 DEF PadType
  <2>4. Presses(packet) = axis_buttons(packet[3], "volumeUp", "volumeDown")
    BY <1>5 DEF Presses
  <2> HIDE DEF now
  <2>6. KeyMeanings(now) = KeyMeanings(pad)
    BY <2>3 DEF KeyMeanings
  <2>5. gamepad_state(now) \ gamepad_state(pad) \subseteq Presses(packet)
    BY <2>3, <2>4, <2>6, StateIs
  <2> QED
    BY <2>5 DEF now
<1> QED
  BY <1>2, <1>3, <1>4, <1>5, PadPacketIs

\* All but the first packet.
LEMMA TailIs ==
  ASSUME NEW T, NEW q \in Seq(T), q # <<>>
  PROVE  /\ Tail(q) \in Seq(T) /\ Len(Tail(q)) = Len(q) - 1
         /\ Len(q) \in Nat \ {0} /\ Head(q) = q[1] /\ Head(q) \in T
         /\ \A i \in 1 .. Len(q) - 1 : Tail(q)[i] = q[i + 1]
<1>1. Len(q) \in Nat \ {0}
  BY EmptySeq
<1> QED
  BY <1>1, HeadTailProperties, ElementOfSeq

\* What an overflow leaves: the packets that were read, and two more.
LEMMA CutIs ==
  ASSUME NEW T, NEW q \in Seq(T), NEW k \in 0 .. Len(q), NEW a \in T, NEW b \in T
  PROVE  LET r == SubSeq(q, 1, k) \o <<a, b>>
         IN  /\ r \in Seq(T) /\ Len(r) = k + 2 /\ r[k + 1] = a /\ r[k + 2] = b
             /\ \A i \in 1 .. k : r[i] = q[i]
<1> DEFINE s == SubSeq(q, 1, k)
           t == <<a, b>>
<1>1. /\ s \in Seq(T) /\ Len(s) = k /\ \A i \in 1 .. k : s[i] = q[i]
  <2>1. Len(q) \in Nat /\ k \in Nat
    BY LenProperties
  <2> QED
    BY <2>1
<1>2. t \in Seq(T) /\ Len(t) = 2 /\ t[1] = a /\ t[2] = b
  OBVIOUS
<1>3. k \in Nat
  BY LenProperties
<1> HIDE DEF s, t
<1>4. /\ s \o t \in Seq(T) /\ Len(s \o t) = k + 2
      /\ \A i \in 1 .. Len(s) + Len(t) :
           (s \o t)[i] = IF i <= Len(s) THEN s[i] ELSE t[i - Len(s)]
  <2>1. /\ s \o t \in Seq(T) /\ Len(s \o t) = Len(s) + Len(t)
        /\ \A i \in 1 .. Len(s) + Len(t) :
             (s \o t)[i] = IF i <= Len(s) THEN s[i] ELSE t[i - Len(s)]
    BY <1>1, <1>2, ConcatProperties
  <2> QED
    BY <1>1, <1>2, <2>1
<1>5. \A i \in 1 .. k + 2 : (s \o t)[i] = IF i <= k THEN s[i] ELSE t[i - k]
  BY <1>1, <1>2, <1>4
<1>6. (s \o t)[k + 1] = a /\ (s \o t)[k + 2] = b
  <2>1. (s \o t)[k + 1] = t[(k + 1) - k] /\ (s \o t)[k + 2] = t[(k + 2) - k]
    <3>1. /\ k + 1 \in 1 .. k + 2 /\ ~(k + 1 <= k)
          /\ k + 2 \in 1 .. k + 2 /\ ~(k + 2 <= k)
      BY <1>3
    <3> QED
      BY <1>5, <3>1
  <2>2. (k + 1) - k = 1 /\ (k + 2) - k = 2
    BY <1>3
  <2> QED
    BY <1>2, <2>1, <2>2
<1>7. \A i \in 1 .. k : (s \o t)[i] = q[i]
  BY <1>1, <1>3, <1>5
<1> QED
  BY <1>4, <1>6, <1>7 DEF s, t

\* What is left of the reports whose key events EVIOCGKEY has taken.
LEMMA UnkeyedIs ==
  ASSUME NEW q \in Seq(Messages), NEW k
  PROVE  /\ Unkeyed(q, k) \in Seq(Messages) /\ Len(Unkeyed(q, k)) = Len(q)
         /\ \A i \in 1 .. Len(q) :
              Unkeyed(q, k)[i] = IF i > k /\ q[i][1] = "key" THEN Empty ELSE q[i]
<1>1. Len(q) \in Nat /\ DOMAIN q = 1 .. Len(q)
  BY LenProperties
<1>2. \A i \in 1 .. Len(q) : q[i] \in Messages
  BY ElementOfSeq
<1>3. Unkeyed(q, k) = [i \in 1 .. Len(q) |->
                         IF i > k /\ q[i][1] = "key" THEN Empty ELSE q[i]]
  BY <1>1 DEF Unkeyed, Empty
<1>4. Empty \in Messages
  BY DEF Messages
<1>5. \A i \in 1 .. Len(q) :
        (IF i > k /\ q[i][1] = "key" THEN Empty ELSE q[i]) \in Messages
  BY <1>2, <1>4
<1> DEFINE r == Unkeyed(q, k)
<1>6. r \in [1 .. Len(q) -> Messages]
  BY <1>3, <1>5
<1> HIDE DEF r
<1>7. r \in Seq(Messages) /\ Len(r) = Len(q)
  BY <1>1, <1>6, SeqDef, LenProperties
<1> QED
  BY <1>3, <1>7 DEF r

\* A packet less leaves true what the others say.
LEMMA TailIsTrue ==
  ASSUME NEW q \in Seq(Messages), q # <<>>, NEW pad, NEW out, LastIsTrue(q, pad, out)
  PROVE  LastIsTrue(Tail(q), pad, out)
<1> DEFINE r == Tail(q)
<1>1. /\ r \in Seq(Messages) /\ Len(r) = Len(q) - 1 /\ Len(q) \in Nat \ {0}
      /\ \A i \in 1 .. Len(q) - 1 : r[i] = q[i + 1]
  BY TailIs
<1> HIDE DEF r
<1> SUFFICES ASSUME NEW i \in 1 .. Len(r), r[i] \in PadPackets, About(r[i]) \notin out,
                    \A j \in i + 1 .. Len(r) : r[j] # Dropped /\ About(r[j]) # About(r[i])
             PROVE  r[i][3] = Value(pad, About(r[i]))
  BY DEF LastIsTrue, r
<1>2. i + 1 \in 1 .. Len(q) /\ r[i] = q[i + 1]
  BY <1>1
<1>3. ASSUME NEW j \in (i + 1) + 1 .. Len(q)
      PROVE  q[j] # Dropped /\ About(q[j]) # About(q[i + 1])
  <2>1. j - 1 \in i + 1 .. Len(r) /\ j - 1 \in 1 .. Len(q) - 1 /\ (j - 1) + 1 = j
    BY <1>1
  <2>2. r[j - 1] = q[j]
    BY <1>1, <2>1
  <2> QED
    BY <1>2, <2>1, <2>2
<1> QED
  BY <1>2, <1>3 DEF LastIsTrue

\* Keys in a stretch of packets.
LEMMA KeysInIs ==
  ASSUME NEW q, NEW from, NEW to, NEW i \in from .. to, q[i][1] = "key"
  PROVE  q[i][2] \in KeysIn(q, from, to)
  BY DEF KeysIn

\* What is left when the key events are taken says of all controls but the stale
\* ones what is true.
LEMMA UnkeyedTrue ==
  ASSUME NEW q \in Seq(Messages), NEW k \in 0 .. Len(q), NEW pad, NEW keys,
         LastIsTrue(q, pad, OfKeys(keys)),
         NEW left_over,
         left_over = KeysIn(q, 1, k) \cap (keys \cup KeysIn(q, k + 1, Len(q)))
  PROVE  LastIsTrue(Unkeyed(q, k), pad, OfKeys(left_over))
<1> DEFINE r == Unkeyed(q, k)
<1>1. /\ r \in Seq(Messages) /\ Len(r) = Len(q) /\ Len(q) \in Nat
      /\ \A i \in 1 .. Len(q) : r[i] = IF i > k /\ q[i][1] = "key" THEN Empty ELSE q[i]
  BY UnkeyedIs, LenProperties
<1> HIDE DEF r
<1> SUFFICES ASSUME NEW i \in 1 .. Len(r), r[i] \in PadPackets,
                    About(r[i]) \notin OfKeys(left_over),
                    \A j \in i + 1 .. Len(r) : r[j] # Dropped /\ About(r[j]) # About(r[i])
             PROVE  r[i][3] = Value(pad, About(r[i]))
  BY DEF LastIsTrue, r
<1>2. i \in 1 .. Len(q) /\ r[i] = q[i] /\ (q[i][1] = "key" => i \in 1 .. k)
  <2>1. r[i] # Empty
    BY PadPacketIs
  <2> QED
    BY <1>1, <2>1
<1>3. q[i][1] = "key" => /\ q[i][2] \in KeysIn(q, 1, k) /\ q[i][2] \notin left_over
                         /\ About(q[i]) = <<"key", q[i][2]>>
  <2>1. About(q[i]) = <<q[i][1], q[i][2]>>
    BY DEF About
  <2> SUFFICES ASSUME q[i][1] = "key"
               PROVE  q[i][2] \in KeysIn(q, 1, k) /\ q[i][2] \notin left_over
    BY <2>1
  <2>2. q[i][2] \in KeysIn(q, 1, k)
    BY <1>2, KeysInIs
  <2> QED
    BY <1>2, <2>1, <2>2 DEF OfKeys
<1>4. ASSUME NEW j \in i + 1 .. Len(q)
      PROVE  q[j] # Dropped /\ About(q[j]) # About(q[i])
  <2>1. j \in 1 .. Len(q) /\ j \in i + 1 .. Len(r)
    BY <1>1, <1>2
  <2>2. CASE r[j] = q[j]
    BY <1>2, <2>1, <2>2
  <2>3. CASE r[j] # q[j]
    <3>1. j > k /\ q[j][1] = "key"
      BY <1>1, <2>1, <2>3
    <3>2. q[j] # Dropped
      BY <3>1, NotPressed
    <3>3. ASSUME About(q[j]) = About(q[i])
          PROVE  FALSE
      <4>1. q[i][1] = "key" /\ q[j][2] = q[i][2]
        BY <3>1, <3>3 DEF About
      <4>2. j \in k + 1 .. Len(q)
        BY <1>1, <2>1, <3>1
      <4>3. q[i][2] \in KeysIn(q, k + 1, Len(q))
        BY <3>1, <4>1, <4>2, KeysInIs
      <4> QED
        BY <1>3, <4>1, <4>3
    <3> QED
      BY <3>2, <3>3
  <2> QED
    BY <2>2, <2>3
<1>5. About(q[i]) \notin OfKeys(keys)
  <2> SUFFICES ASSUME About(q[i]) \in OfKeys(keys)
               PROVE  FALSE
    OBVIOUS
  <2>1. q[i][1] = "key" /\ q[i][2] \in keys
    BY DEF About, OfKeys
  <2> QED
    BY <1>3, <2>1
<1> QED
  BY <1>2, <1>4, <1>5 DEF LastIsTrue

\* What a packet more, and a loss, leaves true of a controller.
LEMMA SentIsTrue ==
  ASSUME NEW q \in Seq(Messages), NEW pad \in PadType, NEW taken, NEW out,
         NEW packet \in PadPackets, LastIsTrue(q, pad, out), RestIsKnown(q, taken, pad, out)
  PROVE  /\ Append(q, packet) \in Seq(Messages)
         /\ LastIsTrue(Append(q, packet), Applied(pad, packet), out \ {About(packet)})
         /\ RestIsKnown(Append(q, packet), taken, Applied(pad, packet),
                        out \ {About(packet)})
         /\ NothingLost(q, taken) => NothingLost(Append(q, packet), taken)
<1> DEFINE r == Append(q, packet)
           now == Applied(pad, packet)
           less == out \ {About(packet)}
<1>1. /\ r \in Seq(Messages) /\ Len(q) \in Nat /\ Len(r) = Len(q) + 1
      /\ r[Len(q) + 1] = packet /\ \A i \in 1 .. Len(q) : r[i] = q[i]
  <2>1. packet \in Messages
    BY DEF Messages
  <2> QED
    BY <2>1, AppendProperties, LenProperties
<1>2. \A control \in Controls :
        Value(now, control) = IF control = About(packet) THEN packet[3] ELSE Value(pad, control)
  BY AppliedChanges
<1>3. About(packet) \in Controls /\ packet # Dropped
  BY PadPacketIs
<1> HIDE DEF r, now
<1>5. ASSUME NEW i \in 1 .. Len(r), r[i] \in PadPackets, About(r[i]) \notin less,
             \A j \in i + 1 .. Len(r) : r[j] # Dropped /\ About(r[j]) # About(r[i])
      PROVE  r[i][3] = Value(now, About(r[i]))
  <2>1. CASE i = Len(q) + 1
    BY <1>1, <1>2, <1>3, <2>1
  <2>2. CASE i \in 1 .. Len(q)
    <3>1. r[i] = q[i] /\ q[i] \in PadPackets
      BY <1>1, <1>5, <2>2
    <3>2. About(packet) # About(q[i])
      <4>1. Len(q) + 1 \in i + 1 .. Len(r)
        BY <1>1, <2>2
      <4> QED
        BY <1>1, <1>5, <3>1, <4>1
    <3>3. \A j \in i + 1 .. Len(q) : q[j] # Dropped /\ About(q[j]) # About(q[i])
      <4> SUFFICES ASSUME NEW j \in i + 1 .. Len(q)
                   PROVE  q[j] # Dropped /\ About(q[j]) # About(q[i])
        OBVIOUS
      <4>1. j \in 1 .. Len(q) /\ j \in i + 1 .. Len(r)
        BY <1>1, <2>2
      <4> QED
        BY <1>1, <1>5, <3>1, <4>1
    <3>4. q[i][3] = Value(pad, About(q[i]))
      <4>1. About(q[i]) \notin out
        BY <1>5, <3>1, <3>2
      <4> QED
        BY <2>2, <3>1, <3>3, <4>1 DEF LastIsTrue
    <3>5. About(q[i]) \in Controls
      BY <3>1, PadPacketIs
    <3> QED
      BY <1>2, <3>1, <3>2, <3>4, <3>5
  <2> QED
    BY <1>1, <2>1, <2>2
<1>6. LastIsTrue(r, now, less)
  BY <1>5 DEF LastIsTrue
<1>7. ASSUME NothingLost(r, taken), NEW control \in Controls \ less,
             \A i \in 1 .. Len(r) : About(r[i]) # control
      PROVE  Value(taken.raw, control) = Value(now, control)
  <2>1. NothingLost(q, taken)
    BY <1>1, <1>7 DEF NothingLost
  <2>2. \A i \in 1 .. Len(q) : About(q[i]) # control
    BY <1>1, <1>7
  <2>3. About(packet) # control
    BY <1>1, <1>7
  <2>4. Value(taken.raw, control) = Value(pad, control)
    BY <2>1, <2>2, <2>3 DEF RestIsKnown
  <2> QED
    BY <1>2, <2>3, <2>4
<1>8. RestIsKnown(r, taken, now, less)
  BY <1>7 DEF RestIsKnown
<1>9. NothingLost(q, taken) => NothingLost(r, taken)
  BY <1>1, <1>3 DEF NothingLost
<1> QED
  BY <1>1, <1>6, <1>8, <1>9 DEF r, now

\* What takes the place of lost packets says nothing that is wrong.
LEMMA LossIsTrue ==
  ASSUME NEW q \in Seq(Messages), NEW k \in 0 .. Len(q),
         NEW pad \in PadType, NEW taken, NEW out, NEW packet \in PadPackets
  PROVE  LET r == SubSeq(q, 1, k) \o <<Dropped, packet>>
         IN  /\ r \in Seq(Messages)
             /\ LastIsTrue(r, Applied(pad, packet), out)
             /\ RestIsKnown(r, taken, Applied(pad, packet), out)
<1> DEFINE r == SubSeq(q, 1, k) \o <<Dropped, packet>>
           now == Applied(pad, packet)
<1>1. /\ r \in Seq(Messages) /\ Len(r) = k + 2
      /\ r[k + 1] = Dropped /\ r[k + 2] = packet
  BY CutIs DEF Messages
<1>2. packet[3] = Value(now, About(packet))
  BY AppliedChanges, PadPacketIs
<1>3. k \in Nat
  BY LenProperties
<1> HIDE DEF r, now
<1>4. LastIsTrue(r, now, out)
  <2>1. ASSUME NEW i \in 1 .. Len(r), r[i] \in PadPackets,
               \A j \in i + 1 .. Len(r) : r[j] # Dropped
        PROVE  i = k + 2
    <3>1. r[i] # Dropped
      BY <2>1, PadPacketIs
    <3>2. ~(k + 1 \in i + 1 .. Len(r))
      BY <1>1, <2>1
    <3> QED
      BY <1>1, <1>3, <3>1, <3>2
  <2> QED
    BY <1>1, <1>2, <2>1 DEF LastIsTrue
<1>5. RestIsKnown(r, taken, now, out)
  <2>1. k + 1 \in 1 .. Len(r)
    BY <1>1, <1>3
  <2> QED
    BY <1>1, <2>1 DEF NothingLost, RestIsKnown
<1> QED
  BY <1>1, <1>4, <1>5 DEF r, now

\* A packet that is read says what it says, and a controller that is asked is known.
LEMMA ReadIsKnown ==
  ASSUME NEW q \in Seq(Messages), q # <<>>, Head(q) # Dropped,
         NEW pad, NEW taken, taken.raw \in PadType, NEW out,
         LastIsTrue(q, pad, out), RestIsKnown(q, taken, pad, out),
         NEW now, now.raw = Applied(taken.raw, Head(q)), now.dropping = taken.dropping
  PROVE  RestIsKnown(Tail(q), now, pad, out)
<1> DEFINE r == Tail(q)
           packet == Head(q)
<1>1. /\ r \in Seq(Messages) /\ Len(r) = Len(q) - 1
      /\ Len(q) \in Nat \ {0} /\ packet = q[1] /\ packet \in Messages
      /\ \A i \in 1 .. Len(q) - 1 : r[i] = q[i + 1]
  BY TailIs
<1>2. packet \in PadPackets \cup {Empty} /\ packet # Dropped
  BY <1>1 DEF Messages
<1> HIDE DEF r, packet
<1>3. \A control \in Controls :
        /\ control = About(packet) => packet \in PadPackets
        /\ Value(now.raw, control) =
             IF control = About(packet) THEN packet[3] ELSE Value(taken.raw, control)
  <2>1. now.raw = Applied(taken.raw, packet)
    BY DEF packet
  <2>2. CASE packet \in PadPackets
    BY <2>1, <2>2, AppliedChanges
  <2>3. CASE packet = Empty
    BY <2>1, <2>3, NotPressed
  <2> QED
    BY <1>2, <2>2, <2>3
<1>4. \A j \in 2 .. Len(q) : j - 1 \in 1 .. Len(r) /\ r[j - 1] = q[j]
  <2> SUFFICES ASSUME NEW j \in 2 .. Len(q)
               PROVE  j - 1 \in 1 .. Len(r) /\ r[j - 1] = q[j]
    OBVIOUS
  <2>1. j - 1 \in 1 .. Len(q) - 1 /\ (j - 1) + 1 = j
    BY <1>1
  <2> QED
    BY <1>1, <2>1
<1>5. ASSUME NothingLost(r, now), NEW control \in Controls \ out,
             \A i \in 1 .. Len(r) : About(r[i]) # control
      PROVE  Value(now.raw, control) = Value(pad, control)
  <2>1. CASE control = About(packet)
    <3>1. \A j \in 1 + 1 .. Len(q) : q[j] # Dropped /\ About(q[j]) # About(q[1])
      <4>1. \A j \in 1 + 1 .. Len(q) : j - 1 \in 1 .. Len(r) /\ r[j - 1] = q[j]
        BY <1>4
      <4>2. \A i \in 1 .. Len(r) : r[i] # Dropped /\ About(r[i]) # About(q[1])
        BY <1>1, <1>5, <2>1 DEF NothingLost
      <4> QED
        BY <4>1, <4>2
    <3>2. q[1][3] = Value(pad, About(q[1]))
      <4>1. 1 \in 1 .. Len(q) /\ q[1] \in PadPackets /\ About(q[1]) \notin out
        BY <1>1, <1>3, <1>5, <2>1
      <4> QED
        BY <3>1, <4>1 DEF LastIsTrue
    <3> QED
      BY <1>1, <1>3, <2>1, <3>2
  <2>2. CASE control # About(packet)
    <3>1. \A i \in 1 .. Len(q) : i = 1 \/ i \in 2 .. Len(q)
      BY <1>1
    <3>2. NothingLost(q, taken)
      BY <1>1, <1>2, <1>4, <1>5, <3>1 DEF NothingLost
    <3>3. \A i \in 1 .. Len(q) : About(q[i]) # control
      BY <1>1, <1>4, <1>5, <2>2, <3>1
    <3>4. Value(taken.raw, control) = Value(pad, control)
      BY <3>2, <3>3 DEF RestIsKnown
    <3> QED
      BY <1>3, <2>2, <3>4
  <2> QED
    BY <2>1, <2>2
<1>6. RestIsKnown(r, now, pad, out)
  BY <1>5 DEF RestIsKnown
<1> QED
  BY <1>6 DEF r

TouchPackets ==
  {<<kind, at[1], at[2]>> : kind \in {"down", "move"}, at \in Points} \cup {<<"up", 0, 0>>}

\* Where a packet says the finger is.
Said(packet) == IF packet[1] = "up" THEN Lifted ELSE <<packet[2], packet[3]>>
\* Where the reader takes the finger to be after so many of the packets.
Where(q, taken, i) ==
  IF i = 0 THEN IF taken.down THEN taken.at ELSE Lifted ELSE Said(q[i])
\* What the packets of a touchscreen say of it.
FingerAt(q, taken, at) ==
  /\ ~taken.dropping
  /\ Where(q, taken, Len(q)) = at
  /\ \A i \in 1 .. Len(q) :
       q[i] # Dropped /\ (q[i][1] = "move" => Where(q, taken, i - 1) # Lifted)

\* What a touchscreen may say.
LEMMA TouchPacketIs ==
  ASSUME NEW packet \in TouchPackets
  PROVE  /\ packet # Dropped
         /\ packet[1] \in {"down", "move", "up"}
         /\ packet[1] # "up" => <<packet[2], packet[3]>> \in Points
         /\ Said(packet) \in Points \cup {Lifted}
<1>1. CASE packet \in {<<kind, at[1], at[2]>> : kind \in {"down", "move"}, at \in Points}
  <2>1. PICK kind \in {"down", "move"}, at \in Points : packet = <<kind, at[1], at[2]>>
    BY <1>1
  <2>2. at = <<at[1], at[2]>>
    BY InputAssumption
  <2> QED
    BY <2>1, <2>2 DEF Dropped, Said
<1>2. CASE packet = <<"up", 0, 0>>
  BY <1>2 DEF Dropped, Said
<1> QED
  BY <1>1, <1>2 DEF TouchPackets

\* A lifted finger is nowhere on the screen.
LEMMA NoPointIsLifted ==
  \A at \in Points : at # Lifted
  BY InputAssumption DEF Lifted

\* A packet more says where the finger is now.
LEMMA TouchIsSent ==
  ASSUME NEW q \in Seq(TouchPackets \cup {Dropped}), NEW taken, NEW at,
         FingerAt(q, taken, at), NEW packet \in TouchPackets,
         packet[1] = "move" => at # Lifted
  PROVE  /\ Append(q, packet) \in Seq(TouchPackets \cup {Dropped})
         /\ FingerAt(Append(q, packet), taken, Said(packet))
<1> DEFINE r == Append(q, packet)
<1>1. /\ r \in Seq(TouchPackets \cup {Dropped}) /\ Len(q) \in Nat /\ Len(r) = Len(q) + 1
      /\ r[Len(q) + 1] = packet /\ \A i \in 1 .. Len(q) : r[i] = q[i]
  BY AppendProperties, LenProperties
<1> HIDE DEF r
<1>2. \A i \in 0 .. Len(q) : Where(r, taken, i) = Where(q, taken, i)
  BY <1>1 DEF Where
<1>3. Where(r, taken, Len(r)) = Said(packet)
  BY <1>1 DEF Where
<1>4. ASSUME NEW i \in 1 .. Len(r)
      PROVE  r[i] # Dropped /\ (r[i][1] = "move" => Where(r, taken, i - 1) # Lifted)
  <2>1. CASE i = Len(q) + 1
    <3>1. r[i] = packet /\ i - 1 = Len(q) /\ Len(q) \in 0 .. Len(q)
      BY <1>1, <2>1
    <3>2. Where(r, taken, i - 1) = at
      BY <1>2, <3>1 DEF FingerAt
    <3> QED
      BY <3>1, <3>2, TouchPacketIs
  <2>2. CASE i \in 1 .. Len(q)
    <3>1. i - 1 \in 0 .. Len(q) /\ r[i] = q[i]
      BY <1>1, <2>2
    <3>2. Where(r, taken, i - 1) = Where(q, taken, i - 1)
      BY <1>2, <3>1
    <3> QED
      BY <2>2, <3>1, <3>2 DEF FingerAt
  <2> QED
    BY <1>1, <2>1, <2>2
<1>5. FingerAt(r, taken, Said(packet))
  BY <1>3, <1>4 DEF FingerAt
<1> QED
  BY <1>1, <1>5 DEF r

\* A packet that is read takes the finger where it says.
LEMMA TouchIsRead ==
  ASSUME NEW q \in Seq(TouchPackets \cup {Dropped}), q # <<>>, NEW taken, NEW at,
         FingerAt(q, taken, at), NEW now, ~now.dropping,
         Head(q)[1] = "down" => now.down /\ now.at = <<Head(q)[2], Head(q)[3]>>,
         Head(q)[1] = "move" => now.down = taken.down /\ now.at = <<Head(q)[2], Head(q)[3]>>,
         Head(q)[1] = "up" => ~now.down
  PROVE  FingerAt(Tail(q), now, at)
<1> DEFINE r == Tail(q)
           packet == Head(q)
<1>1. /\ r \in Seq(TouchPackets \cup {Dropped}) /\ Len(r) = Len(q) - 1
      /\ Len(q) \in Nat \ {0} /\ packet = q[1] /\ packet \in TouchPackets \cup {Dropped}
      /\ \A i \in 1 .. Len(q) - 1 : r[i] = q[i + 1]
  BY TailIs
<1>2. packet \in TouchPackets
  BY <1>1 DEF FingerAt
<1>3. Where(r, now, 0) = Said(packet)
  <2>1. packet[1] \in {"down", "move", "up"}
    BY <1>2, TouchPacketIs
  <2>2. packet[1] = "move" => Where(q, taken, 0) # Lifted
    <3>1. 1 \in 1 .. Len(q) /\ 1 - 1 = 0
      BY <1>1
    <3> QED
      BY <1>1, <3>1 DEF FingerAt
  <2>3. packet[1] = "move" => taken.down
    BY <2>2 DEF Where
  <2> QED
    BY <2>1, <2>3 DEF Where, Said
<1> HIDE DEF r, packet
<1>4. \A i \in 0 .. Len(r) : Where(r, now, i) = Where(q, taken, i + 1)
  <2> SUFFICES ASSUME NEW i \in 0 .. Len(r)
               PROVE  Where(r, now, i) = Where(q, taken, i + 1)
    OBVIOUS
  <2>1. CASE i = 0
    BY <1>1, <1>3, <2>1 DEF Where
  <2>2. CASE i # 0
    <3>1. i \in 1 .. Len(q) - 1 /\ i + 1 # 0
      BY <1>1, <2>2
    <3> QED
      BY <1>1, <2>2, <3>1 DEF Where
  <2> QED
    BY <2>1, <2>2
<1>5. Where(r, now, Len(r)) = at
  <2>1. Len(r) \in 0 .. Len(r) /\ Len(r) + 1 = Len(q)
    BY <1>1
  <2> QED
    BY <1>4, <2>1 DEF FingerAt
<1>6. ASSUME NEW i \in 1 .. Len(r)
      PROVE  r[i] # Dropped /\ (r[i][1] = "move" => Where(r, now, i - 1) # Lifted)
  <2>1. i + 1 \in 1 .. Len(q) /\ r[i] = q[i + 1] /\ i - 1 \in 0 .. Len(r)
        /\ (i - 1) + 1 = (i + 1) - 1
    BY <1>1
  <2>2. Where(r, now, i - 1) = Where(q, taken, (i + 1) - 1)
    BY <1>4, <2>1
  <2> QED
    BY <2>1, <2>2 DEF FingerAt
<1>7. FingerAt(r, now, at)
  BY <1>5, <1>6 DEF FingerAt
<1> QED
  BY <1>7 DEF r

-----------------------------------------------------------------------------
\* The packets that a command may come from.
Capacity == BufferSize + 1 + BatchSize
Pending(q, c) ==
  {e \in Opened \X (1 .. Capacity) :
     e[2] <= Len(q[e[1]]) /\ c \in Presses(q[e[1]][e[2]])}

\* The devices that are read are finitely many, with one touchscreen at most.
LEMMA OpenedIs ==
  ASSUME nodes \in Seq(NodeKinds)
  PROVE  /\ IsFiniteSet(DOMAIN nodes) /\ DOMAIN nodes \subseteq Nat
         /\ Opened \subseteq DOMAIN nodes /\ IsFiniteSet(Opened)
         /\ Cardinality(Opened) \in Nat
         /\ Found("touch") \cap Found("pad") = {}
         /\ Opened \subseteq Found("touch") \cup Found("pad")
         /\ \A n, m \in Found("touch") \cap Opened : n = m
         /\ \A n \in Opened : TurnOf(n) \in 0 .. Cardinality(Opened)
<1>1. IsFiniteSet(DOMAIN nodes) /\ DOMAIN nodes \subseteq Nat
  <2>1. DOMAIN nodes = 1 .. Len(nodes) /\ Len(nodes) \in Nat
    OBVIOUS
  <2> QED
    BY <2>1, FS_Interval
<1>2. Opened \subseteq Found("touch") \cup Found("pad")
  BY DEF Opened, FirstOf
<1>3. Opened \subseteq DOMAIN nodes /\ Found("touch") \cap Found("pad") = {}
  BY <1>2 DEF Found
<1>4. IsFiniteSet(Opened) /\ Cardinality(Opened) \in Nat
  BY <1>1, <1>3, FS_Subset, FS_CardinalityType
<1>5. ASSUME NEW n \in Found("touch") \cap Opened, NEW m \in Found("touch"), m < n
      PROVE  FALSE
  <2> DEFINE S == {other \in Found("touch") : other < n}
  <2>1. n \in FirstOf(Found("touch"), 1)
    BY <1>3 DEF Opened, FirstOf
  <2>2. Cardinality(S) < 1
    BY <2>1 DEF FirstOf
  <2>3. m \in S /\ S \subseteq DOMAIN nodes
    BY <1>5 DEF Found
  <2> HIDE DEF S
  <2>4. IsFiniteSet(S) /\ Cardinality(S) \in Nat
    BY <1>1, <2>3, FS_Subset, FS_CardinalityType
  <2> QED
    BY <2>2, <2>3, <2>4, FS_EmptySet
<1>6. ASSUME NEW n \in Found("touch") \cap Opened, NEW m \in Found("touch") \cap Opened
      PROVE  n = m
  <2>1. n \in Nat /\ m \in Nat
    BY <1>1, <1>3
  <2>2. ~(n < m) /\ ~(m < n)
    BY <1>5
  <2> QED
    BY <2>1, <2>2
<1>7. ASSUME NEW n \in Opened
      PROVE  TurnOf(n) \in 0 .. Cardinality(Opened)
  <2> DEFINE S == {m \in Opened : \/ m = n
                                  \/ nodes[m] = "touch" /\ nodes[n] = "pad"
                                  \/ nodes[m] = nodes[n] /\ m < n}
  <2>1. S \subseteq Opened /\ TurnOf(n) = Cardinality(S)
    BY DEF TurnOf
  <2> HIDE DEF S
  <2>2. Cardinality(S) \in Nat /\ Cardinality(S) <= Cardinality(Opened)
    BY <1>4, <2>1, FS_Subset, FS_CardinalityType
  <2> QED
    BY <1>4, <2>1, <2>2
<1> QED
  BY <1>1, <1>2, <1>3, <1>4, <1>6, <1>7

\* The packets that wait can be counted.
LEMMA PendingIs ==
  ASSUME nodes \in Seq(NodeKinds), NEW q, NEW c
  PROVE  IsFiniteSet(Pending(q, c)) /\ Cardinality(Pending(q, c)) \in Nat
<1>1. IsFiniteSet(Opened)
  BY OpenedIs
<1>2. IsFiniteSet(1 .. Capacity)
  BY InputAssumption, FS_Interval DEF Capacity
<1>3. IsFiniteSet(Opened \X (1 .. Capacity))
  BY <1>1, <1>2, FS_Product
<1>4. Pending(q, c) \in SUBSET (Opened \X (1 .. Capacity))
  BY DEF Pending
<1> QED
  BY <1>3, <1>4, FS_Subset, FS_CardinalityType

\* A press more is at most one command more, and only for what was pressed.
LEMMA PressIsPending ==
  ASSUME nodes \in Seq(NodeKinds), NEW q, NEW r, NEW c, NEW n \in Opened, NEW packet,
         \A m \in Opened \ {n} : r[m] = q[m],
         Len(q[n]) \in Nat, Len(r[n]) \in Nat, r[n][Len(r[n])] = packet,
         \A i \in 1 .. Len(r[n]) - 1 :
           (i <= Len(q[n]) /\ r[n][i] = q[n][i]) \/ c \notin Presses(r[n][i])
  PROVE  Cardinality(Pending(r, c)) <=
           Cardinality(Pending(q, c)) + (IF c \in Presses(packet) THEN 1 ELSE 0)
<1> DEFINE P == Pending(q, c)
           R == Pending(r, c)
           last == <<n, Len(r[n])>>
<1>1. R \subseteq P \cup {last}
  <2> SUFFICES ASSUME NEW e \in R, e # last
               PROVE  e \in P
    OBVIOUS
  <2>1. PICK m \in Opened, i \in 1 .. Capacity : e = <<m, i>>
    BY DEF Pending
  <2>2. i <= Len(r[m]) /\ c \in Presses(r[m][i])
    BY <2>1 DEF Pending
  <2>3. CASE m # n
    BY <2>1, <2>2, <2>3 DEF Pending
  <2>4. CASE m = n
    <3>1. i # Len(r[n])
      BY <2>1, <2>4
    <3>2. i \in 1 .. Len(r[n]) - 1
      BY <2>2, <2>4, <3>1, InputAssumption DEF Capacity
    <3>3. i <= Len(q[n]) /\ r[n][i] = q[n][i]
      BY <2>2, <2>4, <3>2
    <3> QED
      BY <2>1, <2>2, <2>4, <3>3 DEF Pending
  <2> QED
    BY <2>3, <2>4
<1>2. last \in R => c \in Presses(packet)
  BY DEF Pending
<1>3. IsFiniteSet(P) /\ Cardinality(P) \in Nat /\ IsFiniteSet(R) /\ Cardinality(R) \in Nat
  BY PendingIs
<1> HIDE DEF P, R, last
<1>4. CASE last \in R
  <2> DEFINE X == P \cup {last}
  <2>5. IsFiniteSet(X) /\ Cardinality(X) \in Nat /\ Cardinality(X) <= Cardinality(P) + 1
    <3>1. IsFiniteSet(X)
      BY <1>3, FS_AddElement
    <3>2. Cardinality(X) = IF last \in P THEN Cardinality(P) ELSE Cardinality(P) + 1
      BY <1>3, FS_AddElement
    <3> HIDE DEF X
    <3> QED
      BY <1>3, <3>1, <3>2, FS_CardinalityType
  <2>6. R \subseteq X
    BY <1>1
  <2> HIDE DEF X
  <2>1. Cardinality(R) <= Cardinality(X)
    BY <2>5, <2>6, FS_Subset
  <2>4. Cardinality(R) <= Cardinality(P) + 1
    BY <1>3, <2>1, <2>5
  <2> QED
    BY <1>2, <1>4, <2>4 DEF P, R
<1>5. CASE last \notin R
  <2>1. R \subseteq P
    BY <1>1, <1>5
  <2>2. Cardinality(R) <= Cardinality(P)
    BY <1>3, <2>1, FS_Subset
  <2> DEFINE more == IF c \in Presses(packet) THEN 1 ELSE 0
  <2>3. more \in Nat
    OBVIOUS
  <2> HIDE DEF more
  <2>4. Cardinality(R) <= Cardinality(P) + more
    BY <1>3, <2>2, <2>3
  <2> QED
    BY <2>4 DEF P, R, more
<1> QED
  BY <1>4, <1>5

\* What is read is pending no more.
LEMMA ReadIsDone ==
  ASSUME nodes \in Seq(NodeKinds), NEW q, NEW r, NEW c, NEW n \in Opened,
         \A m \in Opened \ {n} : r[m] = q[m],
         Len(q[n]) \in 1 .. Capacity, Len(r[n]) = Len(q[n]) - 1,
         \A i \in 1 .. Len(r[n]) : r[n][i] = q[n][i + 1] \/ c \notin Presses(r[n][i])
  PROVE  /\ c \in Presses(q[n][1]) =>
              Cardinality(Pending(q, c)) >= 1
                /\ Cardinality(Pending(r, c)) <= Cardinality(Pending(q, c)) - 1
         /\ Cardinality(Pending(r, c)) <= Cardinality(Pending(q, c))
<1> DEFINE P == Pending(q, c)
           R == Pending(r, c)
           first == <<n, 1>>
<1>1. Capacity \in Nat \ {0}
  BY InputAssumption DEF Capacity
<1>2. IsFiniteSet(P) /\ Cardinality(P) \in Nat /\ IsFiniteSet(R) /\ Cardinality(R) \in Nat
  BY PendingIs
<1>3. first \in P <=> c \in Presses(q[n][1])
  <2>1. 1 \in 1 .. Capacity /\ 1 <= Len(q[n])
    BY <1>1
  <2> QED
    BY <2>1 DEF Pending
<1> DEFINE f == [x \in R |-> IF x[1] = n THEN <<n, x[2] + 1>> ELSE x]
<1>4. ASSUME NEW x \in R
      PROVE  /\ x[1] \in Opened /\ x[2] \in 1 .. Capacity /\ x = <<x[1], x[2]>>
             /\ x[2] <= Len(r[x[1]]) /\ c \in Presses(r[x[1]][x[2]])
             /\ x[1] = n => x[2] \in 1 .. Len(r[n])
  BY <1>1 DEF Pending
<1>5. ASSUME NEW x \in R
      PROVE  f[x] \in P /\ f[x] # first
  <2>1. CASE x[1] = n
    <3>1. x[2] \in 1 .. Len(r[n]) /\ r[n][x[2]] = q[n][x[2] + 1]
      BY <1>4, <2>1
    <3>2. x[2] + 1 \in 1 .. Capacity /\ x[2] + 1 <= Len(q[n]) /\ x[2] + 1 # 1
      BY <1>1, <3>1
    <3>3. f[x] = <<n, x[2] + 1>>
      BY <2>1
    <3>4. c \in Presses(q[n][x[2] + 1])
      BY <1>4, <2>1, <3>1
    <3> QED
      BY <3>2, <3>3, <3>4 DEF Pending
  <2>2. CASE x[1] # n
    <3>1. f[x] = x
      BY <2>2
    <3> QED
      BY <1>4, <2>2, <3>1 DEF Pending
  <2> QED
    BY <2>1, <2>2
<1>6. ASSUME NEW x \in R, NEW y \in R, f[x] = f[y]
      PROVE  x = y
  <2>1. \A z \in R : /\ f[z][1] = z[1]
                     /\ z[1] = n => f[z][2] = z[2] + 1
                     /\ z[1] # n => f[z] = z
    <3> SUFFICES ASSUME NEW z \in R
                 PROVE  /\ f[z][1] = z[1]
                        /\ z[1] = n => f[z][2] = z[2] + 1
                        /\ z[1] # n => f[z] = z
      OBVIOUS
    <3>1. f[z] = IF z[1] = n THEN <<n, z[2] + 1>> ELSE z
      OBVIOUS
    <3> QED
      BY <3>1
  <2> HIDE DEF f, R, P
  <2>2. CASE x[1] = n /\ y[1] = n
    <3>1. x[2] + 1 = y[2] + 1
      BY <1>6, <2>1, <2>2
    <3>2. x[2] \in 1 .. Len(r[n]) /\ y[2] \in 1 .. Len(r[n])
      BY <1>4, <2>2
    <3>3. x[2] = y[2]
      BY <3>1, <3>2
    <3> QED
      BY <1>4, <2>2, <3>3
  <2>3. CASE x[1] # n /\ y[1] # n
    BY <1>6, <2>1, <2>3
  <2>4. CASE x[1] = n /\ y[1] # n
    BY <1>6, <2>1, <2>4
  <2>5. CASE x[1] # n /\ y[1] = n
    BY <1>6, <2>1, <2>5
  <2> QED
    BY <2>2, <2>3, <2>4, <2>5
<1> DEFINE Q == P \ {first}
<1>7. f \in [R -> Q]
  BY <1>5
<1>8. IsFiniteSet(Q) /\ Cardinality(Q) = IF first \in P THEN Cardinality(P) - 1 ELSE Cardinality(P)
  <2> HIDE DEF P, first
  <2> QED
    BY <1>2, FS_RemoveElement
<1> HIDE DEF f, Q, P, R, first
<1>9. Cardinality(R) <= Cardinality(Q)
  <2>1. f \in Injection(R, Q)
    BY <1>6, <1>7 DEF Injection, IsInjective
  <2> QED
    BY <1>8, <2>1, FS_Injection
<1>10. first \in P => Cardinality(P) >= 1
  <2>1. first \in P => P # {}
    OBVIOUS
  <2> QED
    BY <1>2, <2>1, FS_EmptySet
<1>11. first \in P => Cardinality(P) >= 1 /\ Cardinality(R) <= Cardinality(P) - 1
  BY <1>8, <1>9, <1>10
<1>12. Cardinality(R) <= Cardinality(P)
  BY <1>2, <1>8, <1>9
<1> QED
  BY <1>3, <1>11, <1>12 DEF P, R

Packets == TouchPackets \cup Messages
\* How many packets a queue may have when so many of them are read.
Fits(q, k) == k \in 0 .. BatchSize /\ k <= Len(q) /\ Len(q) - k <= BufferSize + 1
\* What is known of a controller but for some keys.
PadKnown(q, taken, pad, keys) ==
  /\ q \in Seq(Messages) /\ keys \in SUBSET (0 .. 7)
  /\ taken \in [raw : PadType, state : SUBSET Meanings, dropping : BOOLEAN]
  /\ LastIsTrue(q, pad, OfKeys(keys)) /\ RestIsKnown(q, taken, pad, OfKeys(keys))
  /\ taken.state = gamepad_state(taken.raw)

InputTypes ==
  /\ nodes \in Seq(NodeKinds) /\ left \in Budgets /\ alive \subseteq DOMAIN nodes
  /\ finger \in [Found("touch") -> Points \cup {Lifted}]
  /\ hand \in [Found("pad") -> PadType]
  /\ queue \in [Opened -> Seq(Packets)]
  /\ fetched \in [Opened -> 0 .. BatchSize]
  /\ \A n \in Opened : Fits(queue[n], fetched[n])
  /\ stale \in [Found("pad") -> SUBSET (0 .. 7)]
  /\ touch \in [at : Points \cup {<<0, 0>>}, down : BOOLEAN, reported : BOOLEAN,
                dropping : BOOLEAN]
  /\ pads = [n \in Found("pad") \cap Opened |-> pads[n]]
  /\ reader \in 0 .. Cardinality(Opened) + 1
  /\ commands \subseteq Meanings
  /\ owed \in [Meanings -> Nat]
  /\ invented = FALSE /\ lost \in BOOLEAN
PadsInv ==
  \A n \in Found("pad") \cap Opened :
    /\ PadKnown(queue[n], pads[n], hand[n], stale[n])
    /\ ~lost => NothingLost(queue[n], pads[n]) /\ stale[n] = {}
FingerInv ==
  /\ touch.reported = touch.down
  /\ \A n \in Found("touch") \cap Opened :
       /\ queue[n] \in Seq(TouchPackets \cup {Dropped})
       /\ ~lost => FingerAt(queue[n], touch, finger[n])
OwedInv == \A c \in Meanings : Cardinality(Pending(queue, c)) <= owed[c]
InputIInv == InputTypes /\ PadsInv /\ FingerInv /\ OwedInv

\* The strengthened invariant has the one that is checked.
LEMMA InputHolds ==
  ASSUME InputIInv
  PROVE  InputInv
<1>1. PadsAreKnown
  <2> SUFFICES ASSUME NEW n \in DOMAIN pads, queue[n] = <<>>, ~pads[n].dropping
               PROVE  /\ pads[n].raw.x = hand[n].x /\ pads[n].raw.y = hand[n].y
                      /\ \A key \in (0 .. 7) \ stale[n] :
                           key \in pads[n].raw.keys <=> key \in hand[n].keys
                      /\ pads[n].state = gamepad_state(pads[n].raw)
                      /\ ~lost => stale[n] = {}
    BY DEF PadsAreKnown
  <2>1. n \in Found("pad") \cap Opened
    BY DEF InputIInv, InputTypes
  <2>2. PadKnown(queue[n], pads[n], hand[n], stale[n]) /\ (~lost => stale[n] = {})
    BY <2>1 DEF InputIInv, PadsInv
  <2>3. RestIsKnown(queue[n], pads[n], hand[n], OfKeys(stale[n]))
        /\ pads[n].state = gamepad_state(pads[n].raw)
    BY <2>2 DEF PadKnown
  <2>4. NothingLost(queue[n], pads[n])
    BY DEF NothingLost
  <2>5. \A control \in Controls \ OfKeys(stale[n]) :
          Value(pads[n].raw, control) = Value(hand[n], control)
    BY <2>3, <2>4 DEF RestIsKnown
  <2>6. <<"x", 0>> \in Controls \ OfKeys(stale[n]) /\ <<"y", 0>> \in Controls \ OfKeys(stale[n])
    BY DEF Controls, OfKeys
  <2>7. pads[n].raw.x = hand[n].x /\ pads[n].raw.y = hand[n].y
    BY <2>5, <2>6, ValueIs
  <2>8. ASSUME NEW key \in (0 .. 7) \ stale[n]
        PROVE  key \in pads[n].raw.keys <=> key \in hand[n].keys
    <3>1. <<"key", key>> \in Controls \ OfKeys(stale[n])
      BY DEF Controls, OfKeys
    <3>2. (IF key \in pads[n].raw.keys THEN 1 ELSE 0) = (IF key \in hand[n].keys THEN 1 ELSE 0)
      BY <2>5, <3>1, ValueIs
    <3> QED
      BY <3>2
  <2> QED
    BY <2>2, <2>3, <2>7, <2>8
<1>2. FingerIsKnown
  <2> SUFFICES ASSUME NEW n \in Found("touch") \cap Opened, ~lost, queue[n] = <<>>
               PROVE  touch.down = (finger[n] # Lifted) /\ (touch.down => touch.at = finger[n])
    BY DEF FingerIsKnown
  <2>1. FingerAt(queue[n], touch, finger[n])
    BY DEF InputIInv, FingerInv
  <2>2. Where(queue[n], touch, 0) = finger[n]
    BY <2>1 DEF FingerAt
  <2>3. touch.at # Lifted
    <3>1. touch.at \in Points \cup {<<0, 0>>}
      BY DEF InputIInv, InputTypes
    <3>2. <<0, 0>> # Lifted
      BY DEF Lifted
    <3> QED
      BY <3>1, <3>2, NoPointIsLifted
  <2>4. touch.down \in BOOLEAN
    BY DEF InputIInv, InputTypes
  <2>5. finger[n] = IF touch.down THEN touch.at ELSE Lifted
    BY <2>2 DEF Where
  <2> QED
    BY <2>3, <2>4, <2>5
<1>3. InputTypeOK
  <2>1. /\ finger \in [Found("touch") -> Points \cup {Lifted}] /\ DOMAIN queue = Opened
        /\ DOMAIN owed = Meanings /\ DOMAIN stale = Found("pad")
    BY DEF InputIInv, InputTypes
  <2>2. \A n \in DOMAIN queue :
          /\ fetched[n] \in 0 .. BatchSize /\ fetched[n] <= Len(queue[n])
          /\ Len(queue[n]) - fetched[n] <= BufferSize + 1
    BY <2>1 DEF InputIInv, InputTypes, Fits
  <2>3. \A n \in DOMAIN stale : stale[n] \subseteq 0 .. 7
    BY <2>1 DEF InputIInv, InputTypes
  <2> QED
    BY <2>1, <2>2, <2>3 DEF InputIInv, InputTypes, InputTypeOK
<1> QED
  BY <1>1, <1>2, <1>3 DEF InputInv, InputIInv, InputTypes, EveryCommandIsAPress

\* The devices that were found stay the ones that are read.
LEMMA SameDevices ==
  ASSUME nodes' = nodes
  PROVE  /\ Found("touch")' = Found("touch") /\ Found("pad")' = Found("pad")
         /\ Opened' = Opened
         /\ \A c : Pending(queue, c)' = Pending(queue', c)
<1>1. Found("touch")' = Found("touch") /\ Found("pad")' = Found("pad")
  BY DEF Found
<1>2. Opened' = Opened
  BY <1>1 DEF Opened, FirstOf
<1> QED
  BY <1>1, <1>2 DEF Pending

\* What a queue may have, counted.
LEMMA FitsIs ==
  ASSUME NEW q, Len(q) \in Nat, NEW k, Fits(q, k)
  PROVE  Len(q) <= Capacity /\ k \in 0 .. Len(q) /\ k <= BatchSize
         /\ Len(q) - k <= BufferSize + 1
  BY InputAssumption DEF Fits, Capacity

\* What sending a packet does to the queues and to what is owed.
LEMMA SendKeepsOwed ==
  ASSUME InputIInv, nodes' = nodes, fetched' = fetched,
         NEW n, NEW packet \in TouchPackets \cup PadPackets, Send(n, packet)
  PROVE  /\ OwedInv'
         /\ queue' \in [Opened -> Seq(Packets)]
         /\ \A m \in Opened : Fits(queue'[m], fetched'[m])
         /\ owed' \in [Meanings -> Nat] /\ lost' \in BOOLEAN
         /\ \A m \in Opened \ {n} : queue'[m] = queue[m]
         /\ n \in Opened =>
              \/ queue'[n] = Append(queue[n], packet)
              \/ /\ queue'[n] = SubSeq(queue[n], 1, fetched[n]) \o <<Dropped, packet>>
                 /\ fetched[n] \in 0 .. Len(queue[n]) /\ lost'
         /\ lost => lost'
<1>1. /\ nodes \in Seq(NodeKinds) /\ queue \in [Opened -> Seq(Packets)]
      /\ fetched \in [Opened -> 0 .. BatchSize]
      /\ \A m \in Opened : Fits(queue[m], fetched[m])
      /\ owed \in [Meanings -> Nat] /\ lost \in BOOLEAN
  BY DEF InputIInv, InputTypes
<1>2. /\ lost' = (lost \/ (n \in Opened /\ Overflows(n)))
      /\ queue' = IF n \notin Opened THEN queue
                  ELSE [queue EXCEPT
                          ![n] = IF Overflows(n)
                                 THEN SubSeq(queue[n], 1, fetched[n]) \o <<Dropped, packet>>
                                 ELSE Append(@, packet)]
      /\ owed' = IF n \in Opened
             THEN [c \in DOMAIN owed |->
                     IF c \in Presses(packet) THEN owed[c] + 1 ELSE owed[c]]
             ELSE owed
  BY DEF Send, Dropped, Fetched
<1>3. packet \in Packets /\ Dropped \in Packets
  BY DEF Packets, Messages
<1>4. CASE n \notin Opened
  <2>1. queue' = queue /\ owed' = owed /\ lost' = lost
    BY <1>1, <1>2, <1>4
  <2>2. OwedInv'
    BY <2>1, SameDevices DEF OwedInv, InputIInv
  <2> QED
    BY <1>1, <1>4, <2>1, <2>2
<1>5. CASE n \in Opened
  <2>1. /\ queue[n] \in Seq(Packets) /\ Len(queue[n]) \in Nat
        /\ fetched[n] \in 0 .. Len(queue[n]) /\ fetched[n] \in 0 .. BatchSize
        /\ Fits(queue[n], fetched[n])
    BY <1>1, <1>5, LenProperties, FitsIs
  <2> DEFINE cut == SubSeq(queue[n], 1, fetched[n]) \o <<Dropped, packet>>
  <2>2. \/ ~Overflows(n) /\ queue'[n] = Append(queue[n], packet)
        \/ queue'[n] = cut /\ lost'
    BY <1>1, <1>2, <1>5
  <2>3. /\ queue' = [queue EXCEPT ![n] = queue'[n]]
        /\ \A m \in Opened \ {n} : queue'[m] = queue[m]
    BY <1>1, <1>2, <1>5
  <2>11. /\ cut \in Seq(Packets) /\ Len(cut) = fetched[n] + 2
         /\ cut[fetched[n] + 1] = Dropped /\ cut[fetched[n] + 2] = packet
         /\ \A i \in 1 .. fetched[n] : cut[i] = queue[n][i]
    <3>1. /\ queue[n] \in Seq(Packets) /\ fetched[n] \in 0 .. Len(queue[n])
          /\ Dropped \in Packets /\ packet \in Packets
      BY <1>3, <2>1
    <3>2. cut \in Seq(Packets) /\ Len(cut) = fetched[n] + 2
      BY <3>1, CutIs
    <3>4. cut[fetched[n] + 1] = Dropped
      <4> DEFINE k == fetched[n]
      <4>1. k \in 0 .. Len(queue[n])
        BY <3>1
      <4> HIDE DEF k
      <4>2. (SubSeq(queue[n], 1, k) \o <<Dropped, packet>>)[k + 1] = Dropped
        BY <3>1, <4>1, CutIs
      <4> QED
        BY <4>2 DEF k
    <3>5. cut[fetched[n] + 2] = packet
      BY <3>1, CutIs
    <3>3. \A i \in 1 .. fetched[n] : cut[i] = queue[n][i]
      BY <3>1, CutIs
    <3> QED
      BY <3>2, <3>3, <3>4, <3>5
  <2> HIDE DEF cut
  <2>4. /\ queue'[n] \in Seq(Packets) /\ Fits(queue'[n], fetched'[n])
        /\ Len(queue'[n]) \in Nat /\ queue'[n][Len(queue'[n])] = packet
        /\ \A i \in 1 .. Len(queue'[n]) - 1 :
             (i <= Len(queue[n]) /\ queue'[n][i] = queue[n][i]) \/ queue'[n][i] = Dropped
    <3>1. CASE ~Overflows(n) /\ queue'[n] = Append(queue[n], packet)
      <4>1. Len(queue[n]) - fetched[n] < BufferSize
        BY <2>1, <3>1, InputAssumption DEF Overflows
      <4>2. /\ Append(queue[n], packet) \in Seq(Packets)
            /\ Len(Append(queue[n], packet)) = Len(queue[n]) + 1
            /\ \A i \in 1 .. Len(queue[n]) : Append(queue[n], packet)[i] = queue[n][i]
            /\ Append(queue[n], packet)[Len(queue[n]) + 1] = packet
        BY <1>3, <2>1, AppendProperties
      <4>3. Fits(queue'[n], fetched[n])
        BY <2>1, <3>1, <4>1, <4>2, InputAssumption DEF Fits
      <4> QED
        BY <2>1, <3>1, <4>2, <4>3
    <3>2. CASE queue'[n] = cut /\ lost'
      <4>1. Fits(cut, fetched[n])
        BY <2>1, <2>11, InputAssumption DEF Fits
      <4>2. ASSUME NEW i \in 1 .. Len(cut) - 1
            PROVE  (i <= Len(queue[n]) /\ cut[i] = queue[n][i]) \/ cut[i] = Dropped
        <5>1. i \in 1 .. fetched[n] \/ i = fetched[n] + 1
          BY <2>1, <2>11
        <5> QED
          BY <2>1, <2>11, <5>1
      <4>3. Len(cut) \in Nat
        BY <2>1, <2>11
      <4> QED
        BY <2>11, <3>2, <4>1, <4>2, <4>3
    <3> QED
      BY <2>2, <3>1, <3>2
  <2>5. queue' \in [Opened -> Seq(Packets)]
    BY <1>1, <2>3, <2>4
  <2>6. owed' = [c \in Meanings |-> IF c \in Presses(packet) THEN owed[c] + 1 ELSE owed[c]]
    BY <1>1, <1>2, <1>5
  <2>7. ASSUME NEW c \in Meanings
        PROVE  Cardinality(Pending(queue', c)) <= owed'[c]
    <3>1. c \notin Presses(Dropped)
      BY NotPressed
    <3>6. \A i \in 1 .. Len(queue'[n]) - 1 :
            (i <= Len(queue[n]) /\ queue'[n][i] = queue[n][i]) \/ c \notin Presses(queue'[n][i])
      BY <2>4, <3>1
    <3> DEFINE more == IF c \in Presses(packet) THEN 1 ELSE 0
    <3>2. Cardinality(Pending(queue', c)) <= Cardinality(Pending(queue, c)) + more
      BY <1>1, <1>5, <2>1, <2>3, <2>4, <3>6, PressIsPending
    <3>3. Cardinality(Pending(queue, c)) <= owed[c]
      BY DEF InputIInv, OwedInv
    <3>4. owed'[c] = owed[c] + more /\ owed[c] \in Nat /\ more \in Nat
      BY <1>1, <2>6
    <3>5. Cardinality(Pending(queue, c)) \in Nat /\ Cardinality(Pending(queue', c)) \in Nat
      BY <1>1, PendingIs
    <3> HIDE DEF more
    <3> QED
      BY <3>2, <3>3, <3>4, <3>5
  <2>8. OwedInv'
    BY <2>7, SameDevices DEF OwedInv
  <2>9. owed' \in [Meanings -> Nat] /\ lost' \in BOOLEAN /\ (lost => lost')
    BY <1>1, <1>2, <2>6
  <2>10. \A m \in Opened : Fits(queue'[m], fetched'[m])
    BY <1>1, <2>3, <2>4
  <2> QED
    BY <2>1, <2>2, <2>3, <2>5, <2>8, <2>9, <2>10 DEF cut
<1> QED
  BY <1>4, <1>5

\* What reading a packet does to the queues and to what is owed.
LEMMA ReadKeepsOwed ==
  ASSUME InputIInv, nodes' = nodes, NEW n \in Opened, Drains(n),
         NEW r \in Seq(Packets), queue' = [queue EXCEPT ![n] = r],
         Len(r) = Len(queue[n]) - 1,
         \A i \in 1 .. Len(r) : r[i] = queue[n][i + 1] \/ r[i] = Empty,
         NEW cs, cs \subseteq Presses(Head(queue[n])), cs \subseteq Meanings, Collects(cs)
  PROVE  /\ OwedInv'
         /\ queue' \in [Opened -> Seq(Packets)]
         /\ fetched' \in [Opened -> 0 .. BatchSize]
         /\ \A m \in Opened : Fits(queue'[m], fetched'[m])
         /\ owed' \in [Meanings -> Nat] /\ invented' = FALSE
         /\ commands' \subseteq Meanings
         /\ queue'[n] = r /\ \A m \in Opened \ {n} : queue'[m] = queue[m]
<1>1. /\ nodes \in Seq(NodeKinds) /\ queue \in [Opened -> Seq(Packets)]
      /\ fetched \in [Opened -> 0 .. BatchSize]
      /\ \A m \in Opened : Fits(queue[m], fetched[m])
      /\ owed \in [Meanings -> Nat] /\ invented = FALSE /\ commands \subseteq Meanings
  BY DEF InputIInv, InputTypes
<1>11. fetched' = [fetched EXCEPT ![n] = @ - 1] /\ fetched[n] > 0
  BY DEF Drains
<1>2. /\ Len(queue[n]) \in 1 .. Capacity /\ Head(queue[n]) = queue[n][1]
      /\ Len(r) \in Nat
  <2>1. queue[n] \in Seq(Packets) /\ Fits(queue[n], fetched[n])
    BY <1>1
  <2>2. Len(queue[n]) \in Nat
    BY <2>1, LenProperties
  <2>3. Len(queue[n]) <= Capacity /\ fetched[n] \in 0 .. Len(queue[n])
    BY <2>1, <2>2, FitsIs
  <2>4. Len(queue[n]) > 0
    BY <1>11, <2>2, <2>3
  <2>5. Capacity \in Nat
    BY InputAssumption DEF Capacity
  <2>6. Head(queue[n]) = queue[n][1]
    BY <2>1, <2>4, EmptySeq, TailIs
  <2> QED
    BY <2>2, <2>3, <2>4, <2>5, <2>6
<1>3. queue'[n] = r /\ \A m \in Opened \ {n} : queue'[m] = queue[m]
  BY <1>1
<1>4. queue' \in [Opened -> Seq(Packets)]
  BY <1>1
<1>5. fetched' \in [Opened -> 0 .. BatchSize] /\ \A m \in Opened : Fits(queue'[m], fetched'[m])
  <2>1. fetched[n] - 1 \in 0 .. BatchSize
    BY <1>1, <1>11, InputAssumption
  <2>2. /\ fetched' \in [Opened -> 0 .. BatchSize] /\ fetched'[n] = fetched[n] - 1
        /\ \A m \in Opened \ {n} : fetched'[m] = fetched[m]
    BY <1>1, <1>11, <2>1
  <2>3. Fits(r, fetched[n] - 1)
    <3>1. Fits(queue[n], fetched[n])
      BY <1>1
    <3> QED
      BY <1>2, <2>1, <3>1, InputAssumption DEF Fits
  <2> QED
    BY <1>1, <1>3, <2>2, <2>3
<1>6. ASSUME NEW c \in Meanings
      PROVE  /\ c \in cs => owed[c] > 0
             /\ Cardinality(Pending(queue', c)) <= owed'[c]
  <2> DEFINE P == Cardinality(Pending(queue, c))
             R == Cardinality(Pending(queue', c))
  <2>1. /\ c \in Presses(queue[n][1]) => P >= 1 /\ R <= P - 1
        /\ R <= P
    <3>1. \A i \in 1 .. Len(r) : r[i] = queue[n][i + 1] \/ c \notin Presses(r[i])
      BY NotPressed
    <3> QED
      BY <1>1, <1>2, <1>3, <3>1, ReadIsDone
  <2>2. P \in Nat /\ R \in Nat
    BY <1>1, PendingIs
  <2>3. P <= owed[c]
    BY DEF InputIInv, OwedInv
  <2>4. owed[c] \in Nat
    BY <1>1
  <2>5. owed'[c] = IF c \in cs /\ owed[c] > 0 THEN owed[c] - 1 ELSE owed[c]
    BY <1>1 DEF Collects
  <2> HIDE DEF P, R
  <2>6. c \in cs => P >= 1 /\ R <= P - 1
    BY <1>2, <2>1
  <2>7. (c \in cs => owed[c] > 0) /\ R <= owed'[c]
    BY <2>1, <2>2, <2>3, <2>4, <2>5, <2>6
  <2> QED
    BY <2>7 DEF R
<1>7. OwedInv'
  BY <1>6, SameDevices DEF OwedInv
<1>8. invented' = FALSE
  <2>1. \A c \in cs : owed[c] # 0
    BY <1>1, <1>6
  <2> QED
    BY <1>1, <2>1 DEF Collects
<1>9. owed' \in [Meanings -> Nat]
  BY <1>1 DEF Collects
<1>10. commands' \subseteq Meanings
  BY <1>1 DEF Collects
<1> QED
  BY <1>3, <1>4, <1>5, <1>7, <1>8, <1>9, <1>10

\* A finger goes down, slides or is lifted.
LEMMA FingerMoves ==
  ASSUME InputIInv, NEW n \in Found("touch"), NEW packet \in TouchPackets,
         nodes' = nodes, alive' = alive, hand' = hand, reading' = reading,
         invented' = invented, stale' = stale, left' \in Budgets,
         packet[1] = "move" => finger[n] # Lifted,
         finger' = [finger EXCEPT ![n] = Said(packet)], Send(n, packet)
  PROVE  InputIInv'
<1>1. /\ OwedInv'
      /\ queue' \in [Opened -> Seq(Packets)]
      /\ \A m \in Opened : Fits(queue'[m], fetched'[m])
      /\ owed' \in [Meanings -> Nat] /\ lost' \in BOOLEAN
      /\ \A m \in Opened \ {n} : queue'[m] = queue[m]
      /\ n \in Opened =>
           \/ queue'[n] = Append(queue[n], packet)
           \/ /\ queue'[n] = SubSeq(queue[n], 1, fetched[n]) \o <<Dropped, packet>>
              /\ fetched[n] \in 0 .. Len(queue[n]) /\ lost'
      /\ lost => lost'
  <2>1. fetched' = fetched
    BY DEF reading
  <2> QED
    BY <2>1, SendKeepsOwed
<1>2. /\ Found("touch")' = Found("touch") /\ Found("pad")' = Found("pad")
      /\ Opened' = Opened
  BY SameDevices
<1>3. /\ touch' = touch /\ pads' = pads /\ reader' = reader /\ commands' = commands
      /\ fetched' = fetched
  BY DEF reading
<1>4. finger \in [Found("touch") -> Points \cup {Lifted}] /\ nodes \in Seq(NodeKinds)
  BY DEF InputIInv, InputTypes
<1>5. finger' \in [Found("touch") -> Points \cup {Lifted}] /\ finger'[n] = Said(packet)
      /\ \A m \in Found("touch") \ {n} : finger'[m] = finger[m]
  <2>1. Said(packet) \in Points \cup {Lifted}
    BY TouchPacketIs
  <2> QED
    BY <1>4, <2>1
<1>6. InputTypes'
  BY <1>1, <1>2, <1>3, <1>5 DEF InputIInv, InputTypes
<1>7. PadsInv'
  <2> SUFFICES ASSUME NEW m \in Found("pad") \cap Opened
               PROVE  /\ PadKnown(queue'[m], pads'[m], hand'[m], stale'[m])
                      /\ ~lost' => NothingLost(queue'[m], pads'[m]) /\ stale'[m] = {}
    BY <1>2 DEF PadsInv
  <2>1. m # n
    BY <1>4, OpenedIs
  <2>2. queue'[m] = queue[m]
    BY <1>1, <2>1
  <2>3. /\ PadKnown(queue[m], pads[m], hand[m], stale[m])
        /\ ~lost => NothingLost(queue[m], pads[m]) /\ stale[m] = {}
    BY DEF InputIInv, PadsInv
  <2> QED
    BY <1>1, <1>3, <2>2, <2>3
<1>8. FingerInv'
  <2>1. touch'.reported = touch'.down
    BY <1>3 DEF InputIInv, FingerInv
  <2>2. ASSUME NEW m \in Found("touch") \cap Opened
        PROVE  /\ queue'[m] \in Seq(TouchPackets \cup {Dropped})
               /\ ~lost' => FingerAt(queue'[m], touch', finger'[m])
    <3>1. queue[m] \in Seq(TouchPackets \cup {Dropped})
          /\ (~lost => FingerAt(queue[m], touch, finger[m]))
      BY DEF InputIInv, FingerInv
    <3>2. CASE m # n
      BY <1>1, <1>3, <1>5, <3>1, <3>2
    <3>3. CASE m = n
      <4>1. CASE queue'[n] = Append(queue[n], packet)
        <5>1. queue'[m] \in Seq(TouchPackets \cup {Dropped})
          BY <3>1, <3>3, <4>1, AppendProperties
        <5>2. ASSUME ~lost'
              PROVE  FingerAt(queue'[m], touch', finger'[m])
          <6>1. FingerAt(queue[n], touch, finger[n])
            BY <1>1, <3>1, <3>3, <5>2
          <6>2. FingerAt(Append(queue[n], packet), touch, Said(packet))
            BY <3>1, <3>3, <6>1, TouchIsSent
          <6> QED
            BY <1>3, <1>5, <3>3, <4>1, <6>2
        <5> QED
          BY <5>1, <5>2
      <4>2. CASE /\ queue'[n] = SubSeq(queue[n], 1, fetched[n]) \o <<Dropped, packet>>
                 /\ fetched[n] \in 0 .. Len(queue[n]) /\ lost'
        <5>1. queue'[n] \in Seq(TouchPackets \cup {Dropped})
          BY <3>1, <3>3, <4>2, CutIs
        <5> QED
          BY <3>3, <4>2, <5>1
      <4> QED
        BY <1>1, <3>3, <4>1, <4>2
    <3> QED
      BY <3>2, <3>3
  <2> QED
    BY <1>2, <2>1, <2>2 DEF FingerInv
<1> QED
  BY <1>1, <1>6, <1>7, <1>8 DEF InputIInv

\* A key or an axis of a controller changes.
LEMMA HandMoves ==
  ASSUME InputIInv, NEW n \in Found("pad"), NEW packet \in PadPackets,
         nodes' = nodes, alive' = alive, finger' = finger, reading' = reading,
         invented' = invented, left' \in Budgets,
         hand' = [hand EXCEPT ![n] = Applied(hand[n], packet)], Send(n, packet),
         stale' = [stale EXCEPT ![n] = IF packet[1] = "key" THEN @ \ {packet[2]} ELSE @]
  PROVE  InputIInv'
<1>1. /\ OwedInv'
      /\ queue' \in [Opened -> Seq(Packets)]
      /\ \A m \in Opened : Fits(queue'[m], fetched'[m])
      /\ owed' \in [Meanings -> Nat] /\ lost' \in BOOLEAN
      /\ \A m \in Opened \ {n} : queue'[m] = queue[m]
      /\ n \in Opened =>
           \/ queue'[n] = Append(queue[n], packet)
           \/ /\ queue'[n] = SubSeq(queue[n], 1, fetched[n]) \o <<Dropped, packet>>
              /\ fetched[n] \in 0 .. Len(queue[n]) /\ lost'
      /\ lost => lost'
  <2>1. fetched' = fetched
    BY DEF reading
  <2> QED
    BY <2>1, SendKeepsOwed
<1>2. /\ Found("touch")' = Found("touch") /\ Found("pad")' = Found("pad")
      /\ Opened' = Opened
  BY SameDevices
<1>3. /\ touch' = touch /\ pads' = pads /\ reader' = reader /\ commands' = commands
      /\ fetched' = fetched
  BY DEF reading
<1>4. hand \in [Found("pad") -> PadType] /\ nodes \in Seq(NodeKinds) /\ hand[n] \in PadType
      /\ stale \in [Found("pad") -> SUBSET (0 .. 7)]
  BY DEF InputIInv, InputTypes
<1>9. /\ stale' \in [Found("pad") -> SUBSET (0 .. 7)]
      /\ OfKeys(stale'[n]) = OfKeys(stale[n]) \ {About(packet)}
      /\ stale[n] = {} => stale'[n] = {}
      /\ \A m \in Found("pad") \ {n} : stale'[m] = stale[m]
  <2>1. /\ stale' \in [Found("pad") -> SUBSET (0 .. 7)]
        /\ stale'[n] = IF packet[1] = "key" THEN stale[n] \ {packet[2]} ELSE stale[n]
        /\ \A m \in Found("pad") \ {n} : stale'[m] = stale[m]
    BY <1>4
  <2>2. OfKeys(stale'[n]) = OfKeys(stale[n]) \ {About(packet)}
    BY <2>1 DEF OfKeys, About
  <2> QED
    BY <2>1, <2>2
<1>5. hand' \in [Found("pad") -> PadType] /\ hand'[n] = Applied(hand[n], packet)
      /\ \A m \in Found("pad") \ {n} : hand'[m] = hand[m]
  <2>1. Applied(hand[n], packet) \in PadType
    BY <1>4, AppliedChanges
  <2> QED
    BY <1>4, <2>1
<1>6. InputTypes'
  BY <1>1, <1>2, <1>3, <1>5, <1>9 DEF InputIInv, InputTypes
<1>7. PadsInv'
  <2> SUFFICES ASSUME NEW m \in Found("pad") \cap Opened
               PROVE  /\ PadKnown(queue'[m], pads'[m], hand'[m], stale'[m])
                      /\ ~lost' => NothingLost(queue'[m], pads'[m]) /\ stale'[m] = {}
    BY <1>2 DEF PadsInv
  <2>1. /\ PadKnown(queue[m], pads[m], hand[m], stale[m])
        /\ ~lost => NothingLost(queue[m], pads[m]) /\ stale[m] = {}
    BY DEF InputIInv, PadsInv
  <2>2. CASE m # n
    BY <1>1, <1>3, <1>5, <1>9, <2>1, <2>2
  <2>3. CASE m = n
    <3>3. /\ queue[n] \in Seq(Messages)
          /\ LastIsTrue(queue[n], hand[n], OfKeys(stale[n]))
          /\ RestIsKnown(queue[n], pads[n], hand[n], OfKeys(stale[n]))
          /\ pads[n] \in [raw : PadType, state : SUBSET Meanings, dropping : BOOLEAN]
          /\ pads[n].state = gamepad_state(pads[n].raw)
      BY <2>1, <2>3 DEF PadKnown
    <3>4. stale'[n] \in SUBSET (0 .. 7)
      BY <1>9
    <3>1. CASE queue'[n] = Append(queue[n], packet)
      <4>1. /\ Append(queue[n], packet) \in Seq(Messages)
            /\ LastIsTrue(Append(queue[n], packet), hand'[n], OfKeys(stale'[n]))
            /\ RestIsKnown(Append(queue[n], packet), pads[n], hand'[n], OfKeys(stale'[n]))
            /\ NothingLost(queue[n], pads[n]) => NothingLost(Append(queue[n], packet), pads[n])
        <5>1. /\ LastIsTrue(Append(queue[n], packet), Applied(hand[n], packet),
                             OfKeys(stale[n]) \ {About(packet)})
              /\ RestIsKnown(Append(queue[n], packet), pads[n], Applied(hand[n], packet),
                             OfKeys(stale[n]) \ {About(packet)})
              /\ Append(queue[n], packet) \in Seq(Messages)
              /\ NothingLost(queue[n], pads[n]) => NothingLost(Append(queue[n], packet), pads[n])
          <6>1. hand[n] \in PadType
            BY <1>4
          <6>2. RestIsKnown(queue[n], pads[n], hand[n], OfKeys(stale[n]))
                /\ LastIsTrue(queue[n], hand[n], OfKeys(stale[n])) /\ queue[n] \in Seq(Messages)
            BY <3>3
          <6> QED
            BY <6>1, <6>2, SentIsTrue
        <5> QED
          BY <1>5, <1>9, <5>1
      <4>2. PadKnown(queue'[n], pads'[n], hand'[n], stale'[n])
        BY <1>3, <3>1, <3>3, <3>4, <4>1 DEF PadKnown
      <4>3. ~lost' => NothingLost(queue'[n], pads'[n]) /\ stale'[n] = {}
        BY <1>1, <1>3, <1>9, <2>1, <2>3, <3>1, <4>1
      <4> QED
        BY <2>3, <4>2, <4>3
    <3>2. CASE /\ queue'[n] = SubSeq(queue[n], 1, fetched[n]) \o <<Dropped, packet>>
               /\ fetched[n] \in 0 .. Len(queue[n]) /\ lost'
      <4>1. /\ queue'[n] \in Seq(Messages)
            /\ LastIsTrue(queue'[n], hand'[n], OfKeys(stale'[n]))
            /\ RestIsKnown(queue'[n], pads[n], hand'[n], OfKeys(stale'[n]))
        <5> DEFINE cut == SubSeq(queue[n], 1, fetched[n]) \o <<Dropped, packet>>
        <5>1. /\ cut \in Seq(Messages)
              /\ LastIsTrue(cut, Applied(hand[n], packet), OfKeys(stale'[n]))
              /\ RestIsKnown(cut, pads[n], Applied(hand[n], packet), OfKeys(stale'[n]))
          <6>1. hand[n] \in PadType /\ queue[n] \in Seq(Messages)
                /\ fetched[n] \in 0 .. Len(queue[n])
            BY <1>4, <3>2, <3>3
          <6> QED
            BY <6>1, LossIsTrue
        <5>2. queue'[n] = cut
          BY <3>2
        <5> HIDE DEF cut
        <5> QED
          BY <1>5, <5>1, <5>2
      <4>2. PadKnown(queue'[n], pads'[n], hand'[n], stale'[n])
        BY <1>3, <3>3, <3>4, <4>1 DEF PadKnown
      <4> QED
        BY <2>3, <3>2, <4>2
    <3> QED
      BY <1>1, <2>3, <3>1, <3>2
  <2> QED
    BY <2>2, <2>3
<1>8. FingerInv'
  <2>1. touch'.reported = touch'.down
    BY <1>3 DEF InputIInv, FingerInv
  <2>2. ASSUME NEW m \in Found("touch") \cap Opened
        PROVE  /\ queue'[m] \in Seq(TouchPackets \cup {Dropped})
               /\ ~lost' => FingerAt(queue'[m], touch', finger'[m])
    <3>1. queue[m] \in Seq(TouchPackets \cup {Dropped})
          /\ (~lost => FingerAt(queue[m], touch, finger[m]))
      BY DEF InputIInv, FingerInv
    <3>2. m # n
      BY <1>4, OpenedIs
    <3> QED
      BY <1>1, <1>3, <3>1, <3>2
  <2> QED
    BY <1>2, <2>1, <2>2 DEF FingerInv
<1> QED
  BY <1>1, <1>6, <1>7, <1>8 DEF InputIInv

\* Spending leaves a budget.
LEMMA BudgetIs ==
  ASSUME left \in Budgets, NEW what \in {"touches", "presses", "losses"}, Spend(what)
  PROVE  left' \in Budgets
<1>1. left[what] \in Nat
  BY DEF Budgets
<1>2. left[what] - 1 \in Nat
  BY <1>1 DEF Spend
<1> QED
  BY <1>2 DEF Spend, Budgets

\* The fingers, the hands and an unplugged device (Touch, Slide, Lift, Handle,
\* Unplug).
LEMMA WorldKeepsInput ==
  ASSUME InputIInv, World
  PROVE  InputIInv'
<1>1. /\ left \in Budgets /\ left.keys \subseteq 0 .. 7 /\ left.axes \subseteq {"x", "y"}
      /\ finger \in [Found("touch") -> Points \cup {Lifted}]
  BY DEF InputIInv, InputTypes, Budgets
<1>2. CASE Touch
  <2>1. PICK n \in Found("touch") \cap alive, at \in Points :
          /\ finger[n] = Lifted
          /\ Spend("touches")
          /\ finger' = [finger EXCEPT ![n] = at]
          /\ Send(n, <<"down", at[1], at[2]>>)
          /\ UNCHANGED <<nodes, alive, hand, reading, invented, stale>>
    BY <1>2 DEF Touch
  <2> DEFINE packet == <<"down", at[1], at[2]>>
  <2>2. packet \in TouchPackets /\ packet[1] = "down"
    BY DEF TouchPackets
  <2>3. Said(packet) = at
    <3>1. at = <<at[1], at[2]>>
      BY InputAssumption
    <3> QED
      BY <3>1 DEF Said
  <2>4. left' \in Budgets
    BY <1>1, <2>1, BudgetIs
  <2>5. finger' = [finger EXCEPT ![n] = Said(packet)] /\ Send(n, packet)
    BY <2>1, <2>3
  <2> HIDE DEF packet
  <2> QED
    BY <2>1, <2>2, <2>4, <2>5, FingerMoves
<1>3. CASE Slide
  <2>1. PICK n \in Found("touch") \cap alive, at \in Points :
          /\ finger[n] \notin {Lifted, at}
          /\ Spend("touches")
          /\ finger' = [finger EXCEPT ![n] = at]
          /\ Send(n, <<"move", at[1], at[2]>>)
          /\ UNCHANGED <<nodes, alive, hand, reading, invented, stale>>
    BY <1>3 DEF Slide
  <2> DEFINE packet == <<"move", at[1], at[2]>>
  <2>2. packet \in TouchPackets
    BY DEF TouchPackets
  <2>3. Said(packet) = at
    <3>1. at = <<at[1], at[2]>>
      BY InputAssumption
    <3> QED
      BY <3>1 DEF Said
  <2>4. left' \in Budgets
    BY <1>1, <2>1, BudgetIs
  <2>5. finger' = [finger EXCEPT ![n] = Said(packet)] /\ Send(n, packet) /\ finger[n] # Lifted
    BY <2>1, <2>3
  <2> HIDE DEF packet
  <2> QED
    BY <2>1, <2>2, <2>4, <2>5, FingerMoves
<1>4. CASE Lift
  <2>1. PICK n \in Found("touch") \cap alive :
          /\ finger[n] # Lifted
          /\ finger' = [finger EXCEPT ![n] = Lifted]
          /\ Send(n, <<"up", 0, 0>>)
          /\ UNCHANGED <<nodes, alive, hand, reading, invented, stale, left>>
    BY <1>4 DEF Lift
  <2> DEFINE packet == <<"up", 0, 0>>
  <2>2. packet \in TouchPackets /\ packet[1] = "up"
    BY DEF TouchPackets
  <2>3. Said(packet) = Lifted
    BY DEF Said
  <2>4. left' \in Budgets
    BY <1>1, <2>1
  <2>5. finger' = [finger EXCEPT ![n] = Said(packet)] /\ Send(n, packet)
    BY <2>1, <2>3
  <2> HIDE DEF packet
  <2> QED
    BY <2>1, <2>2, <2>4, <2>5, FingerMoves
<1>5. CASE Handle
  <2>1. PICK n \in Found("pad") \cap alive, packet \in PadPackets :
          Moves(n, packet, Applied(hand[n], packet))
    <3>1. PICK n \in Found("pad") \cap alive :
        \/ \E key \in left.keys, value \in 0 .. 1 :
             Moves(n, <<"key", key, value>>, Applied(hand[n], <<"key", key, value>>))
        \/ \E axis \in left.axes, value \in -1 .. 1 :
             Moves(n, <<axis, 0, value>>, Applied(hand[n], <<axis, 0, value>>))
      BY <1>5 DEF Handle
    <3>2. CASE \E key \in left.keys, value \in 0 .. 1 :
             Moves(n, <<"key", key, value>>, Applied(hand[n], <<"key", key, value>>))
      <4>1. PICK key \in left.keys, value \in 0 .. 1 :
             Moves(n, <<"key", key, value>>, Applied(hand[n], <<"key", key, value>>))
        BY <3>2
      <4>2. <<"key", key, value>> \in PadPackets
        BY <1>1 DEF PadPackets
      <4> QED
        BY <4>1, <4>2
    <3>3. CASE \E axis \in left.axes, value \in -1 .. 1 :
             Moves(n, <<axis, 0, value>>, Applied(hand[n], <<axis, 0, value>>))
      <4>1. PICK axis \in left.axes, value \in -1 .. 1 :
             Moves(n, <<axis, 0, value>>, Applied(hand[n], <<axis, 0, value>>))
        BY <3>3
      <4>2. <<axis, 0, value>> \in PadPackets
        BY <1>1 DEF PadPackets
      <4> QED
        BY <4>1, <4>2
    <3> QED
      BY <3>1, <3>2, <3>3
  <2>2. left' \in Budgets
    BY <1>1, <2>1, BudgetIs DEF Moves
  <2> QED
    BY <2>1, <2>2, HandMoves DEF Moves
<1>6. CASE Unplug
  <2>1. PICK n \in alive :
          /\ Spend("losses")
          /\ alive' = alive \ {n}
          /\ lost' = TRUE
          /\ UNCHANGED <<nodes, finger, hand, queue, reading, owed, invented, stale>>
    BY <1>6 DEF Unplug
  <2>2. left' \in Budgets
    BY <1>1, <2>1, BudgetIs
  <2>3. /\ Found("touch")' = Found("touch") /\ Found("pad")' = Found("pad")
        /\ Opened' = Opened /\ \A c : Pending(queue, c)' = Pending(queue', c)
    BY <2>1, SameDevices
  <2>4. /\ touch' = touch /\ pads' = pads /\ reader' = reader /\ commands' = commands
        /\ fetched' = fetched
    BY <2>1 DEF reading
  <2>5. InputTypes'
    BY <2>1, <2>2, <2>3, <2>4 DEF InputIInv, InputTypes
  <2>6. PadsInv' /\ FingerInv' /\ OwedInv'
    BY <2>1, <2>3, <2>4 DEF InputIInv, PadsInv, FingerInv, OwedInv
  <2> QED
    BY <2>5, <2>6 DEF InputIInv
<1> QED
  BY <1>2, <1>3, <1>4, <1>5, <1>6 DEF World

\* What does not touch the devices, and a turn of the loop over the descriptors.
LEMMA LoopKeepsInput ==
  ASSUME InputIInv,
         \/ BeginRead \/ ReadBatch \/ NextDescriptor \/ HandOver \/ UNCHANGED input
  PROVE  InputIInv'
<1>1. UNCHANGED <<devices, touch, pads, owed, invented, lost, stale>>
  BY DEF BeginRead, ReadBatch, NextDescriptor, HandOver, input, reading
<1>2. nodes' = nodes /\ alive' = alive /\ finger' = finger /\ hand' = hand /\ queue' = queue
      /\ left' = left
  BY <1>1 DEF devices
<1>3. /\ Found("touch")' = Found("touch") /\ Found("pad")' = Found("pad")
      /\ Opened' = Opened /\ \A c : Pending(queue, c)' = Pending(queue', c)
  BY <1>2, SameDevices
<1>4. Cardinality(Opened) \in Nat /\ \A n \in Opened : TurnOf(n) \in 0 .. Cardinality(Opened)
  BY OpenedIs DEF InputIInv, InputTypes
<1>5. reader' \in 0 .. Cardinality(Opened) + 1 /\ commands' \subseteq Meanings
  <2>1. reader \in 0 .. Cardinality(Opened) + 1 /\ commands \subseteq Meanings
    BY DEF InputIInv, InputTypes
  <2>2. CASE BeginRead
    BY <1>4, <2>1, <2>2 DEF BeginRead
  <2>3. CASE NextDescriptor
    BY <1>4, <2>1, <2>3 DEF NextDescriptor, Reads
  <2>6. CASE ReadBatch
    BY <2>1, <2>6 DEF ReadBatch
  <2>4. CASE HandOver
    BY <1>4, <2>1, <2>4 DEF HandOver
  <2>5. CASE UNCHANGED input
    BY <2>1, <2>5 DEF input, reading
  <2> QED
    BY <2>2, <2>3, <2>4, <2>5, <2>6
<1>8. fetched' \in [Opened -> 0 .. BatchSize] /\ \A n \in Opened : Fits(queue[n], fetched'[n])
  <2>1. /\ fetched \in [Opened -> 0 .. BatchSize] /\ \A n \in Opened : Fits(queue[n], fetched[n])
        /\ queue \in [Opened -> Seq(Packets)]
    BY DEF InputIInv, InputTypes
  <2>2. CASE ReadBatch
    <3>1. PICK n \in Opened :
            /\ fetched[n] = 0
            /\ fetched' = [fetched EXCEPT ![n] = IF Len(queue[n]) < BatchSize
                                                 THEN Len(queue[n]) ELSE BatchSize]
      BY <2>2 DEF ReadBatch, Reads
    <3>2. Len(queue[n]) \in Nat /\ Fits(queue[n], fetched[n])
      BY <2>1, LenProperties
    <3> DEFINE k == IF Len(queue[n]) < BatchSize THEN Len(queue[n]) ELSE BatchSize
    <3>3. k \in 0 .. BatchSize /\ Fits(queue[n], k)
      <4>1. Len(queue[n]) <= BufferSize + 1
        BY <3>1, <3>2 DEF Fits
      <4>2. BatchSize \in Nat \ {0} /\ BufferSize \in Nat \ {0} /\ Len(queue[n]) \in Nat
        BY <3>2, InputAssumption
      <4>3. \/ k = Len(queue[n]) /\ Len(queue[n]) < BatchSize
            \/ k = BatchSize /\ BatchSize <= Len(queue[n])
        BY <4>2
      <4> HIDE DEF k
      <4>4. k \in 0 .. BatchSize /\ k <= Len(queue[n]) /\ Len(queue[n]) - k <= BufferSize + 1
        BY <4>1, <4>2, <4>3
      <4> QED
        BY <4>4 DEF Fits
    <3> HIDE DEF k
    <3>4. fetched' = [fetched EXCEPT ![n] = k]
      BY <3>1 DEF k
    <3> QED
      BY <2>1, <3>3, <3>4
  <2>3. CASE fetched' = fetched
    BY <2>1, <2>3
  <2> QED
    BY <2>2, <2>3 DEF BeginRead, NextDescriptor, HandOver, input, reading
<1>6. InputTypes'
  BY <1>1, <1>2, <1>3, <1>5, <1>8 DEF InputIInv, InputTypes
<1>7. PadsInv' /\ FingerInv' /\ OwedInv'
  BY <1>1, <1>2, <1>3 DEF InputIInv, PadsInv, FingerInv, OwedInv
<1> QED
  BY <1>6, <1>7 DEF InputIInv

\* There is a packet to handle.
LEMMA DrainsSome ==
  ASSUME InputIInv, NEW n, Drains(n)
  PROVE  /\ n \in Opened /\ queue[n] # <<>>
         /\ fetched[n] - 1 \in 0 .. Len(queue[n]) - 1
<1>1. /\ n \in Opened /\ fetched[n] > 0 /\ fetched[n] \in 0 .. BatchSize
      /\ queue[n] \in Seq(Packets) /\ Fits(queue[n], fetched[n])
  BY DEF Drains, InputIInv, InputTypes
<1>2. Len(queue[n]) \in Nat /\ fetched[n] <= Len(queue[n])
  BY <1>1, LenProperties DEF Fits
<1>3. Len(queue[n]) > 0 /\ fetched[n] - 1 \in 0 .. Len(queue[n]) - 1
  BY <1>1, <1>2, InputAssumption
<1> QED
  BY <1>1, <1>3, EmptySeq

\* Reading the touchscreen (drain_touch).
LEMMA TouchPacketKeepsInput ==
  ASSUME InputIInv, TouchPacket
  PROVE  InputIInv'
<1>1. PICK n \in Found("touch") :
        /\ Drains(n)
        /\ queue' = [queue EXCEPT ![n] = Tail(@)]
        /\ LET packet == Head(queue[n])
           IN  CASE packet[1] = "dropped" ->
                  /\ touch' = [touch EXCEPT !.dropping = TRUE]
                  /\ Collects({})
             [] packet[1] # "dropped" /\ touch.dropping ->
                  /\ touch' = [touch EXCEPT !.dropping = FALSE,
                                            !.reported = touch.down]
                  /\ Collects({})
             [] OTHER -> Reported(Felt(packet))
        /\ UNCHANGED <<nodes, alive, finger, hand, left, pads, reader, lost, stale>>
  BY DEF TouchPacket
<1> DEFINE packet == Head(queue[n])
           r == Tail(queue[n])
<1>2. n \in Opened /\ queue[n] # <<>>
  BY <1>1, DrainsSome
<1>3. /\ nodes \in Seq(NodeKinds) /\ queue \in [Opened -> Seq(Packets)]
      /\ touch \in [at : Points \cup {<<0, 0>>}, down : BOOLEAN, reported : BOOLEAN,
                    dropping : BOOLEAN]
      /\ lost \in BOOLEAN
  BY DEF InputIInv, InputTypes
<1>4. /\ queue[n] \in Seq(TouchPackets \cup {Dropped})
      /\ ~lost => FingerAt(queue[n], touch, finger[n])
      /\ touch.reported = touch.down
  BY <1>2 DEF InputIInv, FingerInv
<1>5. /\ r \in Seq(TouchPackets \cup {Dropped}) /\ Len(r) = Len(queue[n]) - 1
      /\ Len(queue[n]) \in Nat \ {0} /\ packet = queue[n][1]
      /\ packet \in TouchPackets \cup {Dropped}
      /\ \A i \in 1 .. Len(r) : r[i] = queue[n][i + 1]
  BY <1>2, <1>4, TailIs
<1>6. r \in Seq(Packets)
  <2>1. queue[n] \in Seq(Packets)
    BY <1>2, <1>3
  <2> QED
    BY <1>2, <2>1, TailIs
<1>7. queue' = [queue EXCEPT ![n] = r]
  BY <1>1
<1>8. ~lost => ~touch.dropping /\ packet # Dropped
  <2>1. 1 \in 1 .. Len(queue[n])
    BY <1>5
  <2> QED
    BY <1>4, <1>5, <2>1 DEF FingerAt
<1>9. packet[1] = "dropped" <=> packet = Dropped
  BY <1>5, TouchPacketIs, NotPressed
<1>10. \/ packet[1] = "dropped" /\ touch' = [touch EXCEPT !.dropping = TRUE] /\ Collects({})
       \/ packet[1] # "dropped" /\ touch.dropping
            /\ touch' = [touch EXCEPT !.dropping = FALSE, !.reported = touch.down]
            /\ Collects({})
       \/ packet[1] # "dropped" /\ ~touch.dropping /\ Reported(Felt(packet))
  BY <1>1
<1> HIDE DEF packet, r
<1>11. \E cs : /\ cs \subseteq Presses(packet) /\ cs \subseteq Meanings /\ Collects(cs)
               /\ touch' \in [at : Points \cup {<<0, 0>>}, down : BOOLEAN,
                              reported : BOOLEAN, dropping : BOOLEAN]
               /\ touch'.reported = touch'.down
               /\ ~lost => FingerAt(r, touch', finger[n])
  <2>1. CASE packet[1] = "dropped" /\ touch' = [touch EXCEPT !.dropping = TRUE] /\ Collects({})
    <3>1. lost
      BY <1>8, <1>9, <2>1
    <3>2. /\ touch' \in [at : Points \cup {<<0, 0>>}, down : BOOLEAN,
                         reported : BOOLEAN, dropping : BOOLEAN]
          /\ touch'.reported = touch'.down
      BY <1>3, <1>4, <2>1
    <3> QED
      BY <2>1, <3>1, <3>2
  <2>2. CASE packet[1] # "dropped" /\ touch.dropping
               /\ touch' = [touch EXCEPT !.dropping = FALSE, !.reported = touch.down]
               /\ Collects({})
    <3>1. lost
      BY <1>8, <2>2
    <3>2. /\ touch' \in [at : Points \cup {<<0, 0>>}, down : BOOLEAN,
                         reported : BOOLEAN, dropping : BOOLEAN]
          /\ touch'.reported = touch'.down
      BY <1>3, <1>4, <2>2
    <3> QED
      BY <2>2, <3>1, <3>2
  <2>3. CASE packet[1] # "dropped" /\ ~touch.dropping /\ Reported(Felt(packet))
    <3> DEFINE felt == Felt(packet)
               cs == IF felt.down /\ ~touch.reported THEN touch_command(felt.at) ELSE {}
    <3>1. packet \in TouchPackets
      BY <1>5, <2>3, NotPressed
    <3>2. /\ packet[1] \in {"down", "move", "up"}
          /\ packet[1] # "up" => <<packet[2], packet[3]>> \in Points
      BY <3>1, TouchPacketIs
    <3>3. Collects(cs) /\ touch' = [felt EXCEPT !.reported = felt.down]
      BY <2>3 DEF Reported
    <3>4. /\ felt \in [at : Points \cup {<<0, 0>>}, down : BOOLEAN, reported : BOOLEAN,
                       dropping : BOOLEAN]
          /\ packet[1] = "down" => felt.down /\ felt.at = <<packet[2], packet[3]>>
          /\ packet[1] = "move" => felt.down = touch.down /\ felt.at = <<packet[2], packet[3]>>
          /\ packet[1] = "up" => ~felt.down
          /\ felt.dropping = touch.dropping
      <4>1. CASE packet[1] = "down"
        <5>1. felt = [touch EXCEPT !.at = <<packet[2], packet[3]>>, !.down = TRUE]
          BY <4>1 DEF Felt
        <5> HIDE DEF felt
        <5> QED
          BY <1>3, <3>2, <4>1, <5>1
      <4>2. CASE packet[1] = "move"
        <5>1. felt = [touch EXCEPT !.at = <<packet[2], packet[3]>>]
          BY <4>2 DEF Felt
        <5> HIDE DEF felt
        <5> QED
          BY <1>3, <3>2, <4>2, <5>1
      <4>3. CASE packet[1] = "up"
        <5>1. felt = [touch EXCEPT !.down = FALSE]
          BY <4>3 DEF Felt
        <5> HIDE DEF felt
        <5> QED
          BY <1>3, <3>2, <4>3, <5>1
      <4> QED
        BY <3>2, <4>1, <4>2, <4>3
    <3> HIDE DEF felt
    <3>5. cs \subseteq Presses(packet) /\ cs \subseteq Meanings
      <4>1. felt.down /\ ~touch.reported =>
              packet[1] = "down" /\ felt.at = <<packet[2], packet[3]>>
        BY <1>3, <1>4, <3>2, <3>4
      <4>2. packet[1] = "down" => Presses(packet) = touch_command(<<packet[2], packet[3]>>)
        BY DEF Presses
      <4>3. \A at : touch_command(at) \subseteq Meanings
        BY MeaningsAre
      <4> QED
        BY <4>1, <4>2, <4>3
    <3>6. /\ touch' \in [at : Points \cup {<<0, 0>>}, down : BOOLEAN,
                         reported : BOOLEAN, dropping : BOOLEAN]
          /\ touch'.reported = touch'.down /\ touch'.dropping = touch.dropping
          /\ touch'.down = felt.down /\ touch'.at = felt.at
      BY <3>3, <3>4
    <3>7. ASSUME ~lost
          PROVE  FingerAt(r, touch', finger[n])
      <4>1. FingerAt(queue[n], touch, finger[n])
        BY <1>4, <3>7
      <4>2. ~touch'.dropping
        BY <2>3, <3>6
      <4>3. /\ packet[1] = "down" => touch'.down /\ touch'.at = <<packet[2], packet[3]>>
            /\ packet[1] = "move" => touch'.down = touch.down
                                       /\ touch'.at = <<packet[2], packet[3]>>
            /\ packet[1] = "up" => ~touch'.down
        BY <3>4, <3>6
      <4> QED
        BY <1>2, <1>4, <4>1, <4>2, <4>3, TouchIsRead DEF packet, r
    <3> HIDE DEF cs
    <3> QED
      BY <3>3, <3>5, <3>6, <3>7
  <2> QED
    BY <1>10, <2>1, <2>2, <2>3
<1>12. PICK cs : /\ cs \subseteq Presses(packet) /\ cs \subseteq Meanings /\ Collects(cs)
                 /\ touch' \in [at : Points \cup {<<0, 0>>}, down : BOOLEAN,
                                reported : BOOLEAN, dropping : BOOLEAN]
                 /\ touch'.reported = touch'.down
                 /\ ~lost => FingerAt(r, touch', finger[n])
  BY <1>11
<1>13. nodes' = nodes /\ alive' = alive /\ finger' = finger /\ hand' = hand /\ left' = left
       /\ pads' = pads /\ reader' = reader /\ lost' = lost /\ stale' = stale
  BY <1>1
<1>14. /\ OwedInv'
       /\ queue' \in [Opened -> Seq(Packets)]
       /\ fetched' \in [Opened -> 0 .. BatchSize]
       /\ \A m \in Opened : Fits(queue'[m], fetched'[m])
       /\ owed' \in [Meanings -> Nat] /\ invented' = FALSE
       /\ commands' \subseteq Meanings
       /\ queue'[n] = r /\ \A m \in Opened \ {n} : queue'[m] = queue[m]
  <2>2. cs \subseteq Presses(Head(queue[n]))
    BY <1>12 DEF packet
  <2> QED
    BY <1>1, <1>2, <1>5, <1>6, <1>7, <1>12, <1>13, <2>2, ReadKeepsOwed
<1>15. /\ Found("touch")' = Found("touch") /\ Found("pad")' = Found("pad")
       /\ Opened' = Opened
  BY <1>13, SameDevices
<1>16. InputTypes'
  BY <1>12, <1>13, <1>14, <1>15 DEF InputIInv, InputTypes
<1>17. PadsInv'
  <2> SUFFICES ASSUME NEW m \in Found("pad") \cap Opened
               PROVE  /\ PadKnown(queue'[m], pads'[m], hand'[m], stale'[m])
                      /\ ~lost' => NothingLost(queue'[m], pads'[m]) /\ stale'[m] = {}
    BY <1>15 DEF PadsInv
  <2>1. m # n
    BY <1>3, OpenedIs
  <2>2. queue'[m] = queue[m]
    BY <1>14, <2>1
  <2>3. /\ PadKnown(queue[m], pads[m], hand[m], stale[m])
        /\ ~lost => NothingLost(queue[m], pads[m]) /\ stale[m] = {}
    BY DEF InputIInv, PadsInv
  <2> QED
    BY <1>13, <2>2, <2>3
<1>18. FingerInv'
  <2>1. ASSUME NEW m \in Found("touch") \cap Opened
        PROVE  /\ queue'[m] \in Seq(TouchPackets \cup {Dropped})
               /\ ~lost' => FingerAt(queue'[m], touch', finger'[m])
    <3>1. m = n
      BY <1>2, <1>3, OpenedIs
    <3> QED
      BY <1>5, <1>12, <1>13, <1>14, <3>1
  <2> QED
    BY <1>12, <1>15, <2>1 DEF FingerInv
<1> QED
  BY <1>14, <1>16, <1>17, <1>18 DEF InputIInv

\* Reading a controller (drain_gamepad).
LEMMA PadPacketKeepsInput ==
  ASSUME InputIInv, PadPacket
  PROVE  InputIInv'
<1>1. PICK n \in Found("pad") :
    /\ Drains(n)
    /\ LET packet == Head(queue[n])
           rest   == Tail(queue[n])
           read   == fetched[n] - 1
           raw    == Applied(pads[n].raw, packet)
           state  == gamepad_state(raw)
       IN \/ /\ packet[1] = "dropped"
             /\ pads' = [pads EXCEPT ![n].dropping = TRUE]
             /\ queue' = [queue EXCEPT ![n] = rest]
             /\ Collects({}) /\ UNCHANGED stale
          \/ /\ packet[1] # "dropped" /\ pads[n].dropping /\ n \notin alive
             /\ queue' = [queue EXCEPT ![n] = rest]
             /\ Collects({}) /\ UNCHANGED <<pads, stale>>
          \/ /\ packet[1] # "dropped" /\ pads[n].dropping /\ n \in alive
             /\ pads' = [pads EXCEPT ![n] = Resynchronized(n)]
             /\ queue' = [queue EXCEPT ![n] = Unkeyed(rest, read)]
             /\ stale' = [stale EXCEPT ![n] =
                            KeysIn(rest, 1, read)
                              \cap (@ \cup KeysIn(rest, read + 1, Len(rest)))]
             /\ Collects({})
          \/ /\ packet[1] # "dropped" /\ ~pads[n].dropping
             /\ pads' = [pads EXCEPT ![n].raw = raw, ![n].state = state]
             /\ queue' = [queue EXCEPT ![n] = rest]
             /\ Collects(state \ pads[n].state) /\ UNCHANGED stale
    /\ UNCHANGED <<nodes, alive, finger, hand, left, touch, reader, lost>>
  BY DEF PadPacket
<1> DEFINE packet == Head(queue[n])
           rest == Tail(queue[n])
           read == fetched[n] - 1
           raw == Applied(pads[n].raw, packet)
           state == gamepad_state(raw)
           keys == KeysIn(rest, 1, read) \cap (stale[n] \cup KeysIn(rest, read + 1, Len(rest)))
           Following(r) == /\ r \in Seq(Messages) /\ Len(r) = Len(queue[n]) - 1
                           /\ \A i \in 1 .. Len(r) : r[i] = queue[n][i + 1] \/ r[i] = Empty
                           /\ queue' = [queue EXCEPT ![n] = r]
           Others == /\ pads' = [m \in Found("pad") \cap Opened |-> pads'[m]]
                     /\ \A m \in (Found("pad") \cap Opened) \ {n} : pads'[m] = pads[m]
                     /\ stale' \in [Found("pad") -> SUBSET (0 .. 7)]
                     /\ \A m \in Found("pad") \ {n} : stale'[m] = stale[m]
<1>2. n \in Opened /\ queue[n] # <<>> /\ read \in 0 .. Len(queue[n]) - 1
  BY <1>1, DrainsSome
<1>3. /\ nodes \in Seq(NodeKinds) /\ queue \in [Opened -> Seq(Packets)]
      /\ pads = [m \in Found("pad") \cap Opened |-> pads[m]]
      /\ hand[n] \in PadType /\ stale \in [Found("pad") -> SUBSET (0 .. 7)]
  BY DEF InputIInv, InputTypes
<1>4. /\ PadKnown(queue[n], pads[n], hand[n], stale[n])
      /\ ~lost => NothingLost(queue[n], pads[n]) /\ stale[n] = {}
  BY <1>2 DEF InputIInv, PadsInv
<1>5. /\ queue[n] \in Seq(Messages)
      /\ pads[n] \in [raw : PadType, state : SUBSET Meanings, dropping : BOOLEAN]
      /\ LastIsTrue(queue[n], hand[n], OfKeys(stale[n]))
      /\ RestIsKnown(queue[n], pads[n], hand[n], OfKeys(stale[n]))
      /\ pads[n].state = gamepad_state(pads[n].raw) /\ stale[n] \in SUBSET (0 .. 7)
  BY <1>4 DEF PadKnown
<1>6. /\ rest \in Seq(Messages) /\ Len(rest) = Len(queue[n]) - 1
      /\ Len(queue[n]) \in Nat \ {0} /\ packet = queue[n][1] /\ packet \in Messages
      /\ \A i \in 1 .. Len(queue[n]) - 1 : rest[i] = queue[n][i + 1]
      /\ LastIsTrue(rest, hand[n], OfKeys(stale[n]))
  BY <1>2, <1>5, TailIs, TailIsTrue
<1>8. \/ /\ packet[1] = "dropped"
         /\ pads' = [pads EXCEPT ![n].dropping = TRUE]
         /\ queue' = [queue EXCEPT ![n] = rest]
         /\ Collects({}) /\ stale' = stale
      \/ /\ packet[1] # "dropped" /\ pads[n].dropping
         /\ queue' = [queue EXCEPT ![n] = rest]
         /\ Collects({}) /\ pads' = pads /\ stale' = stale
      \/ /\ packet[1] # "dropped" /\ pads[n].dropping
         /\ pads' = [pads EXCEPT ![n] = Resynchronized(n)]
         /\ queue' = [queue EXCEPT ![n] = Unkeyed(rest, read)]
         /\ stale' = [stale EXCEPT ![n] = keys]
         /\ Collects({})
      \/ /\ packet[1] # "dropped" /\ ~pads[n].dropping
         /\ pads' = [pads EXCEPT ![n].raw = raw, ![n].state = state]
         /\ queue' = [queue EXCEPT ![n] = rest]
         /\ Collects(state \ pads[n].state) /\ stale' = stale
  BY <1>1, <1>3
<1>10. packet[1] = "dropped" <=> packet = Dropped
  BY <1>6, PadPacketIs, NotPressed DEF Messages
<1>11. raw = Applied(pads[n].raw, packet) /\ state = gamepad_state(raw)
  OBVIOUS
<1>12. packet # Dropped =>
         \A now : now.raw = raw /\ now.dropping = pads[n].dropping =>
           RestIsKnown(rest, now, hand[n], OfKeys(stale[n]))
  BY <1>2, <1>5, ReadIsKnown
<1>9. ~lost => ~pads[n].dropping /\ packet # Dropped
  <2>1. 1 \in 1 .. Len(queue[n])
    BY <1>6
  <2> QED
    BY <1>4, <1>6, <2>1 DEF NothingLost
<1>21. keys \in SUBSET (0 .. 7)
  <2>1. ASSUME NEW j \in 1 .. read, rest[j][1] = "key"
        PROVE  rest[j][2] \in 0 .. 7
    <3>1. j \in 1 .. Len(rest)
      BY <1>2, <1>6
    <3>2. rest[j] \in Messages
      BY <1>6, <3>1, ElementOfSeq
    <3>3. rest[j] \in PadPackets
      BY <2>1, <3>2, NotPressed DEF Messages
    <3> QED
      BY <2>1, <3>3, PadPacketIs
  <2> QED
    BY <2>1 DEF KeysIn
<1>22. /\ Unkeyed(rest, read) \in Seq(Messages) /\ Len(Unkeyed(rest, read)) = Len(rest)
       /\ \A i \in 1 .. Len(rest) :
            Unkeyed(rest, read)[i] = rest[i] \/ Unkeyed(rest, read)[i] = Empty
  <2>1. rest \in Seq(Messages)
    BY <1>6
  <2> HIDE DEF rest, read
  <2> QED
    BY <2>1, UnkeyedIs
<1>23. LastIsTrue(Unkeyed(rest, read), hand[n], OfKeys(keys))
  <2>1. read \in 0 .. Len(rest)
    BY <1>2, <1>6
  <2> QED
    BY <1>6, <2>1, UnkeyedTrue
<1>24. Following(Unkeyed(rest, read)) <=> queue' = [queue EXCEPT ![n] = Unkeyed(rest, read)]
  BY <1>6, <1>22
<1>25. Following(rest) <=> queue' = [queue EXCEPT ![n] = rest]
  BY <1>6
<1> HIDE DEF packet, rest, read, raw, state, keys, Following
<1>26. ASSUME stale' = stale
       PROVE  /\ stale' \in [Found("pad") -> SUBSET (0 .. 7)] /\ stale'[n] = stale[n]
              /\ \A m \in Found("pad") \ {n} : stale'[m] = stale[m]
  BY <1>3, <1>26
<1>13. \E r, cs : /\ cs \subseteq Presses(packet) /\ cs \subseteq Meanings /\ Collects(cs)
                  /\ Following(r) /\ Others
                  /\ PadKnown(r, pads'[n], hand[n], stale'[n])
                  /\ ~lost => NothingLost(r, pads'[n]) /\ stale'[n] = {}
  <2>1. CASE /\ packet[1] = "dropped"
             /\ pads' = [pads EXCEPT ![n].dropping = TRUE]
             /\ queue' = [queue EXCEPT ![n] = rest]
             /\ Collects({}) /\ stale' = stale
    <3>1. /\ pads'[n] = [pads[n] EXCEPT !.dropping = TRUE]
          /\ pads' = [m \in Found("pad") \cap Opened |-> pads'[m]]
          /\ \A m \in (Found("pad") \cap Opened) \ {n} : pads'[m] = pads[m]
      BY <1>2, <1>3, <2>1
    <3>2. /\ pads'[n] \in [raw : PadType, state : SUBSET Meanings, dropping : BOOLEAN]
          /\ pads'[n].dropping /\ pads'[n].raw = pads[n].raw
          /\ pads'[n].state = pads[n].state
      BY <1>5, <3>1
    <3>3. RestIsKnown(rest, pads'[n], hand[n], OfKeys(stale'[n]))
      BY <3>2 DEF RestIsKnown, NothingLost
    <3>5. PadKnown(rest, pads'[n], hand[n], stale'[n])
      BY <1>5, <1>6, <1>26, <2>1, <3>2, <3>3 DEF PadKnown
    <3>6. lost
      BY <1>9, <1>10, <2>1
    <3>7. Following(rest) /\ Others
      BY <1>25, <1>26, <2>1, <3>1
    <3> HIDE DEF Others
    <3> QED
      BY <2>1, <3>5, <3>6, <3>7
  <2>4. CASE /\ packet[1] # "dropped" /\ pads[n].dropping
             /\ queue' = [queue EXCEPT ![n] = rest]
             /\ Collects({}) /\ pads' = pads /\ stale' = stale
    <3>1. /\ pads' = [m \in Found("pad") \cap Opened |-> pads'[m]] /\ pads'[n] = pads[n]
          /\ \A m \in (Found("pad") \cap Opened) \ {n} : pads'[m] = pads[m]
      BY <1>3, <2>4
    <3>3. RestIsKnown(rest, pads[n], hand[n], OfKeys(stale[n]))
      BY <2>4 DEF RestIsKnown, NothingLost
    <3>5. PadKnown(rest, pads'[n], hand[n], stale'[n])
      BY <1>5, <1>6, <1>26, <2>4, <3>1, <3>3 DEF PadKnown
    <3>6. lost
      BY <1>9, <2>4
    <3>7. Following(rest) /\ Others
      BY <1>25, <1>26, <2>4, <3>1
    <3> HIDE DEF Others
    <3> QED
      BY <2>4, <3>5, <3>6, <3>7
  <2>2. CASE /\ packet[1] # "dropped" /\ pads[n].dropping
             /\ pads' = [pads EXCEPT ![n] = Resynchronized(n)]
             /\ queue' = [queue EXCEPT ![n] = Unkeyed(rest, read)]
             /\ stale' = [stale EXCEPT ![n] = keys]
             /\ Collects({})
    <3> DEFINE r == Unkeyed(rest, read)
    <3>3. /\ pads'[n] = Resynchronized(n)
          /\ pads' = [m \in Found("pad") \cap Opened |-> pads'[m]]
          /\ \A m \in (Found("pad") \cap Opened) \ {n} : pads'[m] = pads[m]
      BY <1>2, <1>3, <2>2
    <3>9. /\ stale' \in [Found("pad") -> SUBSET (0 .. 7)] /\ stale'[n] = keys
          /\ \A m \in Found("pad") \ {n} : stale'[m] = stale[m]
      BY <1>3, <1>21, <2>2
    <3>4. gamepad_state(hand[n]) \subseteq Meanings
      BY <1>3, MeaningsAre
    <3>5. /\ pads'[n] \in [raw : PadType, state : SUBSET Meanings, dropping : BOOLEAN]
          /\ pads'[n].raw = hand[n] /\ pads'[n].state = gamepad_state(hand[n])
      BY <1>3, <3>3, <3>4 DEF Resynchronized
    <3> HIDE DEF r
    <3>6. RestIsKnown(r, pads'[n], hand[n], OfKeys(keys))
      BY <3>5 DEF RestIsKnown
    <3>8. PadKnown(r, pads'[n], hand[n], stale'[n])
      BY <1>21, <1>22, <1>23, <3>5, <3>6, <3>9 DEF PadKnown, r
    <3>7. Following(r) /\ Others
      BY <1>24, <2>2, <3>3, <3>9 DEF r
    <3>10. lost
      BY <1>9, <2>2
    <3> HIDE DEF Others
    <3> QED
      BY <2>2, <3>7, <3>8, <3>10
  <2>3. CASE /\ packet[1] # "dropped" /\ ~pads[n].dropping
             /\ pads' = [pads EXCEPT ![n].raw = raw, ![n].state = state]
             /\ queue' = [queue EXCEPT ![n] = rest]
             /\ Collects(state \ pads[n].state) /\ stale' = stale
    <3>1. packet \in PadPackets \cup {Empty} /\ packet # Dropped
      BY <1>6, <1>10, <2>3 DEF Messages
    <3>2. /\ pads'[n] = [pads[n] EXCEPT !.raw = raw, !.state = state]
          /\ pads' = [m \in Found("pad") \cap Opened |-> pads'[m]]
          /\ \A m \in (Found("pad") \cap Opened) \ {n} : pads'[m] = pads[m]
      BY <1>2, <1>3, <2>3
    <3>3. raw \in PadType
      BY <1>5, <1>11, <3>1, AppliedChanges, NotPressed
    <3>4. state \subseteq Meanings
      BY <1>11, <3>3, MeaningsAre
    <3>5. /\ pads'[n] \in [raw : PadType, state : SUBSET Meanings, dropping : BOOLEAN]
          /\ pads'[n].dropping = pads[n].dropping /\ pads'[n].raw = raw
          /\ pads'[n].state = state
      BY <1>5, <3>2, <3>3, <3>4
    <3>6. RestIsKnown(rest, pads'[n], hand[n], OfKeys(stale[n]))
      BY <1>12, <3>1, <3>5
    <3>8. PadKnown(rest, pads'[n], hand[n], stale'[n])
      BY <1>5, <1>6, <1>11, <1>26, <2>3, <3>5, <3>6 DEF PadKnown
    <3>9. state \ pads[n].state \subseteq Presses(packet)
      BY <1>5, <1>11, <3>1, RisesArePresses
    <3>10. state \ pads[n].state \subseteq Meanings
      BY <3>4
    <3>11. ~lost => NothingLost(rest, pads'[n]) /\ stale'[n] = {}
      <4>1. ASSUME ~lost
            PROVE  NothingLost(rest, pads'[n])
        <5>1. \A i \in 1 .. Len(queue[n]) : queue[n][i] # Dropped
          BY <1>4, <4>1 DEF NothingLost
        <5>2. \A i \in 1 .. Len(rest) : i + 1 \in 1 .. Len(queue[n]) /\ rest[i] = queue[n][i + 1]
          BY <1>6
        <5> QED
          BY <2>3, <3>5, <5>1, <5>2 DEF NothingLost
      <4> QED
        BY <1>4, <1>26, <2>3, <4>1
    <3>7. Following(rest) /\ Others
      BY <1>25, <1>26, <2>3, <3>2
    <3> DEFINE cs == state \ pads[n].state
    <3>12. cs \subseteq Presses(packet) /\ cs \subseteq Meanings /\ Collects(cs)
      BY <2>3, <3>9, <3>10
    <3> HIDE DEF cs, Others
    <3> QED
      BY <3>7, <3>8, <3>11, <3>12
  <2> QED
    BY <1>8, <2>1, <2>2, <2>3, <2>4
<1>14. PICK r, cs : /\ cs \subseteq Presses(packet) /\ cs \subseteq Meanings /\ Collects(cs)
                    /\ Following(r) /\ Others
                    /\ PadKnown(r, pads'[n], hand[n], stale'[n])
                    /\ ~lost => NothingLost(r, pads'[n]) /\ stale'[n] = {}
  BY <1>13
<1>15. nodes' = nodes /\ alive' = alive /\ finger' = finger /\ hand' = hand /\ left' = left
       /\ touch' = touch /\ reader' = reader /\ lost' = lost
  BY <1>1
<1>16. /\ OwedInv'
       /\ queue' \in [Opened -> Seq(Packets)]
       /\ fetched' \in [Opened -> 0 .. BatchSize]
       /\ \A m \in Opened : Fits(queue'[m], fetched'[m])
       /\ owed' \in [Meanings -> Nat] /\ invented' = FALSE
       /\ commands' \subseteq Meanings
       /\ queue'[n] = r /\ \A m \in Opened \ {n} : queue'[m] = queue[m]
  <2>1. cs \subseteq Presses(Head(queue[n]))
    BY <1>14 DEF packet
  <2>2. /\ Len(r) = Len(queue[n]) - 1 /\ queue' = [queue EXCEPT ![n] = r]
        /\ \A i \in 1 .. Len(r) : r[i] = queue[n][i + 1] \/ r[i] = Empty
        /\ r \in Seq(Messages)
    BY <1>14 DEF Following
  <2>3. r \in Seq(Packets)
    BY <2>2 DEF Packets
  <2> QED
    BY <1>1, <1>2, <1>14, <1>15, <2>1, <2>2, <2>3, ReadKeepsOwed
<1>17. /\ Found("touch")' = Found("touch") /\ Found("pad")' = Found("pad")
       /\ Opened' = Opened
  BY <1>15, SameDevices
<1>18. InputTypes'
  BY <1>14, <1>15, <1>16, <1>17 DEF InputIInv, InputTypes
<1>19. PadsInv'
  <2> SUFFICES ASSUME NEW m \in Found("pad") \cap Opened
               PROVE  /\ PadKnown(queue'[m], pads'[m], hand'[m], stale'[m])
                      /\ ~lost' => NothingLost(queue'[m], pads'[m]) /\ stale'[m] = {}
    BY <1>17 DEF PadsInv
  <2>1. CASE m = n
    BY <1>14, <1>15, <1>16, <2>1
  <2>2. CASE m # n
    <3>1. /\ PadKnown(queue[m], pads[m], hand[m], stale[m])
          /\ ~lost => NothingLost(queue[m], pads[m]) /\ stale[m] = {}
      BY DEF InputIInv, PadsInv
    <3> QED
      BY <1>14, <1>15, <1>16, <2>2, <3>1
  <2> QED
    BY <2>1, <2>2
<1>20. FingerInv'
  <2>1. ASSUME NEW m \in Found("touch") \cap Opened
        PROVE  /\ queue'[m] \in Seq(TouchPackets \cup {Dropped})
               /\ ~lost' => FingerAt(queue'[m], touch', finger'[m])
    <3>1. m # n
      BY <1>3, OpenedIs
    <3>2. queue'[m] = queue[m]
      BY <1>16, <3>1
    <3>3. queue[m] \in Seq(TouchPackets \cup {Dropped})
          /\ (~lost => FingerAt(queue[m], touch, finger[m]))
      BY DEF InputIInv, FingerInv
    <3> QED
      BY <1>15, <3>2, <3>3
  <2>2. touch'.reported = touch'.down
    BY <1>15 DEF InputIInv, FingerInv
  <2> QED
    BY <1>17, <2>1, <2>2 DEF FingerInv
<1> QED
  BY <1>16, <1>18, <1>19, <1>20 DEF InputIInv

\* Before anything was touched.
LEMMA InputStart ==
  ASSUME NEW found \in Seq(NodeKinds), NEW budget \in Budgets, InputInit(found, budget)
  PROVE  InputIInv
<1>1. /\ nodes \in Seq(NodeKinds) /\ left \in Budgets /\ alive = DOMAIN nodes
      /\ finger = [n \in Found("touch") |-> Lifted]
      /\ hand = [n \in Found("pad") |-> AtRest]
      /\ queue = [n \in Opened |-> <<>>] /\ fetched = [n \in Opened |-> 0]
      /\ stale = [n \in Found("pad") |-> {}]
      /\ touch = [at |-> <<0, 0>>, down |-> FALSE, reported |-> FALSE, dropping |-> FALSE]
      /\ pads = [n \in Found("pad") \cap Opened |->
                   [raw |-> AtRest, state |-> {}, dropping |-> FALSE]]
      /\ reader = 0 /\ commands = {} /\ invented = FALSE /\ lost = FALSE
      /\ owed = [c \in Meanings |-> 0]
  BY DEF InputInit, Meanings
<1>2. Cardinality(Opened) \in Nat
  BY <1>1, OpenedIs
<1>3. AtRest \in PadType
  BY DEF AtRest, PadType
<1>4. \A n \in Opened : queue[n] = <<>> /\ Len(queue[n]) = 0
  BY <1>1
<1>5. InputTypes
  <2>1. /\ queue \in [Opened -> Seq(Packets)] /\ fetched \in [Opened -> 0 .. BatchSize]
        /\ \A n \in Opened : Fits(queue[n], fetched[n])
        /\ stale \in [Found("pad") -> SUBSET (0 .. 7)]
    <3>1. <<>> \in Seq(Packets)
      OBVIOUS
    <3>2. queue \in [Opened -> Seq(Packets)] /\ fetched \in [Opened -> 0 .. BatchSize]
      BY <1>1, <3>1, InputAssumption
    <3>3. \A n \in Opened : Fits(queue[n], fetched[n])
      BY <1>1, <1>4, InputAssumption DEF Fits
    <3>4. stale \in [Found("pad") -> SUBSET (0 .. 7)]
      BY <1>1
    <3> QED
      BY <3>2, <3>3, <3>4
  <2>2. pads = [n \in Found("pad") \cap Opened |-> pads[n]]
    BY <1>1
  <2>3. reader \in 0 .. Cardinality(Opened) + 1
    BY <1>1, <1>2
  <2> QED
    BY <1>1, <1>3, <2>1, <2>2, <2>3 DEF InputTypes
<1>6. PadsInv
  <2>1. gamepad_state(AtRest) = {}
    BY DEF gamepad_state, AtRest, axis_buttons
  <2> SUFFICES ASSUME NEW n \in Found("pad") \cap Opened
               PROVE  /\ PadKnown(<<>>, [raw |-> AtRest, state |-> {}, dropping |-> FALSE],
                                  AtRest, {})
                      /\ NothingLost(<<>>, [raw |-> AtRest, state |-> {}, dropping |-> FALSE])
    BY <1>1 DEF PadsInv
  <2>2. LastIsTrue(<<>>, AtRest, OfKeys({}))
    BY DEF LastIsTrue
  <2>3. RestIsKnown(<<>>, [raw |-> AtRest, state |-> {}, dropping |-> FALSE], AtRest, OfKeys({}))
    BY DEF RestIsKnown
  <2>4. NothingLost(<<>>, [raw |-> AtRest, state |-> {}, dropping |-> FALSE])
    BY DEF NothingLost
  <2> QED
    BY <1>3, <2>1, <2>2, <2>3, <2>4 DEF PadKnown
<1>7. FingerInv
  <2>1. \A n \in Found("touch") \cap Opened : FingerAt(<<>>, touch, Lifted)
    BY <1>1 DEF FingerAt, Where
  <2> QED
    BY <1>1, <2>1 DEF FingerInv
<1>8. OwedInv
  <2> SUFFICES ASSUME NEW c \in Meanings
               PROVE  Cardinality(Pending(queue, c)) <= owed[c]
    BY DEF OwedInv
  <2>1. Pending(queue, c) = {}
    <3>1. \A e \in Opened \X (1 .. Capacity) : ~(e[2] <= Len(queue[e[1]]))
      BY <1>4, InputAssumption DEF Capacity
    <3> QED
      BY <3>1 DEF Pending
  <2>2. owed[c] = 0
    BY <1>1
  <2>3. Cardinality(Pending(queue, c)) = 0
    BY <2>1, FS_EmptySet
  <2> QED
    BY <2>2, <2>3
<1> QED
  BY <1>5, <1>6, <1>7, <1>8 DEF InputIInv

-----------------------------------------------------------------------------
\* The eight commands, and Back.
LEMMA CommandsAre ==
  Meanings = Commands \cup {"back"} /\ "back" \notin Commands
<1>1. Commands = {"prevFile", "nextFile", "prevTrack", "nextTrack", "pause", "mode",
                  "volumeUp", "volumeDown"}
  <2>1. DOMAIN Order = 1 .. 8
    BY DEF Order
  <2>2. \A i : i \in 1 .. 8 <=> i \in {1, 2, 3, 4, 5, 6, 7, 8}
    OBVIOUS
  <2>3. /\ Order[1] = "prevFile" /\ Order[2] = "nextFile" /\ Order[3] = "prevTrack"
        /\ Order[4] = "nextTrack" /\ Order[5] = "pause" /\ Order[6] = "mode"
        /\ Order[7] = "volumeUp" /\ Order[8] = "volumeDown"
    BY DEF Order
  <2>4. Commands = {Order[i] : i \in {1, 2, 3, 4, 5, 6, 7, 8}}
    BY <2>1, <2>2 DEF Commands, ToSet
  <2> QED
    BY <2>3, <2>4
<1> QED
  BY <1>1 DEF Meanings

\* A volume button stays between silence and the loudest.
LEMMA RequestIs ==
  ASSUME volume_percent \in 0 .. Loudest
  PROVE  RequestedVolume \in 0 .. Loudest
<1>1. Loudest \in Nat /\ VolumeStep \in Nat /\ volume_percent \in Nat
  BY VolumeAssumption
<1>2. ASSUME NEW a \in Int, NEW b \in Int
      PROVE  /\ Min({a, b}) = IF a <= b THEN a ELSE b
             /\ Max({a, b}) = IF a >= b THEN a ELSE b
  <2>1. CASE a < b
    BY <1>2, <2>1 DEF Min, Max
  <2>2. CASE b < a
    BY <1>2, <2>2 DEF Min, Max
  <2>3. CASE a = b
    BY <1>2, <2>3 DEF Min, Max
  <2> QED
    BY <2>1, <2>2, <2>3
<1> DEFINE louder == volume_percent + VolumeStep
           quieter == volume_percent - VolumeStep
<1>5. /\ louder \in Int /\ quieter \in Int /\ Loudest \in Int /\ 0 \in Int
      /\ louder >= 0 /\ quieter <= Loudest
  BY <1>1
<1> HIDE DEF louder, quieter
<1>6. /\ Min({Loudest, louder}) = IF Loudest <= louder THEN Loudest ELSE louder
      /\ Max({0, quieter}) = IF 0 >= quieter THEN 0 ELSE quieter
  BY <1>2, <1>5
<1>3. Min({Loudest, louder}) \in 0 .. Loudest
  BY <1>1, <1>5, <1>6
<1>4. Max({0, quieter}) \in 0 .. Loudest
  BY <1>1, <1>5, <1>6
<1> QED
  BY <1>3, <1>4 DEF RequestedVolume, louder, quieter

ThreadTypes ==
  /\ mode \in Modes
  /\ failed \in BOOLEAN /\ playback_error \in BOOLEAN
  /\ stopping \in BOOLEAN /\ shutdown \in BOOLEAN
  /\ thread \in {"running", "returned"}
  /\ ui \in {"frame", "input", "commands", "draw", "leaving", "joining", "ended"}
  /\ todo \subseteq Commands
  /\ status_line \in {"ADD MUSIC", "CANNOT PLAY FILES", "PLAYBACK ERROR"}
  /\ volume_percent \in 0 .. Loudest /\ device \in 0 .. Loudest
PlayerHalf ==
  GoodDisk /\ GoodPlayer(player) /\ ThreadTypes /\ ErrorIsKept /\ VolumeIsShown
PlayerIInv == PlayerHalf /\ InputIInv

\* The strengthened invariant has the one that is checked.
LEMMA PlayerHolds ==
  ASSUME PlayerIInv
  PROVE  PlayerInv
<1>1. player \in PlayerType /\ {player.file, player.loaded} \subseteq DOMAIN disk \cup {0}
  BY DEF PlayerIInv, PlayerHalf, GoodPlayer
<1>2. PlayerTypeOK
  BY <1>1 DEF PlayerIInv, PlayerHalf, ThreadTypes, PlayerTypeOK, PlayerType
<1>3. OpenIsShown
  BY DEF PlayerIInv, PlayerHalf, GoodPlayer, OpenIsShown
<1>4. InputInv
  BY InputHolds DEF PlayerIInv
<1> QED
  BY <1>2, <1>3, <1>4 DEF PlayerIInv, PlayerHalf, PlayerInv

\* The player starts with what open_first leaves behind.
LEMMA PlayerStarts ==
  ASSUME PlayerInit
  PROVE  PlayerIInv
<1>1. PICK s \in PlayerScenarios :
        /\ disk = s.disk /\ followed = s.followed
        /\ volume_percent \in s.volumes
        /\ InputInit(s.nodes, s.budget)
  BY DEF PlayerInit
<1>2. /\ IsFiniteSet(DOMAIN disk) /\ DOMAIN disk = 0 .. Count - 1
      /\ \A index \in DOMAIN disk : disk[index] \in Files
      /\ s.nodes \in Seq(NodeKinds) /\ s.budget \in Budgets
      /\ volume_percent \in 0 .. Loudest
  BY <1>1, ScenarioAssumption DEF Count
<1>3. GoodDisk
  BY <1>2, FS_CardinalityType DEF GoodDisk, Count
<1>4. InputIInv
  BY <1>1, <1>2, InputStart
<1> DEFINE closed == [file |-> 0, loaded |-> 0, backend |-> "none", track |-> 0,
                      tracks |-> 0, paused |-> FALSE, started |-> FALSE]
<1>5. GoodPlayer(closed) /\ closed.backend = "none"
  BY DEF GoodPlayer, PlayerType, Backends
<1>6. player = OpenFirst(closed).player
      /\ status_line \in {"ADD MUSIC", "CANNOT PLAY FILES"}
  BY DEF PlayerInit
<1> HIDE DEF closed
<1>7. GoodPlayer(player)
  BY <1>3, <1>5, <1>6, FirstIsGood
<1>8. /\ mode = "all" /\ failed = FALSE /\ playback_error = FALSE /\ stopping = FALSE
      /\ thread = "running" /\ ui = "frame" /\ todo = {} /\ shutdown = FALSE
      /\ device \in {0, volume_percent}
  BY DEF PlayerInit
<1>9. ThreadTypes
  <2>1. 0 \in 0 .. Loudest
    BY VolumeAssumption
  <2> QED
    BY <1>2, <1>6, <1>8, <2>1 DEF ThreadTypes, Modes
<1>10. ErrorIsKept /\ VolumeIsShown
  BY <1>8 DEF ErrorIsKept, VolumeIsShown
<1> QED
  BY <1>3, <1>4, <1>7, <1>9, <1>10 DEF PlayerIInv, PlayerHalf

\* A step that leaves the files and what is open alone.
LEMMA QuietStep ==
  ASSUME PlayerHalf, disk' = disk, player' = player, ThreadTypes', ErrorIsKept',
         VolumeIsShown'
  PROVE  PlayerHalf'
  BY DEF PlayerHalf, GoodDisk, GoodPlayer, Count, Playable, Decodes

\* A step that leaves a good player behind.
LEMMA PlayingStep ==
  ASSUME PlayerHalf, disk' = disk, GoodPlayer(player'), ThreadTypes', ErrorIsKept',
         VolumeIsShown'
  PROVE  PlayerHalf'
  BY DEF PlayerHalf, GoodDisk, GoodPlayer, Count, Playable, Decodes

\* The playback thread.
LEMMA PlaybackKeepsPlayer ==
  ASSUME PlayerHalf, TrackEnds \/ GenerateFails \/ ThreadReturns
  PROVE  PlayerHalf'
<1> USE DEF PlayerHalf
<1>1. ASSUME NEW result, GoodResult(result), Settle(result),
             UNCHANGED <<disk, looping, ui, todo, sound>>
      PROVE  PlayerHalf'
  <2>1. result.ok \in BOOLEAN /\ GoodPlayer(result.player)
    BY <1>1 DEF GoodResult
  <2>2. /\ player' = result.player /\ failed' = ~result.ok
        /\ playback_error' = (playback_error \/ ~result.ok) /\ mode' = mode
    BY <1>1 DEF Settle
  <2>3. /\ disk' = disk /\ stopping' = stopping /\ thread' = thread
        /\ status_line' = status_line /\ shutdown' = shutdown /\ ui' = ui /\ todo' = todo
        /\ volume_percent' = volume_percent /\ device' = device
    BY <1>1 DEF looping, sound
  <2>4. ThreadTypes'
    <3>1. failed' \in BOOLEAN /\ playback_error' \in BOOLEAN
      BY <2>1, <2>2 DEF ThreadTypes
    <3> QED
      BY <2>2, <2>3, <3>1 DEF ThreadTypes
  <2>5. ErrorIsKept'
    BY <2>2 DEF ErrorIsKept
  <2>6. VolumeIsShown'
    BY <2>3 DEF VolumeIsShown
  <2>7. GoodPlayer(player')
    BY <2>1, <2>2
  <2> HIDE DEF PlayerHalf
  <2> QED
    BY <2>3, <2>4, <2>5, <2>6, <2>7, PlayingStep
<1>2. CASE TrackEnds
  <2>1. PICK result \in AdvanceAfterEnd(player) : Settle(result)
    BY <1>2 DEF TrackEnds
  <2>2. player.backend # "none" /\ mode \in Modes
    BY <1>2 DEF TrackEnds, Generating, ThreadTypes
  <2>3. GoodResult(result)
    BY <2>2, AdvanceIsGood
  <2> QED
    BY <1>1, <1>2, <2>1, <2>3 DEF TrackEnds
<1>3. CASE GenerateFails
  <2>1. GoodResult(Refused(player))
    BY DEF GoodResult, Refused
  <2> QED
    BY <1>1, <1>3, <2>1 DEF GenerateFails
<1>4. CASE ThreadReturns
  <2>1. UNCHANGED <<disk, playing, stopping, status_line, shutdown, ui, todo, sound>>
        /\ thread' = "returned"
    BY <1>4 DEF ThreadReturns
  <2>2. ThreadTypes' /\ ErrorIsKept' /\ VolumeIsShown'
    BY <2>1 DEF ThreadTypes, ErrorIsKept, VolumeIsShown, playing, sound
  <2> QED
    BY <2>1, <2>2, QuietStep DEF playing
<1> QED
  BY <1>2, <1>3, <1>4

\* A button that moves in the playlist.
LEMMA ButtonKeepsPlayer ==
  ASSUME PlayerHalf, NEW command, NEW result, GoodResult(result), Turn(command),
         Play(result), todo' = todo \ {command}
  PROVE  PlayerHalf'
<1>1. /\ player' = result.player /\ mode' = mode /\ failed' = failed
      /\ playback_error' = playback_error
      /\ volume_percent' = volume_percent /\ device' = device
  BY DEF Play, sound
<1>2. /\ disk' = disk /\ stopping' = stopping /\ thread' = thread
      /\ status_line' = status_line /\ shutdown' = shutdown /\ ui' = ui
  BY DEF Turn, looping
<1>3. ThreadTypes' /\ ErrorIsKept' /\ VolumeIsShown'
  BY <1>1, <1>2 DEF PlayerHalf, ThreadTypes, ErrorIsKept, VolumeIsShown
<1>4. GoodPlayer(player')
  BY <1>1 DEF GoodResult
<1> QED
  BY <1>2, <1>3, <1>4, PlayingStep

\* The commands of a frame.
LEMMA CommandKeepsPlayer ==
  ASSUME PlayerHalf, Command
  PROVE  PlayerHalf'
<1>1. GoodDisk /\ GoodPlayer(player) /\ player \in PlayerType
  BY DEF PlayerHalf, GoodPlayer
<1>2. ASSUME NEW command, NEW direction \in {-1, 1}, FileButton(command, direction)
      PROVE  PlayerHalf'
  <2>1. GoodResult(ChangeFile(player, direction))
    BY <1>1, ChangeFileIsGood
  <2> QED
    BY <1>2, <2>1, ButtonKeepsPlayer DEF FileButton
<1>3. ASSUME NEW command, NEW direction \in {-1, 1}, TrackButton(command, direction)
      PROVE  PlayerHalf'
  <2>1. GoodResult(ChangeTrack(player, direction))
    BY <1>1, ChangeTrackIsGood
  <2> QED
    BY <1>3, <2>1, ButtonKeepsPlayer DEF TrackButton
<1>4. CASE TogglePause
  <2> DEFINE paused == [player EXCEPT !.paused = ~@]
  <2>1. GoodPlayer(paused)
    BY <1>1 DEF GoodPlayer, PlayerType
  <2>2. Turn("pause") /\ Play(Done(paused)) /\ todo' = todo \ {"pause"}
    BY <1>4 DEF TogglePause
  <2> HIDE DEF paused
  <2>3. GoodResult(Done(paused))
    BY <2>1 DEF GoodResult, Done
  <2> QED
    BY <2>2, <2>3, ButtonKeepsPlayer
<1>5. CASE CyclePlaybackMode
  <2>1. mode' \in Modes
    BY <1>5 DEF CyclePlaybackMode, PlayerHalf, ThreadTypes, Modes
  <2>2. /\ player' = player /\ failed' = failed /\ playback_error' = playback_error
        /\ volume_percent' = volume_percent /\ device' = device /\ todo' = todo \ {"mode"}
        /\ disk' = disk /\ stopping' = stopping /\ thread' = thread
        /\ status_line' = status_line /\ shutdown' = shutdown /\ ui' = ui
    BY <1>5 DEF CyclePlaybackMode, Turn, looping, sound
  <2>3. ThreadTypes' /\ ErrorIsKept' /\ VolumeIsShown'
    BY <2>1, <2>2 DEF PlayerHalf, ThreadTypes, ErrorIsKept, VolumeIsShown
  <2> QED
    BY <2>2, <2>3, QuietStep
<1>6. CASE ChangeVolume
  <2>1. /\ player' = player /\ failed' = failed /\ playback_error' = playback_error
        /\ mode' = mode /\ todo' = todo \ {"volumeUp", "volumeDown"}
        /\ disk' = disk /\ stopping' = stopping /\ thread' = thread
        /\ status_line' = status_line /\ shutdown' = shutdown /\ ui' = ui
    BY <1>6 DEF ChangeVolume, Turn, looping, playing
  <2>2. RequestedVolume \in 0 .. Loudest /\ 0 \in 0 .. Loudest
    <3>1. volume_percent \in 0 .. Loudest
      BY DEF PlayerHalf, ThreadTypes
    <3> QED
      BY <3>1, RequestIs, VolumeAssumption
  <2>3. /\ volume_percent' \in 0 .. Loudest /\ device' \in 0 .. Loudest
        /\ device' \in {0, volume_percent'}
    <3>1. CASE UNCHANGED sound
      BY <3>1 DEF sound, PlayerHalf, ThreadTypes, VolumeIsShown
    <3>2. CASE \E opens \in BOOLEAN :
                 /\ device' = IF opens THEN RequestedVolume ELSE 0
                 /\ volume_percent' = IF opens THEN RequestedVolume
                                               ELSE volume_percent
      BY <2>2, <3>2 DEF PlayerHalf, ThreadTypes
    <3> QED
      BY <1>6, <3>1, <3>2 DEF ChangeVolume
  <2>4. ThreadTypes' /\ ErrorIsKept' /\ VolumeIsShown'
    BY <2>1, <2>3 DEF PlayerHalf, ThreadTypes, ErrorIsKept, VolumeIsShown
  <2> QED
    BY <2>1, <2>4, QuietStep
<1> QED
  BY <1>2, <1>3, <1>4, <1>5, <1>6 DEF Command

\* The other steps of the main loop, and a request to shut down.
LEMMA FrameKeepsPlayer ==
  ASSUME PlayerHalf, Frame \/ StartFrame \/ RequestShutdown
  PROVE  PlayerHalf'
<1>1. CASE Command
  BY <1>1, CommandKeepsPlayer
<1>2. CASE TakeError
  <2>1. /\ ui' = "draw" /\ playback_error' = FALSE
        /\ status_line' = IF playback_error THEN "PLAYBACK ERROR" ELSE status_line
        /\ disk' = disk /\ player' = player /\ mode' = mode /\ failed' = failed
        /\ stopping' = stopping /\ thread' = thread /\ shutdown' = shutdown /\ todo' = todo
        /\ volume_percent' = volume_percent /\ device' = device
    BY <1>2 DEF TakeError, sound
  <2>2. ThreadTypes' /\ VolumeIsShown'
    BY <2>1 DEF PlayerHalf, ThreadTypes, VolumeIsShown
  <2>3. ErrorIsKept'
    BY <2>1 DEF PlayerHalf, ErrorIsKept
  <2> QED
    BY <2>1, <2>2, <2>3, QuietStep
<1>3. CASE Join
  <2>1. /\ ui' = "ended" /\ player' = CloseTrack(player) /\ device' = 0
        /\ disk' = disk /\ mode' = mode /\ failed' = failed
        /\ playback_error' = playback_error
        /\ stopping' = stopping /\ thread' = thread /\ status_line' = status_line
        /\ shutdown' = shutdown /\ todo' = todo /\ volume_percent' = volume_percent
    BY <1>3 DEF Join, looping
  <2>2. 0 \in 0 .. Loudest
    BY VolumeAssumption
  <2>3. ThreadTypes' /\ ErrorIsKept' /\ VolumeIsShown'
    BY <2>1, <2>2 DEF PlayerHalf, ThreadTypes, ErrorIsKept, VolumeIsShown
  <2>4. GoodPlayer(player')
    BY <2>1, CloseIsGood DEF PlayerHalf
  <2> QED
    BY <2>1, <2>3, <2>4, PlayingStep
<1>4. CASE NoticeShutdown \/ Draw \/ Stop \/ StartFrame \/ RequestShutdown
  <2>1. /\ ui' \in {"frame", "input", "commands", "draw", "leaving", "joining", "ended"}
        /\ stopping' \in BOOLEAN /\ shutdown' \in BOOLEAN
        /\ disk' = disk /\ player' = player /\ mode' = mode /\ failed' = failed
        /\ playback_error' = playback_error /\ thread' = thread
        /\ status_line' = status_line /\ todo' = todo
        /\ volume_percent' = volume_percent /\ device' = device
    <3>1. CASE NoticeShutdown
      BY <3>1 DEF NoticeShutdown, playing, looping, sound, PlayerHalf, ThreadTypes
    <3>2. CASE Draw
      BY <3>2 DEF Draw, playing, looping, sound, PlayerHalf, ThreadTypes
    <3>3. CASE Stop
      BY <3>3 DEF Stop, playing, looping, sound, PlayerHalf, ThreadTypes
    <3>4. CASE StartFrame
      BY <3>4 DEF StartFrame, playing, looping, sound, PlayerHalf, ThreadTypes
    <3>5. CASE RequestShutdown
      BY <3>5 DEF RequestShutdown, playing, looping, sound, PlayerHalf, ThreadTypes
    <3> QED
      BY <1>4, <3>1, <3>2, <3>3, <3>4, <3>5
  <2>2. ThreadTypes' /\ ErrorIsKept' /\ VolumeIsShown'
    BY <2>1 DEF PlayerHalf, ThreadTypes, ErrorIsKept, VolumeIsShown
  <2> QED
    BY <2>1, <2>2, QuietStep
<1> QED
  BY <1>1, <1>2, <1>3, <1>4 DEF Frame

\* Taking the commands that were read, or any of the eight.
LEMMA TakeKeepsPlayer ==
  ASSUME PlayerHalf, commands \subseteq Meanings, TakeCommands
  PROVE  PlayerHalf'
<1>1. /\ disk' = disk /\ player' = player /\ mode' = mode /\ failed' = failed
      /\ playback_error' = playback_error /\ thread' = thread /\ stopping' = stopping
      /\ status_line' = status_line /\ shutdown' = shutdown
      /\ volume_percent' = volume_percent /\ device' = device
  BY DEF TakeCommands, playing, looping, sound
<1>2. PICK read : /\ read \in IF followed THEN {commands}
                                ELSE {{}} \cup {{c} : c \in Anything}
                  /\ IF "back" \in read
                     THEN ui' = "leaving" /\ UNCHANGED todo
                     ELSE ui' = "commands" /\ todo' = read
  BY DEF TakeCommands
<1>3. read \subseteq Meanings
  <2>1. Anything \subseteq Meanings
    BY CommandsAre, ScenarioAssumption
  <2>2. read = commands \/ read = {} \/ \E c \in Anything : read = {c}
    BY <1>2
  <2> QED
    BY <2>1, <2>2
<1>4. ui' \in {"leaving", "commands"} /\ todo' \subseteq Commands
  <2>1. todo \subseteq Commands
    BY DEF PlayerHalf, ThreadTypes
  <2>2. "back" \notin read => read \subseteq Commands
    BY <1>3, CommandsAre
  <2>3. \/ ui' = "leaving" /\ todo' = todo
        \/ "back" \notin read /\ ui' = "commands" /\ todo' = read
    BY <1>2
  <2> QED
    BY <2>1, <2>2, <2>3
<1>5. ThreadTypes' /\ ErrorIsKept' /\ VolumeIsShown'
  BY <1>1, <1>4 DEF PlayerHalf, ThreadTypes, ErrorIsKept, VolumeIsShown
<1> QED
  BY <1>1, <1>5, QuietStep

\* A step of the devices leaves the player alone.
LEMMA StillPlayer ==
  ASSUME PlayerHalf, UNCHANGED playback
  PROVE  PlayerHalf'
<1>1. UNCHANGED <<disk, playing, looping, ui, todo, sound>>
  BY DEF playback
<1>2. ThreadTypes' /\ ErrorIsKept' /\ VolumeIsShown'
  BY <1>1 DEF PlayerHalf, ThreadTypes, ErrorIsKept, VolumeIsShown, playing, looping, sound
<1> QED
  BY <1>1, <1>2, QuietStep DEF playing

\* Every step keeps the strengthened invariant.
THEOREM PlayerStepKeeps == PlayerIInv /\ [PlayerNext]_player_vars => PlayerIInv'
<1> SUFFICES ASSUME PlayerHalf, InputIInv, [PlayerNext]_player_vars
             PROVE  PlayerHalf' /\ InputIInv'
  BY DEF PlayerIInv
<1>1. commands \subseteq Meanings
  BY DEF InputIInv, InputTypes
<1>2. CASE StartFrame /\ BeginRead
  BY <1>2, FrameKeepsPlayer, LoopKeepsInput
<1>3. CASE Drain /\ UNCHANGED playback
  <2>1. InputIInv'
    BY <1>3, TouchPacketKeepsInput, PadPacketKeepsInput, LoopKeepsInput DEF Drain
  <2> QED
    BY <1>3, <2>1, StillPlayer
<1>4. CASE TakeCommands /\ HandOver
  BY <1>1, <1>4, TakeKeepsPlayer, LoopKeepsInput
<1>5. CASE Frame /\ UNCHANGED input
  BY <1>5, FrameKeepsPlayer, LoopKeepsInput
<1>6. CASE (TrackEnds \/ GenerateFails \/ ThreadReturns) /\ UNCHANGED input
  BY <1>6, PlaybackKeepsPlayer, LoopKeepsInput
<1>7. CASE RequestShutdown /\ UNCHANGED input
  BY <1>7, FrameKeepsPlayer, LoopKeepsInput
<1>8. CASE World /\ UNCHANGED playback
  BY <1>8, WorldKeepsInput, StillPlayer
<1>9. CASE UNCHANGED player_vars
  <2>1. UNCHANGED playback /\ UNCHANGED input
    BY <1>9 DEF player_vars
  <2> QED
    BY <2>1, StillPlayer, LoopKeepsInput
<1>10. \/ StartFrame /\ BeginRead
       \/ Drain /\ UNCHANGED playback
       \/ TakeCommands /\ HandOver
       \/ Frame /\ UNCHANGED input
       \/ (TrackEnds \/ GenerateFails \/ ThreadReturns) /\ UNCHANGED input
       \/ RequestShutdown /\ UNCHANGED input
       \/ World /\ UNCHANGED playback
       \/ UNCHANGED player_vars
  BY DEF PlayerNext, MainLoop, Playback, Returning
<1> QED
  BY <1>2, <1>3, <1>4, <1>5, <1>6, <1>7, <1>8, <1>9, <1>10

\* What the player has open is what it shows, an error waits until it is
\* reported, the device is open at the volume on the screen, and the devices are
\* known as they are: in every state, for any playlist, devices and losses
\* (ChiptunePlayer, ChiptuneAudioLoop, PlayerInput and main).
THEOREM PlayerIsSound == PlayerSpec => []PlayerInv
<1>1. PlayerInit => PlayerIInv
  BY PlayerStarts
<1>2. PlayerIInv /\ [PlayerNext]_player_vars => PlayerIInv'
  BY PlayerStepKeeps
<1>3. PlayerIInv => PlayerInv
  BY PlayerHolds
<1> QED
  BY <1>1, <1>2, <1>3, PTL DEF PlayerSpec

\* A file button lands on the nearest file in its direction that plays, from its
\* first track, however many there are and whichever of them fail (change_file).
THEOREM ButtonsSkipToNearest == PlayerSpec => SkipsToNearest
<1>1. ASSUME PlayerIInv, NEW command, NEW direction \in {-1, 1}, FileButton(command, direction)
      PROVE  Lands(direction)
  <2>1. GoodDisk /\ GoodPlayer(player)
    BY <1>1 DEF PlayerIInv, PlayerHalf
  <2>2. player' = ChangeFile(player, direction).player
    BY <1>1 DEF FileButton, Play
  <2>3. Playable # {} =>
              LET q == ChangeFile(player, direction).player
              IN  /\ q.file \in Playable
                  /\ q.started /\ q.track = 0 /\ ~q.paused
                  /\ \A other \in Playable :
                       Distance(player.file, q.file, direction)
                         <= Distance(player.file, other, direction)
    BY <2>1, ChangeFileIsGood
  <2> QED
    BY <2>2, <2>3 DEF Lands
<1>2. PlayerIInv => /\ FileButton("nextFile", 1) => Lands(1)
                    /\ FileButton("prevFile", -1) => Lands(-1)
  <2>1. 1 \in {-1, 1} /\ -1 \in {-1, 1}
    OBVIOUS
  <2> QED
    BY <1>1, <2>1
<1>3. PlayerIInv /\ [PlayerNext]_player_vars =>
        [/\ FileButton("nextFile", 1) => Lands(1)
         /\ FileButton("prevFile", -1) => Lands(-1)]_player_vars
  BY <1>2
<1>4. PlayerInit => PlayerIInv
  BY PlayerStarts
<1>5. PlayerIInv /\ [PlayerNext]_player_vars => PlayerIInv'
  BY PlayerStepKeeps
<1> QED
  BY <1>3, <1>4, <1>5, PTL DEF PlayerSpec, SkipsToNearest
=============================================================================
