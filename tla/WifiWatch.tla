------------------------------ MODULE WifiWatch ------------------------------
(***************************************************************************)
(* deck-wifi-watch, the service that looks at the connection and runs the  *)
(* selector.  procd starts it again when it is restarted or dies, and a    *)
(* selector that is running at that moment carries on by itself with the   *)
(* lock; a power failure ends both, and only the files remain, of which    *)
(* none is synced by any of the scripts.  Meanwhile the dashboard's helper *)
(* may save a profile.                                                     *)
(***************************************************************************)
EXTENDS WifiSelect

CONSTANT DisconnectThreshold

ASSUME WatchAssumption == DisconnectThreshold \in Nat \ {0}

VARIABLES
  watch, misses, recorded,
  recording,   \* a selector with --record-success has the lock
  restarts,    \* bound: restarts of the watcher
  cuts,        \* bound: power failures
  stored       \* the files as the kernel last wrote them back

watcher == <<watch, misses, recorded, recording>>
surroundings == <<restarts, cuts, stored>>
vars == <<wifi, profiles, faults, watcher, surroundings>>

FileState == [dir |-> dir, preferred |-> preferred, lock |-> lock, config |-> config]

LockTaken == Running \/ recording

Init ==
  \E s \in Scenarios :
    /\ InitWifi(s)
    /\ watch = "boot" /\ misses = 0 /\ recorded = FALSE /\ recording = FALSE
    /\ restarts = s.restarts /\ cuts = s.cuts /\ stored = FileState

\* The boot grace is over.
BootDone ==
  /\ watch = "boot" /\ watch' = "poll"
  /\ UNCHANGED <<wifi, profiles, faults, misses, recorded, recording, surroundings>>

PollUp ==
  /\ watch = "poll" /\ Ready
  /\ misses' = 0 /\ watch' = IF recorded THEN "rest" ELSE "record"
  /\ status' = IF recorded THEN "CONNECTED" ELSE status
  /\ UNCHANGED <<radio, profiles, faults, config, fresh, sel, draft, proven, noticed,
                 recorded, recording, surroundings>>

\* The selector with --record-success: it exits with 0 when another one
\* holds the lock, with an error when the connection has gone.
Record ==
  /\ watch = "record"
  /\ IF Ready /\ ~LockTaken
     THEN /\ recording' = TRUE /\ ReadsPreferred /\ watch' = "recording"
          /\ UNCHANGED <<recorded, status>>
     ELSE /\ recorded' = LockTaken /\ watch' = "rest" /\ status' = "CONNECTED"
          /\ UNCHANGED <<recording, draft>>
  /\ UNCHANGED <<radio, profiles, faults, config, fresh, sel, proven, noticed, misses,
                 surroundings>>

\* It ends, and the watcher goes on if it is still the one that waits for it.
RecordEnds ==
  /\ recording /\ recording' = FALSE
  /\ RecordSuccess
  /\ IF watch = "recording"
     THEN /\ watch' = "rest" /\ status' = "CONNECTED"
          /\ recorded' = (faults' = faults)
     ELSE UNCHANGED <<watch, status, recorded>>
  /\ UNCHANGED <<radio, others, config, fresh, sel, draft, proven, noticed, misses,
                 surroundings>>

\* Complete health is missing; at the threshold the selector is run, and a
\* second one finds the lock taken and returns at once.
PollDown ==
  /\ watch = "poll" /\ ~Ready
  /\ recorded' = FALSE /\ status' = "DISCONNECTED"
  /\ IF misses + 1 < DisconnectThreshold
     THEN misses' = misses + 1 /\ watch' = "rest" /\ UNCHANGED sel
     ELSE IF LockTaken THEN misses' = 0 /\ watch' = "rest" /\ UNCHANGED sel
     ELSE misses' = misses + 1 /\ watch' = "select" /\ Launch
  /\ UNCHANGED <<radio, profiles, faults, config, fresh, draft, proven, noticed,
                 recording, surroundings>>

SelectorReturned ==
  /\ watch = "select" /\ ~Running
  /\ watch' = "rest" /\ misses' = 0
  /\ UNCHANGED <<wifi, profiles, faults, recorded, recording, surroundings>>

Rest ==
  /\ watch = "rest" /\ watch' = "poll"
  /\ UNCHANGED <<wifi, profiles, faults, misses, recorded, recording, surroundings>>

Watcher ==
  BootDone \/ PollUp \/ Record \/ PollDown \/ SelectorReturned \/ Rest

\* The watcher begins with its boot grace.
Begin == watch' = "boot" /\ misses' = 0 /\ recorded' = FALSE /\ status' = "BOOT"

\* procd ends the watcher's shell and starts it again.
RestartWatch ==
  /\ restarts > 0 /\ restarts' = restarts - 1
  /\ Begin
  /\ UNCHANGED <<radio, profiles, faults, config, fresh, sel, draft, proven, noticed,
                 recording, cuts, stored>>

\* The kernel writes back what has changed, while a power failure is left that
\* could tell.
WriteBack ==
  /\ cuts > 0 /\ stored' = FileState
  /\ UNCHANGED <<wifi, profiles, faults, watcher, restarts, cuts>>

\* The power fails, and the boot loads the configuration that is left.
Reboot ==
  /\ cuts > 0 /\ cuts' = cuts - 1
  /\ Begin
  /\ \/ config' \in {config, stored.config}
     \/ config # stored.config /\ config' = [config EXCEPT !.key = "empty"]
  /\ sel' = Idle /\ live' = config' /\ link' = "down" /\ kick' = FALSE
  /\ unloaded' = FALSE
  /\ fresh' = TRUE /\ noticed' = FALSE /\ recording' = FALSE
  /\ HelperIsCut(stored) /\ stored' = FileState'
  /\ UNCHANGED <<up, flips, faults, draft, proven, restarts>>

\* A profile is entered in the dashboard, and the helper stores it.
Helper == HelperStep \/ \E n \in Nets : SaveProfile(n)

Next ==
  \/ (Radio \/ Selector) /\ UNCHANGED <<watcher, surroundings>>
  \/ Helper /\ UNCHANGED <<wifi, watcher, surroundings>>
  \/ Watcher \/ RecordEnds \/ RestartWatch \/ WriteBack \/ Reboot

Spec == Init /\ [][Next]_vars

\* The shells keep running, and a network in range is joined in the end.  There
\* is at most one selector, with either task; nothing waits for the helper.
Fairness ==
  /\ WF_vars((Selector /\ UNCHANGED <<watcher, surroundings>>) \/ RecordEnds)
  /\ WF_vars(Watcher)
  /\ WF_vars((Associate \/ Lease) /\ UNCHANGED <<watcher, surroundings>>)
FairSpec == Spec /\ Fairness

----------------------------------------------------------------------------
(* Properties *)

Keys == {"imported", "entered", "empty"}
Configs == [net : Nets, key : Keys]

TypeOK ==
  /\ up \subseteq Nets /\ live \in Configs /\ link \in {"down", "assoc", "ready"}
  /\ kick \in BOOLEAN /\ {flips, faults, saves, restarts, cuts} \subseteq Nat
  /\ config \in Configs /\ proven \subseteq Configs
  /\ \A list \in {preferred, draft, helper.draft} :
       list \in Seq(Nets) /\ Len(list) <= PreferredLimit
  /\ DOMAIN dir \subseteq DOMAIN FileOrder /\ Range(dir) \subseteq Keys
  /\ DOMAIN stored.dir \subseteq DOMAIN FileOrder /\ stored.config \in Configs
  /\ helper.pc \in {"none", "lock", "store", "remove", "publish"}
  /\ helper.net \in Nets /\ helper.spellings \subseteq DOMAIN dir
  /\ {lock, fresh, noticed, recorded, recording, unloaded} \subseteq BOOLEAN
  /\ status \in {"BOOT", "BUSY", "CONNECTED", "DISCONNECTED", "FAILED",
                 "RESTORE FAILED"}
  /\ sel.pc \in {"idle", "start", "scan", "probe", "retry", "build", "confirm", "try",
                 "apply", "reload", "wait", "restore", "recovered", "publish"}
  /\ sel.seen \subseteq Nets /\ sel.cand \in Seq(DOMAIN FileOrder)
  /\ sel.round \in 0 .. ScanRounds /\ sel.retry \in 0 .. ScanRetries - 1
  /\ sel.pass \in 0 .. Passes + 1 /\ sel.att \in 1 .. Len(FileOrder) + 1
  /\ sel.elapsed \in 0 .. IF RollbackGrace > SwitchTimeout
                          THEN RollbackGrace ELSE SwitchTimeout
  /\ watch \in {"boot", "poll", "record", "recording", "select", "rest"}
  /\ misses \in 0 .. DisconnectThreshold

\* build_candidate_list: whatever the scans missed, every network saved by then,
\* under whichever of its names a power failure has left a passphrase,
\* is tried, none of them twice in a pass, and the configured one first.
EverySavedIsTried ==
  LET nets == [i \in DOMAIN sel.cand |-> FileOrder[sel.cand[i]].net]
  IN sel.cand # <<>> => /\ ToSet(nets) = sel.listed /\ IsInjective(nets)
                        /\ sel.from.net \in sel.listed => nets[1] = sel.from.net

\* Two writers of the preferred file never make it list an SSID twice.
NonePreferredTwice == IsInjective(preferred)

\* One selector has the lock, the one that runs or the one that records.
OneSelector == ~(Running /\ recording)

\* The lists and profiles that selector, watcher and helper share fit together.
WifiInv ==
  /\ TypeOK /\ EverySavedIsTried /\ NonePreferredTwice /\ OneSelector
  /\ ProfilesInv

\* A configuration is committed straight after a health check that failed: one
\* that has come back since may be cut, one that was there before is not.  The
\* restoration has no check of its own (deck-wifi-select:614-616), in spite of
\* the "immediately before every commit" of ops/deck-wifi/README.md:29-31; the
\* last one of the wait before it serves, and when the last candidate could not
\* be applied there was none: a connection that is back by then is cut.
CommitsAreChecked ==
  [][sel.pc \in {"apply", "restore"} /\ sel'.pc = "reload"
       => ~noticed \/ (sel.pc = "restore" /\ sel.skipped)]_vars

\* A run that ends leaves either the configuration it found or one that has
\* reached complete health, unless the restoration itself is reported failed or
\* the power fails.  When the script has ignored that `wifi reload` failed, a run
\* reports the connection of what was loaded before, which has been complete, and
\* keeps the configuration it committed last, which may never have been tried.
RunIsAtomic ==
  [][sel.pc # "idle" /\ sel'.pc = "idle" /\ ~Reboot
       => \/ config' \in {sel.from} \cup proven
          \/ status' = "CONNECTED" /\ unloaded' /\ live' \in proven
          \/ status' = "RESTORE FAILED"]_vars

\* Whichever check meets the returned connection, a run that reports it has
\* restarted the WireGuard service for it (mark_recovered).
RunRefreshes ==
  [][sel.pc \notin {"idle", "start"} /\ sel'.pc = "idle" /\ status' = "CONNECTED"
       => (Ready => fresh') \/ Reboot]_vars

\* Runs of the selector neither break what they have seen to work nor leave behind
\* what does not, under faults, lost connections and restarts of the watcher, but
\* for what these three except.
RunsAreSound == CommitsAreChecked /\ RunIsAtomic /\ RunRefreshes

\* A saved network that stays in range and whose passphrase is right is joined
\* for good in the end, with faults, power failures, lost connections and profiles
\* saved on the way: the one just entered, too.  Only an /etc/config/wireless that
\* a power failure has emptied is never written again (deck-wifi-select:488-491).
Joinable(n) ==
  /\ n \in up /\ n \in Saved /\ Works(Config(n, dir[FileOf(n)]))
  /\ HasStation(config)
Recovers == (\E n \in Nets : <>[]Joinable(n)) => <>[]Ready

\* The dashboard's state line agrees with a connection that stays up.
StatusFollows == <>[]Ready => <>[](status = "CONNECTED")

\* The Deck gets back on line, and says so.
RecoversAndTells == Recovers /\ StatusFollows
=============================================================================
