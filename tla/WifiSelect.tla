----------------------------- MODULE WifiSelect -----------------------------
(***************************************************************************)
(* One run of deck-wifi-select: look for a saved network after the Deck    *)
(* has lost its connection, try the saved profiles one after the other     *)
(* and put the previous configuration back when none of them works.        *)
(*                                                                         *)
(* The radio and netifd are the environment.  Networks come into and go    *)
(* out of range, the station associates with the network it was last       *)
(* loaded with and then obtains an address and a default route; the        *)
(* selector sees that only through network_ready and is_associated.        *)
(*                                                                         *)
(* Every saved profile is taken to be enabled and to hold a well-formed    *)
(* passphrase, which is the wrong one when the network has changed its own *)
(* since the import.                                                       *)
(***************************************************************************)
EXTENDS WifiProfiles

CONSTANTS
  Home,               \* the SSID configured at first
  Changed,            \* networks that have changed their passphrase
  Sticky,             \* networks whose DHCP only answers a renewed request
  Prompt,             \* networks in range come up within the bounded windows
  ScanRounds, ScanRetries, Passes,
  AssociationTimeout, RecoveryAfter, SwitchTimeout, RollbackGrace,
  Scenarios           \* bounds: the profiles imported, whether an earlier power
                      \* failure has left the lock, and how often what happens

ASSUME WifiAssumption ==
  /\ Home \in Nets \ Changed /\ Changed \subseteq Nets /\ Sticky \subseteq Nets
  /\ Prompt \in BOOLEAN
  /\ {ScanRounds, ScanRetries, Passes} \subseteq Nat \ {0}
  /\ {AssociationTimeout, RecoveryAfter, SwitchTimeout, RollbackGrace}
       \subseteq Nat
  /\ \A s \in Scenarios :
       /\ s.imported \subseteq DOMAIN FileOrder /\ s.locked \in BOOLEAN
       /\ {s.flips, s.faults, s.saves, s.restarts, s.cuts} \subseteq Nat

VARIABLES
  up,         \* networks in range
  live,       \* the configuration netifd was last loaded with
  link,       \* "down", "assoc" or "ready": address and route are there
  kick,       \* the address has been asked for again since the last loss
  flips,      \* bound: changes of the radio environment
  unloaded,   \* history: the last `wifi reload` failed
  config,     \* SSID and key in /etc/config/wireless; the key is "empty" when the
              \* file is, and holds no station
  fresh,      \* WireGuard has been restarted since the uplink was last lost
  status,     \* /var/run/deck-wifi/status, as far as it matters
  sel,        \* the selector process
  draft,      \* the preferred file that a selector is about to publish
  proven,     \* history: configurations that have reached complete health
  noticed     \* history: the selector has met the present healthy connection

radio == <<up, live, link, kick, flips, unloaded>>
\* What the helper does not share with the selector.
others == <<dir, helper, lock, saves, entered, known>>
selector == <<config, fresh, status, sel, draft, proven, noticed>>
wifi == <<radio, selector>>

Ready == link = "ready"
Config(net, key) == [net |-> net, key |-> key]
HasStation(c) == c.key # "empty"
Works(c) == c.key = "entered" \/ (c.key = "imported" /\ c.net \notin Changed)
InReach == live.net \in up /\ Works(live)

\* The selector's shell variables; from.net is current_ssid.  Two of them are
\* history: the networks saved when the candidates were listed, and whether the
\* last candidate could not be applied.
AtHome == Config(Home, "imported")
Idle == [pc |-> "idle", from |-> AtHome, round |-> 0, retry |-> 0, seen |-> {},
         cand |-> <<>>, pass |-> 0, att |-> 1, elapsed |-> 0,
         assocSeen |-> FALSE, renewed |-> FALSE, backup |-> AtHome, listed |-> {},
         skipped |-> FALSE]

Running == sel.pc # "idle"

InitWifi(s) ==
  /\ up \in {U \in SUBSET Nets : Home \in U} /\ live = AtHome /\ link = "ready"
  /\ kick = FALSE /\ flips = s.flips /\ faults = s.faults /\ saves = s.saves
  /\ unloaded = FALSE
  /\ ProfilesInit(s.imported, Home, s.locked)
  /\ config = AtHome /\ fresh = TRUE /\ status = "BOOT" /\ draft = <<>>
  /\ sel = Idle /\ proven = {AtHome} /\ noticed = FALSE

----------------------------------------------------------------------------
(* The radio and netifd *)

Associate ==
  /\ link = "down" /\ InReach
  /\ link' = "assoc"
  /\ UNCHANGED <<up, live, kick, flips, unloaded, profiles, faults, selector>>

Leases == link = "assoc" /\ InReach /\ (live.net \in Sticky => kick)

Lease ==
  /\ Leases
  /\ link' = "ready" /\ proven' = proven \cup {live} /\ noticed' = FALSE
  /\ UNCHANGED <<up, live, kick, flips, unloaded, profiles, faults, config, fresh,
                 status, sel, draft>>

\* A network comes into range or leaves it, or the live one stops routing.
Flip ==
  /\ flips > 0 /\ flips' = flips - 1
  /\ \/ \E n \in Nets \ up : /\ up' = up \cup {n}
                             /\ UNCHANGED <<link, kick, fresh>>
     \/ \E n \in up : /\ up' = up \ {n}
                      /\ IF n = live.net
                         THEN /\ link' = "down" /\ kick' = FALSE
                              /\ fresh' = (fresh /\ ~Ready)
                         ELSE UNCHANGED <<link, kick, fresh>>
     \/ /\ Ready
        /\ link' = "assoc" /\ kick' = FALSE /\ fresh' = FALSE
        /\ UNCHANGED up
  /\ UNCHANGED <<live, unloaded, profiles, faults, config, status, sel, draft, proven,
                 noticed>>

Radio == Associate \/ Lease \/ Flip

----------------------------------------------------------------------------
(* Helpers of the selector *)

\* A step of the selector; each of them may look at the connection.
Go(changes) == sel' = changes /\ noticed' = Ready
Pc(label) == [sel EXCEPT !.pc = label]
Exit(s) == Go(Idle) /\ status' = s

\* record_success in two parts: what the preferred file holds is read, and
\* unless the configured SSID is first in it, a file that puts it there is
\* renamed over it.
ReadsPreferred ==
  draft' = IF preferred # <<>> /\ Head(preferred) = config.net THEN <<>>
           ELSE Ahead(config.net)
RecordSuccess ==
  \/ preferred' = (IF draft = <<>> THEN preferred ELSE draft) /\ UNCHANGED faults
  \/ draft # <<>> /\ Fault /\ UNCHANGED preferred

\* Where an element is in a list.
PlaceIn(list, x) == CHOOSE i \in DOMAIN list : list[i] = x

\* The order candidates are tried in: the SSID of the configuration, those
\* preferred, the others that the scan has found, and the rest of the saved
\* ones in the order of their files, for a scan may miss a network.
RankOf(ranking, n) ==
  CASE n = sel.from.net -> 0
    [] n # sel.from.net /\ n \in ToSet(preferred) -> PlaceIn(preferred, n)
    [] n # sel.from.net /\ n \in ToSet(ranking) \ ToSet(preferred) ->
         Len(preferred) + PlaceIn(ranking, n)
    [] OTHER -> Len(preferred) + Len(ranking) + FileOf(n)

InOrder(ranking, nets) ==
  LET order == Sorted(nets, [n \in nets |-> RankOf(ranking, n)])
  IN [k \in DOMAIN order |-> FileOf(order[k])]

\* The saved networks that the scans have found and whose profile they lead to,
\* which is the first name or none.
Findable == {n \in sel.seen \cap Saved : \A i \in FilesOf(n) : FileOf(n) <= i}

\* Mutant: only the networks the scan has seen are candidates.
CandidatesSeen(ranking) == InOrder(ranking, ToSet(ranking))

Candidates(ranking) == InOrder(ranking, Saved)

\* The state after one more round of scanning.
NextRound(s) ==
  [s EXCEPT !.round = @ + 1, !.retry = 0,
            !.pc = IF s.round + 1 < ScanRounds THEN "scan" ELSE "build"]

\* Mutant: the last candidate's failure ends the run.
NextCandidateEnds ==
  CASE sel.att < Len(sel.cand) -> [Pc("try") EXCEPT !.att = @ + 1]
    [] sel.att >= Len(sel.cand) /\ sel.pass < Passes
         -> [Pc("try") EXCEPT !.att = 1, !.pass = @ + 1]
    [] OTHER -> Idle

\* After a candidate that did not work.
NextCandidate ==
  CASE sel.att < Len(sel.cand) -> [Pc("try") EXCEPT !.att = @ + 1]
    [] sel.att >= Len(sel.cand) /\ sel.pass < Passes
         -> [Pc("try") EXCEPT !.att = 1, !.pass = @ + 1]
    [] OTHER -> [Pc("restore") EXCEPT !.pass = @ + 1]

RollingBack == sel.pass > Passes
Limit == IF RollingBack THEN RollbackGrace ELSE SwitchTimeout

\* With Prompt, an interval of the waiting loop is long enough for the radio's
\* next step: nothing is about to happen to the station.
Settled == ~Prompt \/ sel.elapsed = 0
              \/ ~(Leases \/ (link = "down" /\ InReach))

----------------------------------------------------------------------------
(* The selector *)

\* Entered with the lock taken, from the watcher.
Launch == sel' = [Idle EXCEPT !.pc = "start", !.from = config]

FirstCheck ==
  /\ sel.pc = "start"
  /\ CASE Ready -> Exit("CONNECTED")
       [] ~Ready /\ ~HasStation(config) -> Exit("FAILED")
       [] ~Ready /\ HasStation(config) -> Go(Pc("scan")) /\ status' = "BUSY"
  /\ UNCHANGED <<radio, profiles, faults, config, fresh, draft, proven>>

\* network_ready before a round, before a retry, before the backup and
\* before every candidate.
Check(at, next) ==
  /\ sel.pc = at
  /\ Go(Pc(IF Ready THEN "recovered" ELSE next))
  /\ status' = IF Ready THEN status ELSE "BUSY"
  /\ UNCHANGED <<radio, profiles, faults, config, fresh, draft, proven>>

ScanCheck == Check("scan", "probe")
RetryCheck == Check("retry", "probe")
TryCheck == Check("try", "apply")

\* scan_once; the driver may be busy, and a scan may miss a network.
Scan ==
  /\ sel.pc = "probe"
  /\ \/ \E s \in SUBSET up \ {{}} :
          Go(NextRound([sel EXCEPT !.seen = @ \cup s]))
     \/ Go(IF sel.retry + 1 < ScanRetries
           THEN [Pc("retry") EXCEPT !.retry = @ + 1] ELSE NextRound(sel))
  /\ UNCHANGED <<radio, profiles, faults, config, fresh, status, draft, proven>>

Build ==
  /\ sel.pc = "build"
  /\ IF Saved = {} THEN Exit("FAILED")
     ELSE /\ \E ranking \in SetToSeqs(Findable) :
               Go([Pc("confirm") EXCEPT !.cand = Candidates(ranking),
                                        !.listed = Saved, !.seen = {}, !.round = 0])
          /\ status' = status
  /\ UNCHANGED <<radio, profiles, faults, config, fresh, draft, proven>>

\* The last check before the configuration is saved, and the backup.
Confirm ==
  /\ sel.pc = "confirm"
  /\ \/ /\ Go(IF Ready THEN Pc("recovered")
              ELSE [Pc("try") EXCEPT !.backup = config, !.pass = 1])
        /\ UNCHANGED <<status, faults>>
     \/ ~Ready /\ Fault /\ Exit("FAILED")
  /\ UNCHANGED <<radio, profiles, config, fresh, draft, proven>>

Waiting(s) == [s EXCEPT !.pc = "wait", !.elapsed = 0, !.assocSeen = FALSE,
                        !.renewed = FALSE]

\* apply_profile up to the rename.  The candidate's file may be gone, as one of
\* the names a helper has removed, and any command may fail; then the
\* configuration stays as it is and the candidate is given up.
Apply ==
  /\ sel.pc = "apply"
  /\ LET file == sel.cand[sel.att]
     IN \/ /\ Usable(file)
           /\ config' = Config(FileOrder[file].net, dir[file])
           /\ Go([Pc("reload") EXCEPT !.skipped = FALSE])
           /\ UNCHANGED faults
        \/ /\ IF Usable(file) THEN Fault ELSE UNCHANGED faults
           /\ Go([NextCandidate EXCEPT !.skipped = TRUE]) /\ UNCHANGED config
  /\ UNCHANGED <<radio, profiles, fresh, status, draft, proven>>

\* restore_wireless_config up to the rename.
Restore ==
  /\ sel.pc = "restore"
  /\ \/ /\ config' = sel.backup /\ Go(Pc("reload")) /\ status' = "BUSY"
        /\ UNCHANGED faults
     \/ Fault /\ Exit("RESTORE FAILED") /\ UNCHANGED config
  /\ UNCHANGED <<radio, profiles, fresh, draft, proven>>

\* wifi reload, which leaves a station alone whose section has not changed.  That
\* it fails is ignored: the station stays loaded with what it was.
Reload ==
  /\ sel.pc = "reload"
  /\ Go(Waiting(sel))
  /\ \/ /\ live' = config /\ unloaded' = FALSE
        /\ \/ link' = "down" /\ kick' = FALSE /\ fresh' = FALSE
           \/ live = config /\ UNCHANGED <<link, kick, fresh>>
        /\ UNCHANGED faults
     \/ Fault /\ unloaded' = TRUE /\ UNCHANGED <<live, link, kick, fresh>>
  /\ UNCHANGED <<up, flips, profiles, config, status, draft, proven>>

\* The candidate did not come up, or the previous configuration did not.
GiveUp ==
  IF RollingBack THEN Exit("FAILED") ELSE Go(NextCandidate) /\ status' = status

NeverAssociated ==
  link = "down" /\ ~sel.assocSeen /\ sel.elapsed >= AssociationTimeout

\* Mutant: the renewal waits for a station that is complete already.
RenewsLate == Ready /\ ~sel.renewed /\ sel.elapsed >= RecoveryAfter

Renews == link = "assoc" /\ ~sel.renewed /\ sel.elapsed >= RecoveryAfter

\* One turn of wait_for_network's loop, or the check after it.
Wait ==
  /\ sel.pc = "wait"
  /\ \/ /\ Ready
        /\ Go(Pc("recovered")) /\ UNCHANGED <<status, kick>>
     \/ /\ ~Ready /\ (sel.elapsed >= Limit \/ NeverAssociated) /\ Settled
        /\ GiveUp /\ UNCHANGED kick
     \/ /\ ~Ready /\ sel.elapsed < Limit /\ ~NeverAssociated /\ Settled
        /\ kick' = (kick \/ Renews)
        /\ Go([sel EXCEPT !.elapsed = @ + 1, !.renewed = @ \/ Renews,
                          !.assocSeen = @ \/ link = "assoc"])
        /\ UNCHANGED status
  /\ UNCHANGED <<up, live, link, flips, unloaded, profiles, faults, config, fresh, draft,
                 proven>>

\* mark_recovered: the connection is recorded, WireGuard restarted.
StartRecord ==
  /\ sel.pc = "recovered"
  /\ ReadsPreferred
  /\ Go(Pc("publish"))
  /\ UNCHANGED <<radio, profiles, faults, config, fresh, status, proven>>

Recover ==
  /\ sel.pc = "publish"
  /\ RecordSuccess
  /\ fresh' = Ready
  /\ Exit("CONNECTED")
  /\ UNCHANGED <<radio, others, config, draft, proven>>

Selector == \/ FirstCheck \/ ScanCheck \/ RetryCheck \/ TryCheck \/ Scan
            \/ Build \/ Confirm \/ Apply \/ Restore \/ Reload \/ Wait \/ StartRecord
            \/ Recover
=============================================================================
