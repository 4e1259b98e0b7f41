----------------------------- MODULE WifiEditor -----------------------------
(***************************************************************************)
(* The dashboard's editor for a new Wi-Fi network.  A touch is a press and *)
(* a release at two points, a tap when both find the same target; a tap    *)
(* changes the text or the keys and the screen is drawn anew.  SAVE hands  *)
(* both lines to the helper deck-wifi-profile-add through a pipe and waits *)
(* for it, with no limit.                                                  *)
(*                                                                         *)
(* The helper is external: it stores the profile when it has read it whole *)
(* and may fail before and after that, or be killed.                       *)
(***************************************************************************)
EXTENDS Screens

CONSTANTS
  SsidLimit,         \* 32
  PassphraseMinimum, \* 8
  PassphraseLimit,   \* 63
  Points             \* bound: the points touched

ASSUME EditorAssumption ==
  /\ SsidLimit \in Nat /\ PassphraseLimit \in Nat
  /\ PassphraseMinimum \in Nat \ {0}

VARIABLES
  view,            \* "menu", "settings" or "wifi"
  texts,           \* WifiState::ssid and ::passphrase
  field,           \* the one that is edited
  symbols, uppercase,
  wifi_status,     \* WifiState::status
  page,            \* which keys are in wifi_layout, as last drawn
  pressed_target,
  saving,          \* where save_wifi_profile is
  wrote,           \* its write to the pipe succeeded
  helper,          \* the helper: "none", "reading", "stored", "done", "failed"
  profile,         \* the profile the helper has stored, NoProfile before
  touched,         \* history: where the finger was put down
  handed           \* history: the texts when SAVE was last tapped

editing == <<texts, field, symbols, uppercase, wifi_status, page>>
storing == <<saving, wrote, helper, profile, handed>>
editor  == <<view, editing, pressed_target, storing, touched>>

NoProfile == [ssid |-> <<>>, passphrase |-> <<>>]
Space == <<"space", 0, 0>>
EditorTargetAt(point) == TargetAt(EditorScreen[page], point)

EditorInit ==
  /\ texts = NoProfile
  /\ field = "ssid" /\ symbols = FALSE /\ uppercase = FALSE
  /\ wifi_status = "none"
  /\ page = Page(symbols, uppercase)
  /\ pressed_target = NoTarget
  /\ saving = "no" /\ wrote = FALSE /\ helper = "none" /\ profile = NoProfile
  /\ touched = [x |-> 0, y |-> 0] /\ handed = texts

\* Plausible bugs, for the mutation runs.
TappedWhereReleased(target) == target # NoTarget
KeepsItsEndOpen == FALSE

-----------------------------------------------------------------------------
\* render_wifi.
Draw == page' = Page(symbols', uppercase')

\* The target of SETTINGS' Wi-Fi button.
OpenEditor ==
  /\ view' = "wifi"
  /\ wifi_status' = "none"
  /\ UNCHANGED <<texts, field, symbols, uppercase, storing, touched>>
  /\ Draw

Press(point) ==
  /\ view = "wifi" /\ saving = "no"
  /\ pressed_target' = EditorTargetAt(point)
  /\ touched' = point
  /\ UNCHANGED <<view, editing, storing>>

Limit == IF field = "ssid" THEN SsidLimit ELSE PassphraseLimit

Type(character) ==
  texts' = IF Len(texts[field]) < Limit
             THEN [texts EXCEPT ![field] = Append(@, character)] ELSE texts

Delete ==
  texts' = IF texts[field] = <<>> THEN texts
           ELSE [texts EXCEPT ![field] = SubSeq(@, 1, Len(@) - 1)]

\* apply_wifi_target.
Apply(target) ==
  /\ wifi_status' = "none"
  /\ \/ /\ target.kind \in {"ssid", "passphrase"}
        /\ field' = target.kind
        /\ UNCHANGED <<texts, symbols, uppercase>>
     \/ /\ target.kind = "mode"
        /\ symbols' = ~symbols
        /\ UNCHANGED <<texts, field, uppercase>>
     \/ /\ target.kind = "shift" /\ ~symbols
        /\ uppercase' = ~uppercase
        /\ UNCHANGED <<texts, field, symbols>>
     \/ /\ \/ target.kind = "key" /\ Type(EditorKeys[page][target.index].value)
           \/ target.kind = "space" /\ Type(Space)
           \/ target.kind = "delete" /\ Delete
        /\ UNCHANGED <<field, symbols, uppercase>>
  /\ Draw
  /\ UNCHANGED <<view, storing>>

CanBeSaved(lines) ==
  /\ Len(lines.ssid) \in 1 .. SsidLimit
  /\ Len(lines.passphrase) \in PassphraseMinimum .. PassphraseLimit

\* save_wifi_profile up to the fork: the lengths, the pipe and the process.
Save ==
  /\ handed' = texts
  /\ \/ /\ wifi_status' = "failed"
        /\ UNCHANGED <<saving, helper>>
     \/ /\ CanBeSaved(texts)
        /\ saving' = "write" /\ helper' = "reading"
        /\ UNCHANGED wifi_status
  /\ UNCHANGED <<view, texts, field, symbols, uppercase, page, wrote, profile>>

CloseEditor ==
  /\ view' = "settings"
  /\ UNCHANGED <<editing, storing>>

IsTap(target) == target = pressed_target

Release(point) ==
  /\ view = "wifi" /\ saving = "no"
  /\ pressed_target' = NoTarget
  /\ UNCHANGED touched
  /\ LET target == EditorTargetAt(point)
     IN CASE ~IsTap(target) -> UNCHANGED <<view, editing, storing>>
          [] target.kind = "back" -> CloseEditor
          [] target.kind = "save" -> Save
          [] target.kind = "none" \/ (target.kind = "shift" /\ symbols) ->
               UNCHANGED <<view, editing, storing>>
          [] OTHER -> Apply(target)

\* A controller's or keyboard's command, which forgets the press.
ControllerBack ==
  /\ view = "wifi" /\ saving = "no"
  /\ pressed_target' = NoTarget
  /\ CloseEditor
  /\ UNCHANGED touched

-----------------------------------------------------------------------------
\* Both lines fit into the pipe; the write fails when the helper is gone.
WriteRequest ==
  /\ saving = "write" /\ saving' = "wait"
  /\ wrote' = (helper = "reading")
  /\ UNCHANGED <<view, editing, pressed_target, helper, profile, touched, handed>>

Succeeded == helper = "done"

\* waitpid returns, a signal does not end it.
HelperExited ==
  /\ saving = "wait" /\ saving' = "no"
  /\ helper \in {"done", "failed"} /\ helper' = "none"
  /\ IF wrote /\ Succeeded
       THEN /\ wifi_status' = "saved"
            /\ texts' = [texts EXCEPT !.passphrase = <<>>]
       ELSE wifi_status' = "failed" /\ UNCHANGED texts
  /\ UNCHANGED <<view, field, symbols, uppercase, page, pressed_target, wrote,
                 profile, touched, handed>>

\* The helper reads up to the end of its input, so the dashboard has closed
\* the pipe when it stores what it has read.
Closed == saving = "wait" /\ wrote

HelperRuns ==
  /\ \/ helper = "reading" /\ Closed /\ helper' = "stored" /\ profile' = texts
     \/ helper = "stored" /\ helper' \in {"done", "failed"} /\ UNCHANGED profile
  /\ UNCHANGED <<view, editing, pressed_target, saving, wrote, touched, handed>>

HelperDies ==
  /\ helper = "reading" /\ helper' = "failed"
  /\ UNCHANGED <<view, editing, pressed_target, saving, wrote, profile, touched,
                 handed>>

-----------------------------------------------------------------------------
\* The profile on disk can be used, and the message on the screen is true:
\* after "saved" it holds what was on the screen when SAVE was tapped and the
\* password is gone from memory, after a failure nothing typed is lost.
EditorInv ==
  /\ profile # NoProfile => CanBeSaved(profile)
  /\ view = "wifi" /\ wifi_status = "saved" =>
       profile = handed /\ texts = [handed EXCEPT !.passphrase = <<>>]
  /\ view = "wifi" /\ wifi_status = "failed" => texts = handed
  /\ view = "wifi" => page = Page(symbols, uppercase)

\* The key that was drawn where the finger was put down.
DrawnAt(point) ==
  LET keys == EditorKeys[page]
  IN {keys[i].value : i \in {j \in DOMAIN keys : contains(keys[j].bounds, point)}}

\* A character is typed only by the key that shows it, pressed there.
TypedIsTouched ==
  [][\A f \in DOMAIN texts :
       Len(texts'[f]) > Len(texts[f]) =>
         LET typed == texts'[f][Len(texts'[f])]
         IN \/ typed \in DrawnAt(touched)
            \/ typed = Space /\ EditorTargetAt(touched).kind = "space"]_editor
=============================================================================
