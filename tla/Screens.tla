------------------------------ MODULE Screens ------------------------------
(***************************************************************************)
(* The buttons of the dashboard's screens, in pixels of the 1280 x 480     *)
(* panel: the carousel, the settings and the Wi-Fi editor.  A screen is    *)
(* the sequence of its buttons in the order in which a touch is looked up. *)
(* A character is named by the page of its key and the key's place there.  *)
(* Lettering, icons and colours are left out.                              *)
(***************************************************************************)
EXTENDS Integers, Sequences

LogicalWidth == 1280
LogicalHeight == 480

Rect(x, y, width, height) == [x |-> x, y |-> y, width |-> width, height |-> height]
Button(bounds, target) == [bounds |-> bounds, target |-> target]
Target(kind, index) == [kind |-> kind, index |-> index]
NoTarget == Target("none", 0)

contains(bounds, point) ==
  /\ point.x >= bounds.x /\ point.y >= bounds.y
  /\ point.x < bounds.x + bounds.width
  /\ point.y < bounds.y + bounds.height

\* A touch belongs to the first button that contains it.
TargetAt(screen, point) ==
  LET hit == {i \in DOMAIN screen : contains(screen[i].bounds, point)}
  IN IF hit = {} THEN NoTarget
     ELSE screen[CHOOSE i \in hit : \A j \in hit : i <= j].target

\* `count` buttons of one width in a line, `gap` apart.
Line(count, left, gap, y, width, height, target(_)) ==
  [i \in 1 .. count |->
     Button(Rect(left + (i - 1) * (width + gap), y, width, height), target(i))]

-----------------------------------------------------------------------------
\* The carousel: a tab for each populated system, up to three cards with the
\* selected entry in the middle, and arrows when there is another entry.

Tabs(count) ==
  Line(count, 56, 8, 76, (1168 - 8 * (count - 1)) \div count, 52,
       LAMBDA i : Target("system", i))

Smaller(a, b) == IF a < b THEN a ELSE b

\* The place of the first card shown, counted from 0.
first_position(entries, position) ==
  LET visible == Smaller(3, entries)
  IN IF position = 0 THEN 0
     ELSE IF position + 1 >= entries THEN entries - visible
     ELSE Smaller(position - 1, entries - visible)

Cards(indices, position) ==
  LET visible == Smaller(3, Len(indices))
      first == first_position(Len(indices), position)
  IN Line(visible, (LogicalWidth - (visible * 216 + (visible - 1) * 36)) \div 2,
          36, 154, 216, 264, LAMBDA i : Target("game", indices[first + i]))

Arrows ==
  <<Button(Rect(156, 232, 80, 100), Target("previous", 0)),
    Button(Rect(1044, 232, 80, 100), Target("next", 0))>>

MenuScreen(systems, indices, position) ==
  <<Button(Rect(12, 412, 56, 56), Target("credits", 0)),
    Button(Rect(1212, 412, 56, 56), Target("settings", 0))>>
  \o (IF Len(indices) > 1 THEN Arrows ELSE <<>>)
  \o Tabs(systems) \o Cards(indices, position)

-----------------------------------------------------------------------------
\* The settings, numbered as SettingsTarget.

SettingsTargetClose == 0
SettingsTargetVolumeDown == 1
SettingsTargetVolumeUp == 2
SettingsTargetBrightnessDown == 3
SettingsTargetBrightnessUp == 4
SettingsTargetTerminal == 5
SettingsTargetKeymap == 6
SettingsTargetWifi == 7

Setting(bounds, index) == Button(bounds, Target("setting", index))

SettingsScreen ==
  <<Setting(Rect(1212, 12, 56, 56), SettingsTargetClose),
    Setting(Rect(108, 208, 104, 104), SettingsTargetVolumeDown),
    Setting(Rect(228, 208, 104, 104), SettingsTargetVolumeUp),
    Setting(Rect(438, 208, 104, 104), SettingsTargetBrightnessDown),
    Setting(Rect(558, 208, 104, 104), SettingsTargetBrightnessUp),
    Setting(Rect(792, 208, 112, 104), SettingsTargetTerminal),
    Setting(Rect(1036, 208, 112, 104), SettingsTargetKeymap),
    Setting(Rect(926, 20, 262, 108), SettingsTargetWifi)>>

-----------------------------------------------------------------------------
\* The Wi-Fi editor's fixed buttons and its four rows of keys.

EditorButtons ==
  <<Button(Rect(16, 10, 120, 62), Target("back", 0)),
    Button(Rect(330, 10, 310, 62), Target("ssid", 0)),
    Button(Rect(650, 10, 330, 62), Target("passphrase", 0)),
    Button(Rect(990, 10, 274, 62), Target("save", 0)),
    Button(Rect(16, 364, 152, 66), Target("mode", 0)),
    Button(Rect(176, 364, 168, 66), Target("shift", 0)),
    Button(Rect(352, 364, 700, 66), Target("space", 0)),
    Button(Rect(1060, 364, 204, 66), Target("delete", 0))>>

\* A key and the character it stands for.
Key(bounds, value) == [bounds |-> bounds, value |-> value]

KeyRow(page, count, y) ==
  LET width == (LogicalWidth - 32 - 6 * (count - 1)) \div count
      left == (LogicalWidth - (count * width + 6 * (count - 1))) \div 2
  IN [i \in 1 .. count |->
        Key(Rect(left + (i - 1) * (width + 6), y, width, 62), <<page, y, i>>)]

\* The keys as render_wifi lays them out; "@._-" has no capitals.
Page(symbols, uppercase) == [symbols |-> symbols, uppercase |-> uppercase]
Pages == [symbols : BOOLEAN, uppercase : BOOLEAN]
EditorKeys ==
  [page \in Pages |->
     LET letters == IF page.uppercase THEN "capitals" ELSE "letters"
     IN IF page.symbols
          THEN KeyRow("symbols", 10, 86) \o KeyRow("symbols", 10, 154)
               \o KeyRow("symbols", 11, 222) \o KeyRow("symbols", 12, 290)
          ELSE KeyRow(letters, 10, 86) \o KeyRow(letters, 9, 154)
               \o KeyRow(letters, 7, 222) \o KeyRow("marks", 4, 290)]

EditorScreen ==
  [page \in Pages |->
     LET keys == EditorKeys[page]
     IN EditorButtons \o
        [i \in DOMAIN keys |-> Button(keys[i].bounds, Target("key", i))]]

-----------------------------------------------------------------------------
\* Every button is drawn on the display and no two overlap, so that a touch
\* anywhere on what is drawn is a touch of that button.
IsPlain(screen) ==
  /\ \A i \in DOMAIN screen :
       LET b == screen[i].bounds
       IN /\ b.x >= 0 /\ b.y >= 0 /\ b.width > 0 /\ b.height > 0
          /\ b.x + b.width <= LogicalWidth /\ b.y + b.height <= LogicalHeight
  /\ \A i, j \in DOMAIN screen :
       LET a == screen[i].bounds  b == screen[j].bounds
       IN i # j => \/ a.x + a.width <= b.x \/ b.x + b.width <= a.x
                   \/ a.y + a.height <= b.y \/ b.y + b.height <= a.y
=============================================================================
