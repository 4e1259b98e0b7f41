----------------------------- MODULE MCSettings -----------------------------
\* Fewer names and steps, and the touches that the editor's pages tell apart.
EXTENDS Settings
CONSTANTS p1
MCMenu == [prefix |-> "tmp", attempts |-> 2, directory |-> "ignored"]
MCPlayer == [prefix |-> "chiptune", attempts |-> 2, directory |-> "reported"]
MCSram == [prefix |-> "sram", attempts |-> 1, directory |-> "absent"]
MCWriters == {MCMenu, MCPlayer, MCSram}
MCValues == -2 .. 6
MCOn == -1
MCOff == -2

S(k, changes, launches, losses, signals, touches, screens, shelves) ==
  [kind |-> k, changes |-> changes, launches |-> launches, losses |-> losses,
   signals |-> signals, touches |-> touches, screens |-> screens,
   shelves |-> shelves]
MCScenarios ==
  {S("volume", 2, 1, 1, 0, 0, TRUE, FALSE), S("volume", 3, 0, 0, 1, 0, TRUE, FALSE),
   S("brightness", 2, 0, 1, 1, 0, TRUE, FALSE),
   S("keymap", 2, 0, 1, 0, 0, TRUE, FALSE),
   S("save file", 3, 0, 2, 0, 0, FALSE, FALSE),
   S("keymap", 0, 0, 0, 1, 9, TRUE, FALSE),
   S("keymap", 0, 0, 0, 0, 0, FALSE, TRUE)}

\* The first key, one of the last row, and the buttons.
At(x, y) == [x |-> x, y |-> y]
MCPoints ==
  {At(16, 86), At(300, 300), At(20, 20), At(400, 20), At(979, 71), At(1263, 10),
   At(16, 364), At(343, 429), At(1051, 400), At(1060, 400), At(1279, 479)}

MCShelves ==
  {[systems |-> s, indices |-> [i \in 1 .. n |-> i], position |-> p % n] :
     s \in 1 .. 6, n \in 1 .. 5, p \in 0 .. 4}
=============================================================================
