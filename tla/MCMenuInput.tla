----------------------------- MODULE MCMenuInput -----------------------------
EXTENDS MenuInput, TLC
MCKind == 1 :> "pad" @@ 2 :> "pad" @@ 3 :> "keyboard" @@ 4 :> "touch"
MCPadKeys == {"thumb2"}
MCKeys == {"tab", "left shift"}
\* Which port it is matters only where there are two devices.
S(devices, p, c, t, g, cues) ==
  [devices |-> devices, ports |-> IF devices = {1, 2} THEN Ports ELSE {1},
   plugs |-> p, changes |-> c, ticks |-> t, games |-> g,
   cues |-> cues]
\* Controllers that come and go; a chattering one; one that is slow to be read
\* and taken along into a game; a keyboard; the touchscreen; cues.
MCScenarios ==
  {S({1, 2}, 3, 1, 0, 0, 0), S({1}, 1, 4, 2, 0, 0), S({1}, 1, 4, 0, 1, 0),
   S({3}, 1, 4, 0, 0, 0), S({4}, 2, 4, 0, 0, 0), S({1}, 1, 2, 2, 1, 1), S({3}, 1, 3, 0, 1, 2)}
=============================================================================
