----------------------------- MODULE MCChiptunes -----------------------------
EXTENDS Chiptunes

(* Files of each kind the decoders tell apart. *)
File(backend, tracks, bad, opens, content) ==
  [backend |-> backend, tracks |-> tracks, bad |-> bad, opens |-> opens,
   sound |-> content]
Ogg        == File("ogg", 1, {}, TRUE, "fine")
Gme        == File("gme", 2, {}, TRUE, "fine")
Unreadable == File("gme", 1, {}, FALSE, "fine")
Unstarted  == File("gme", 2, {0}, TRUE, "fine")
HalfGood   == File("gme", 2, {1}, TRUE, "fine")
EmptyOgg   == File("ogg", 1, {}, TRUE, "empty")
DamagedOgg == File("ogg", 1, {}, TRUE, "damaged")

Playlist(files) == [index \in 0 .. Len(files) - 1 |-> files[index + 1]]

Budget(touches, presses, losses, keys, axes) ==
  [touches |-> touches, presses |-> presses, losses |-> losses,
   keys |-> keys, axes |-> axes]
Free(files) ==
  [disk |-> Playlist(files), nodes |-> << >>, budget |-> Budget(0, 0, 0, {}, {}),
   volumes |-> 0 .. Loudest, followed |-> FALSE]
Followed(files, found, budget) ==
  [disk |-> Playlist(files), nodes |-> found, budget |-> budget,
   volumes |-> {1}, followed |-> TRUE]

(* Any commands on no file, one file, and three files with every kind of bad *)
(* neighbour; then the devices: a finger, or one on each of two screens, one *)
(* controller with two keys of one meaning, both, and more controllers than  *)
(* are used.                                                                 *)
AllScenarios ==
  {Free(files) : files \in
     {<< >>, <<Gme>>, <<Unreadable, Unstarted>>, <<Ogg, Gme>>, <<EmptyOgg>>,
      <<Gme, Unreadable, Ogg>>, <<Unstarted, Ogg, Gme>>,
      <<HalfGood, Unreadable, Gme>>, <<DamagedOgg, Unstarted>>}}
  \cup
  {Followed(<< >>, <<"other", "touch">>, Budget(2, 0, 0, {}, {})),
   Followed(<< >>, <<"touch", "touch">>, Budget(1, 0, 0, {}, {})),
   Followed(<< >>, <<"pad">>, Budget(0, 3, 0, {0, 1}, {})),
   Followed(<< >>, <<"pad">>, Budget(0, 2, 0, {}, {"x"})),
   Followed(<<Gme>>, <<"pad", "touch">>, Budget(1, 1, 0, {1, 5, 7}, {})),
   Followed(<< >>, <<"pad", "silent", "pad", "pad">>, 
             Budget(0, 1, 1, {0, 3}, {"y"}))}

(* The corners of the buttons, and the gap beside one. *)
AllPoints == {<<1124, 22>>, <<1247, 89>>, <<446, 370>>, <<445, 370>>}
AnyCommand == Commands \cup {"back"}
=============================================================================
