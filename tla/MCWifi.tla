------------------------------- MODULE MCWifi -------------------------------
\* Home is not among the saved networks; an import has used other names than
\* the canonical ones, one that the shell lists before those and one after.
EXTENDS WifiWatch
CONSTANTS a, b, c
MCFileOrder == <<Name(b, FALSE), Name(a, TRUE), Name(b, TRUE), Name(c, TRUE),
                 Name(c, FALSE)>>
S(imported, flips_, faults_, restarts_, cuts_, saves_) ==
  [imported |-> imported, locked |-> FALSE, flips |-> flips_, faults |-> faults_,
   restarts |-> restarts_, cuts |-> cuts_, saves |-> saves_]
MCScenarios ==
  {S({1, 4}, 2, 0, 1, 0, 0), S({1, 4}, 1, 1, 0, 1, 0), S({1, 4}, 2, 1, 0, 0, 0),
   S({1, 4}, 1, 0, 0, 0, 1), S({5}, 1, 1, 0, 0, 1), S({5}, 0, 0, 0, 1, 1),
   [S({5}, 0, 0, 0, 0, 1) EXCEPT !.locked = TRUE]}
=============================================================================
