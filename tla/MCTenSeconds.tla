---------------------------- MODULE MCTenSeconds ----------------------------
EXTENDS TenSeconds
S(t, p, m, u, s) ==
  [ticks |-> t, presses |-> p, slides |-> m,
   unplugs |-> u, signals |-> s]
\* A game timed to its end, presses that come fast, slides, a device lost.
MCScenarios ==
  {S(2, 2, 0, 0, 0), S(0, 4, 0, 0, 0), S(0, 1, 4, 0, 0), S(0, 1, 1, 1, 1)}
=============================================================================
