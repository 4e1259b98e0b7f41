----------------------------- MODULE MCEmulator -----------------------------
\* The NES, the Game Boy and CHIP-8; the Spectrum's, without saves of its own,
\* is a NES that does not read the older format.
EXTENDS Emulator

F(saves, legacy, halts) == [saves |-> saves, legacy |-> legacy, halts |-> halts]
MCFrontEnds == {F({"ram"}, TRUE, FALSE), F({"ram", "rtc"}, FALSE, FALSE),
                F({}, FALSE, TRUE)}
S(runs, noise, more, compositor) ==
  [runs |-> runs, sound |-> noise, launches |-> more, wayland |-> compositor]
MCScenarios == {S(5, 0, 0, TRUE), S(2, 6, 0, TRUE), S(2, 2, 1, TRUE),
                S(3, 0, 0, FALSE), S(1, 0, 1, FALSE)}
\* One that fills the display, two of the same width, one too large, one empty.
MCSizes == {<<2, 1>>, <<2, 2>>, <<3, 1>>, <<5, 1>>, <<1, 0>>}
MCHintPixels == {<<1, 1>>, <<2, 1>>}
=============================================================================
