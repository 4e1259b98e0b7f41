------------------------------ MODULE MCVTerm ------------------------------
EXTENDS VTerm

\* What a program does in one behaviour: text that scrolls in both directions
\* inside margins, lines moved about, a row edited in place, modes, and text
\* long enough to overrun the history.
MCRepertoires ==
  { {"print", "lf", "indexup", "margins"},
    {"print", "margins", "line"},
    {"print", "bs", "tab", "char", "erase", "cr", "visible"},
    {"print", "position", "align", "reset", "save", "inverse"},
    {"print", "nextline", "crlf", "wrap", "visible"},
    {"lf", "margins", "relative", "position", "move"} }
=============================================================================
