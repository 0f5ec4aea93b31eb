----------------------------- MODULE MCTerminal -----------------------------
EXTENDS Terminal, TLC

CONSTANTS r1, r2

\* Two programs of the first terminal; the second has others.
BothOfFirst == (r1 :> 0) @@ (r2 :> 0)
=============================================================================
