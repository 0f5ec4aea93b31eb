--------------------------- MODULE MCDescriptors ---------------------------
EXTENDS Descriptors

Cmd   == [in |-> FALSE, out |-> FALSE, known |-> TRUE, bg |-> FALSE]
Typo  == [Cmd EXCEPT !.known = FALSE]
InOut == [Cmd EXCEPT !.in = TRUE, !.out = TRUE]
Piped == {<<Cmd, Cmd>>, <<Cmd, Typo>>, <<InOut>>}
=============================================================================
