------------------------------ MODULE BytePipe ------------------------------
(***************************************************************************)
(* What a pipe between two programs promises.  The bytes of the stream are *)
(* numbered in the order they are offered, so byte n is just n: the pipe   *)
(* takes the next byte while it holds fewer than Size, and hands bytes out *)
(* in the order it took them.  Nothing is lost, repeated or overtaken,     *)
(* until the pipe is closed with what it holds.                            *)
(***************************************************************************)
EXTENDS Naturals, Sequences

CONSTANT Size

VARIABLES
  pipe,       \* the bytes taken and not yet handed out
  received    \* the bytes handed out

Init == pipe = << >> /\ received = << >>

Put ==
  /\ Len(pipe) < Size
  /\ pipe' = Append(pipe, Len(received) + Len(pipe) + 1)
  /\ UNCHANGED received

Take ==
  /\ pipe # << >>
  /\ received' = Append(received, Head(pipe))
  /\ pipe' = Tail(pipe)

Close == pipe' = << >> /\ UNCHANGED received

Spec == Init /\ [][Put \/ Take \/ Close]_<<pipe, received>>
=============================================================================
