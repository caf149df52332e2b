---------------------------- MODULE MCUnixServer ---------------------------
(* Values of the constants of UnixServer for TLC. *)
EXTENDS UnixServer

CONSTANTS s1, s2, c1, c2

\* s1 is started twice, s2 next to it once.
StartBounds == [s \in Server |-> IF s = s1 THEN 2 ELSE 1]

----------------------------------------------------------------------------
\* What the repository says of the program and the code does not do.

\* cmd/unix/unix.go:185 "wait until all connections have been handled": no
\* connection is left unfinished when the shutdown exits.
AllDoneAtExit == \A s \in Server : lost[s] = {}
=============================================================================
