------------------------------ MODULE Service ------------------------------
(***************************************************************************)
(* What the clients of a Unix socket server may rely on (cmd/unix/unix.go) *)
(* with no accept loop, handler goroutine, WaitGroup or quit channel in    *)
(* sight: the abstract specification that UnixServer implements.           *)
(*                                                                         *)
(* A server listens, drains, and is off.  A connection is with the server  *)
(* that listened when its client dialled, waits until that one takes it,   *)
(* and has one request in work at a time.  A server that drains takes no   *)
(* more and drops those that wait; it stops, which its exit status tells,  *)
(* when the others have ended, but for one at most.  Only a failure of its *)
(* server, which may come at any time, cuts more, and all of that server's.*)
(***************************************************************************)
CONSTANTS
  Server,
  NoServer,
  Client    \* connections

VARIABLES
  phase,    \* Server -> "off", "listening" or "draining"
  stopped,  \* Server -> whether it last went off by stopping, and not by a failure
  with,     \* Client -> its server, NoServer before it dials
  line      \* Client -> "none", "waiting", "open", "asked", "closed" or "cut"

vars == <<phase, stopped, with, line>>

Init ==
  /\ phase = [s \in Server |-> "off"] /\ stopped = [s \in Server |-> FALSE]
  /\ with = [c \in Client |-> NoServer] /\ line = [c \in Client |-> "none"]

\* Connections that s has taken
Taken(s) == {c \in Client : with[c] = s /\ line[c] \in {"open", "asked"}}

Becomes(s, p) == phase' = [phase EXCEPT ![s] = p] /\ UNCHANGED with

\* The connections of s in one of these states are cut.
Cut(s, states) ==
  line' = [c \in Client |-> IF with[c] = s /\ line[c] \in states THEN "cut" ELSE line[c]]

Open(s) == phase[s] = "off" /\ Becomes(s, "listening") /\ UNCHANGED <<stopped, line>>

Drain(s) ==
  /\ phase[s] = "listening" /\ Becomes(s, "draining")
  /\ Cut(s, {"waiting"}) /\ UNCHANGED stopped

Stop(s) ==
  /\ phase[s] = "draining" /\ Becomes(s, "off")
  /\ \A c, d \in Taken(s) : c = d
  /\ Cut(s, {"open", "asked"}) /\ stopped' = [stopped EXCEPT ![s] = TRUE]

\* Also of a server that is off: it does not come to listen.
Fail(s) ==
  /\ Becomes(s, "off")
  /\ Cut(s, {"waiting", "open", "asked"}) /\ stopped' = [stopped EXCEPT ![s] = FALSE]

Dial(c) ==
  /\ line[c] = "none"
  /\ \E s \in Server : phase[s] = "listening" /\ with' = [with EXCEPT ![c] = s]
  /\ line' = [line EXCEPT ![c] = "waiting"] /\ UNCHANGED <<phase, stopped>>

Moves(c, l) == line' = [line EXCEPT ![c] = l] /\ UNCHANGED <<phase, stopped, with>>

Take(c) == line[c] = "waiting" /\ phase[with[c]] = "listening" /\ Moves(c, "open")
Ask(c) == line[c] = "open" /\ phase[with[c]] # "off" /\ Moves(c, "asked")
Answer(c) == line[c] = "asked" /\ phase[with[c]] # "off" /\ Moves(c, "open")
Leave(c) == line[c] \in {"open", "asked"} /\ phase[with[c]] # "off" /\ Moves(c, "closed")

Next ==
  \/ \E s \in Server : Open(s) \/ Drain(s) \/ Stop(s) \/ Fail(s)
  \/ \E c \in Client : Dial(c) \/ Take(c) \/ Ask(c) \/ Answer(c) \/ Leave(c)

Spec == Init /\ [][Next]_vars
=============================================================================
