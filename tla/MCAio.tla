------------------------------- MODULE MCAio -------------------------------
(* Values of the constants of Aio for TLC. *)
EXTENDS Aio, TLC

CONSTANTS c1, c2, a1, a2

Symmetric == Permutations(Client) \cup Permutations(Addr)
----------------------------------------------------------------------------
\* What the repository says of the program and the code does not do.

\* aio.go:330,333 "tx not exist or expired": a request that names an id which is
\* not in the store is refused with an error.
UnknownIdRefused ==
  [][\A c \in Client :
       (pc[c] = "act" /\ req[c].id # NoId /\ req[c].tx = NoTx /\ HasSession(c) /\ pc'[c] # "act")
         => pc'[c] = "err"]_vars
=============================================================================
