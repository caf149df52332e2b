--------------------------- MODULE MCRelatesWrite ---------------------------
(***************************************************************************)
(* RelatesWrite beside the design of related writes that the comments at   *)
(* model.go:47-54 and 64-67 state: what the design asks for, for the       *)
(* HAS_MANY values that the call has looked at, is collected in asked.     *)
(***************************************************************************)
EXTENDS RelatesWrite

VARIABLE asked      \* statements that the design asks for

\* "-1. ignore: nothing; 1. append: create those without an id; 2. upsert: and update
\* those with one; 3. replace: and delete the rows that are not among them (the
\* default)".  A field in several lists is in the one that the code takes.
Mode == IF named = {} THEN "replace" ELSE Lists[Strategy]
Rank == [ignore |-> -1, append |-> 1, upsert |-> 2, replace |-> 3]

\* stored: the keys of the related rows before the call.
Design(v, stored) ==
  LET keys == {v[i].key : i \in WithKey(v)}
      wanted == << Stmts("create", "has_many", (1 .. Len(v)) \ WithKey(v)),
                   Stmts("update", "has_many", WithKey(v)),
                   Stmts("delete", "has_many", stored \ keys) >>
  IN UNION {wanted[i] : i \in 1 .. Rank[Mode]}

DesignInit == Init /\ asked = {}

DesignNext ==
  \/ \E v \in Value("has_many"), stored \in SUBSET Key :
       Visit("has_many", v) /\ asked' = asked \cup Design(v, stored)
  \/ \E f \in {"ref_many", "ref_one"} : \E v \in Value(f) : Visit(f, v) /\ UNCHANGED asked
  \/ Rest /\ UNCHANGED asked

DesignSpec == DesignInit /\ [][DesignNext]_<<vars, asked>>
----------------------------------------------------------------------------
\* What the repository says of the program and the code does not do.

\* The design at model.go:47-54: a relatesWrite that ends, and does not say by an error
\* that it failed, has written of the HAS_MANY documents what their mode asks for, and
\* nothing more.
DesignKept ==
  ret \in {"nil", "panic"} => {s \in ToSet(written) : s.for = "has_many"} = asked
=============================================================================
