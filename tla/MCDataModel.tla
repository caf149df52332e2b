---------------------------- MODULE MCDataModel ----------------------------
(* Values of the constants of DataModel for TLC. *)
EXTENDS DataModel, TLC

CONSTANTS p1, p2, m1, m2, r1, r2

\* Both goroutines use the same DataModel.
UsesShared == [p \in Proc |-> Model]

RowSymmetry == Permutations(Row)
ProcSymmetry == Permutations(Proc)

NoModels == {}
AutoIncrModels == {m1}
\* What "byvalue" and "list" documents do, "walkable" ones may do as well.
Telling == {"walkable", "struct"}
Walkable == {"walkable"}
----------------------------------------------------------------------------
\* What the repository says of the program and the code does not do.

\* examples/4-crud/4-crud.go:34-46 updates rows of a DataModel and then deletes one
\* that may be among them, and expects both to return: a caller's Delete does not wait
\* for the transaction that an Update of its own DataModel began and nobody ends.
DeleteFollowsUpdate ==
  \A p \in Proc : (depth[p] = 1 /\ At(p, "delete")) =>
    \A t \in Handle : (xtx[Top(p).m] = t /\ txOwner[t] = "ensure") => ~Holds(t, Top(p).rows[1])
=============================================================================
