---------------------------- MODULE MCConnection ----------------------------
(* Values of the constants of Connection for TLC. *)
EXTENDS Connection, TLC

CONSTANTS p1, p2, User, Role, UserRole

\* User refers to many Roles through the table UserRole, Role has many Users; callers
\* who register UserRole declare a relation to one User in it.
Relations ==
  (User :> [kind |-> "refs", dst |-> Role, brg |-> UserRole])
    @@ (Role :> [kind |-> "many", dst |-> User, brg |-> UserRole])
    @@ (UserRole :> [kind |-> "many", dst |-> User, brg |-> UserRole])

Together == {<<User, Role>>, <<Role, UserRole>>}
ByName == <<Role, User, UserRole>>

Mix(connect, disconnect, register, unregister, init) ==
  [k \in Kinds |-> CASE k = "connect" -> connect [] k = "disconnect" -> disconnect
                     [] k = "register" -> register [] k = "unregister" -> unregister
                     [] k = "init" -> init]

\* Connections alone, schemas alone, and few calls of every kind.
Calls ==
  {Mix(3, 2, 0, 0, 0), Mix(0, 0, 2, 1, 0), Mix(1, 1, 1, 0, 1), Mix(1, 0, 1, 0, 2)}

\* Every driver where Init runs once, SQLite where it runs twice or not at all.
Drivers ==
  [m \in Calls |-> IF m["init"] = 1 THEN {"mysql", "postgres", "sqlite"} ELSE {"sqlite"}]

Symmetric == Permutations(Proc)
=============================================================================
