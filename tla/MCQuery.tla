------------------------------ MODULE MCQuery ------------------------------
(* Values of the constants of Query for TLC. *)
EXTENDS Query

Id(op, v) == [f |-> "id", op |-> op, v |-> v]
Named(op, v) == [f |-> "name", op |-> op, v |-> v]

\* Two rows share a name, one has none.
Table == {[id |-> 1, name |-> 1], [id |-> 2, name |-> 1], [id |-> 3, name |-> Null]}

Pairs(es) == <<[k |-> "pairs", es |-> es]>>
Cond(es) == <<[k |-> "cond", es |-> es]>>
Ignored(es) == <<[k |-> "ignored", es |-> es]>>

\* "ID >", 1, "Name $EXISTS", true; Cond{ID: 1, Name: 2}, Cond{Name: 1, ID: nil};
\* Cond{Name: nil}; "ID $IN", a list; "ID > 2"; none
Arguable ==
  {Pairs(<<Id(">", 1), Named("exists", 1)>>),
   Cond(<<Id("=", 1), Named("=", 2)>>) \o Cond(<<Named("=", 1), Id("=", Null)>>),
   Cond(<<Named("=", Null)>>), Pairs(<<Id("in", 1)>>),
   Ignored(<<Id(">", 2)>>), <<>>}
FewPages == {<<0, 1>>, <<1, 2>>, <<2, 2>>}
=============================================================================
