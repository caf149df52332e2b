------------------------------ MODULE Filters ------------------------------
(***************************************************************************)
(* Conditions of a query: filter.go builds Filters from what callers pass, *)
(* parseWhere (model.go) writes them as one SQL condition with parameters. *)
(* Holds reads that condition back the way a database does.                *)
(*                                                                         *)
(* Values are integers.  Nothing changes a Filter that And or Or has made, *)
(* and what parseWhere writes for it depends on nothing else: a Filter is  *)
(* that text (toks, attrs) here, made with it.  Beside the text stands     *)
(* what the Filter means, whether it says anything (says) and which rows   *)
(* it lets pass (pass); the program has no such fields and the text is     *)
(* never made from them.                                                   *)
(***************************************************************************)
EXTENDS Integers, Sequences, FiniteSets, Functions

CONSTANT Rows                    \* the rows of the table: [id, name]

Null == -1
Empty == 0                       \* the empty string
StringFields == {"name"}         \* the other field, "id", is a number

Entry == [f : {"id", "name"}, op : {"=", "!=", ">", "exists", "in"}, v : Int]
HasParam(e) == e.op # "exists"

\* Callers pass arguments: one [k |-> "pairs", es] for key, value, key, value..., or any
\* number of [k |-> "cond", es] for a Cond or a map, whose order is that of the map, of
\* [k |-> "filter", f], and of what is none of these: a lone string as in Find("ID > 2"),
\* the keys and values of a list of odd length.  es is what the caller wrote there.
Argument == [k : {"pairs", "cond", "ignored"}, es : Seq(Entry)]

----------------------------------------------------------------------------
\* What a database makes of a condition, a sequence of tokens

Word(w) == [t |-> w]
Atom(e) == [t |-> "atom", e |-> e]
Token == [t : {"(", ")", "AND", "OR"}] \cup [t : {"atom"}, e : Entry]
Takers == [t : {"atom"}, e : {e \in Entry : HasParam(e)}]

\* One comparison with a row; one with NULL is not true.
AtomTrue(e, row) ==
  LET x == row[e.f]
      known == x # Null /\ e.v # Null
  IN  \/ e.op = "=" /\ known /\ x = e.v
      \/ e.op = "!=" /\ known /\ x # e.v
      \/ e.op = ">" /\ known /\ x > e.v
      \/ e.op = "exists" /\ e.v = 1 /\ x # Null /\ (e.f \in StringFields => x # Empty)
      \/ e.op = "exists" /\ e.v = 0 /\ (x = Null \/ (e.f \in StringFields /\ x # Empty))

\* How many of the first i tokens are in T
HowMany(ts, T, i) == Cardinality({j \in 1 .. i : ts[j] \in T})

\* Where a word stands outside of all parentheses
Cuts(ts, w) ==
  {i \in 1 .. Len(ts) : ts[i] = Word(w) /\ HowMany(ts, {Word("(")}, i) = HowMany(ts, {Word(")")}, i)}

\* AND binds tighter than OR, and both are read from left to right: the last one outside
\* of parentheses is applied last.
Reading(row) ==
  LET holds[ts \in Seq(Token)] ==
        LET last(w) == CHOOSE i \in Cuts(ts, w) : \A j \in Cuts(ts, w) : j <= i
            left(w) == holds[SubSeq(ts, 1, last(w) - 1)]
            right(w) == holds[SubSeq(ts, last(w) + 1, Len(ts))]
        IN  IF Cuts(ts, "OR") # {} THEN left("OR") \/ right("OR")
            ELSE IF Cuts(ts, "AND") # {} THEN left("AND") /\ right("AND")
            ELSE IF Len(ts) > 1 THEN ts[1] = Word("(") /\ holds[SubSeq(ts, 2, Len(ts) - 1)]
            ELSE Len(ts) = 1 /\ ts[1].t = "atom" /\ AtomTrue(ts[1].e, row)
  IN  holds

Holds(ts, row) == Reading(row)[ts]

\* Parameters are bound by position.
Bound(where) ==
  [i \in DOMAIN where.toks |->
     IF where.toks[i] \in Takers
     THEN [where.toks[i] EXCEPT !.e.v = where.attrs[HowMany(where.toks, Takers, i)]]
     ELSE where.toks[i]]

\* A list is no parameter: database/sql refuses the statement.
Refused(where) == \E i \in DOMAIN where.toks : where.toks[i].t = "atom" /\ where.toks[i].e.op = "in"

Matching(where, rows) ==
  IF where.toks = <<>> THEN rows ELSE {row \in rows : Holds(Bound(where), row)}

----------------------------------------------------------------------------
\* parseWhere

Nothing == [toks |-> <<>>, attrs |-> <<>>]
EntrySql(e) == [toks |-> <<Atom(e)>>, attrs |-> IF HasParam(e) THEN <<e.v>> ELSE <<>>]

\* The next of n + 1 clauses; an empty one is left out.
Add(op, list, c) ==
  IF c.toks = <<>> THEN list
  ELSE [n |-> list.n + 1,
        toks |-> IF list.n = 0 THEN c.toks ELSE list.toks \o <<Word(op)>> \o c.toks,
        attrs |-> list.attrs \o c.attrs]

Joined(op, cs) ==
  LET list[i \in 0 .. Len(cs)] ==
        IF i = 0 THEN [n |-> 0, toks |-> <<>>, attrs |-> <<>>] ELSE Add(op, list[i - 1], cs[i])
  IN  list[Len(cs)]

\* Mutant of Group: no parentheses.
GroupBare(list) == [toks |-> list.toks, attrs |-> list.attrs]

\* Parentheses when there is more than one clause.
Group(list) ==
  [toks |-> IF list.n > 1 THEN <<Word("(")>> \o list.toks \o <<Word(")")>> ELSE list.toks,
   attrs |-> list.attrs]

SetItem(op, cs) == Group(Joined(op, cs))

ParseWhere(fs) == SetItem("AND", fs)

----------------------------------------------------------------------------
\* Filters, and what they and the arguments mean

\* The entries of an argument that count: a nil value in a Cond drops its key, in pairs
\* it does not; parseConditions passes over an argument that it does not know.
Kept(a) == {i \in DOMAIN a.es : a.k # "ignored" /\ (a.k = "cond" => a.es[i].v # Null)}

\* An argument of And ("AND") or Or ("OR"): does it restrict, and whom does it let pass?
Restricts(a) == IF a.k = "filter" THEN a.f.says ELSE Kept(a) # {}
Passes(op, a, row) ==
  IF a.k = "filter" THEN row \in a.f.pass
  ELSE IF op = "OR" THEN \E i \in Kept(a) : AtomTrue(a.es[i], row)
  ELSE \A i \in Kept(a) : AtomTrue(a.es[i], row)

\* And and Or differ in how they read entries.
ParseEntryList(op, a) ==
  SetItem(op, [i \in DOMAIN a.es |-> IF i \in Kept(a) THEN EntrySql(a.es[i]) ELSE Nothing])

Parsed(op, a) ==
  IF a.k = "filter" THEN a.f
  ELSE [toks |-> ParseEntryList(op, a).toks, attrs |-> ParseEntryList(op, a).attrs,
        says |-> Restricts(a), pass |-> {row \in Rows : Passes(op, a, row)}]

\* What is passed over adds no filter; here it adds one that says nothing.
ParseConditions(op, args) == [i \in DOMAIN args |-> Parsed(op, args[i])]

\* Several filters are ANDed by both.  Of no filters both make a nil *Filter, which may
\* be an argument in its turn and adds as little as an empty one.
FilterOf(fs) ==
  [toks |-> ParseWhere(fs).toks, attrs |-> ParseWhere(fs).attrs,
   says |-> \E i \in DOMAIN fs : fs[i].says,
   pass |-> {row \in Rows : \A i \in DOMAIN fs : fs[i].says => row \in fs[i].pass}]

And(args) == FilterOf(ParseConditions("AND", args))
Or(args) == FilterOf(ParseConditions("OR", args))
Nil == And(<<>>)
=============================================================================
