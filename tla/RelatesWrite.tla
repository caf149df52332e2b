---------------------------- MODULE RelatesWrite ----------------------------
(***************************************************************************)
(* One call of relatesWrite (model.go), which Create and Update make after *)
(* the rows of their own documents: it goes through the documents and, in  *)
(* the order of a map, through the relations that each has a value for.    *)
(* DataModel has it as some statements and some failures; here is which    *)
(* statements the kinds of relations and the lists of RelatesWriteOptions  *)
(* lead to, and which of them end the call.                                *)
(*                                                                         *)
(* The schema has one relation of each kind, to the primary key.  The      *)
(* value of a relation is looked at once, so it is chosen then.  What the  *)
(* design comment asks for instead is in MCRelatesWrite.                   *)
(***************************************************************************)
EXTENDS Integers, Sequences, SequencesExt, FiniteSetsExt

CONSTANTS
  Key,        \* primary keys, not 0, that related documents name
  MaxDocs,    \* bound: documents of the call
  MaxItems    \* bound: related documents in one value

\* brg_native is a REF_MANY whose bridge is no schema.
Field == {"has_one", "has_many", "ref_one", "ref_many", "brg_native"}
Lists == <<"ignore", "replace", "upsert", "append">>

NoKey == 0
\* A related document, a map or a struct.
Item == [shape : {"map", "struct"}, key : Key \cup {NoKey}]
Value(f) == IF f \in {"has_one", "ref_one"} THEN {<<i>> : i \in Item} ELSE SeqOf(Item, MaxItems)

VARIABLES
  named,      \* the lists of the options that name the fields
  doc,        \* number of the document at hand
  todo,       \* its relations that have not been looked at
  pending,    \* set of statements left for the relation at hand
  written,    \* statements that the database has run
  ret         \* how relatesWrite returned

vars == <<named, doc, todo, pending, written, ret>>

\* A statement, for which document of the call, kind of relation and document of its
\* value; a delete names the key of the row instead.
Stmt == [op : {"create", "update", "delete"}, doc : Nat, for : Field, at : Nat \cup Key]
Stmts(op, f, S) == {[op |-> op, doc |-> doc, for |-> f, at |-> i] : i \in S}

Init ==
  /\ named \in SUBSET ToSet(Lists)
  /\ doc = 1 /\ todo = Field
  /\ pending = {} /\ written = <<>>
  /\ ret = "none"

Walking == ret = "none" /\ pending = {}
Seen(f) == todo' = todo \ {f} /\ UNCHANGED <<named, doc>>

\* calcFieldStrategy: the number of the first list that names the field.
Strategy ==
  Min({i \in 1 .. 4 : Lists[i] \in named \/ i = 4})

----------------------------------------------------------------------------
\* The statements of one relation

WithKey(v) == {i \in 1 .. Len(v) : v[i].key # NoKey}

\* The rows that the value is compared with.  All reads them into a slice that NewVar
\* did not make: nothing, see Query.
Stored == {}

\* The new documents go to Create as one []any, which it takes for one row.
NewDocs(v) ==
  {i \in 1 .. Len(v) : v[i].key = NoKey /\ \A j \in 1 .. i - 1 : v[j].key # NoKey}

\* HAS_MANY deletes what is in the value and not stored, not the other way round.
NotStored(v) == {v[i].key : i \in {j \in WithKey(v) : \E s \in Stored : s.key # v[j].key}}

Statements(f, v) ==
  CASE f = "has_many" ->
         (IF Strategy >= 1 THEN Stmts("create", f, NewDocs(v)) ELSE {})
           \cup (IF Strategy >= 2 THEN Stmts("update", f, WithKey(v)) ELSE {})
           \cup (IF Strategy >= 3 THEN Stmts("delete", f, NotStored(v)) ELSE {})
    [] f = "ref_many" -> IF Strategy >= 1 THEN Stmts("update", f, WithKey(v)) ELSE {}
    [] f = "ref_one" -> Stmts("update", f, WithKey(v))

\* All creates, then the updates in the order of the value, then the deletes.
Order == [create |-> 1, update |-> 2, delete |-> 3]
Precedes(s, t) == Order[s.op] < Order[t.op] \/ (s.op = t.op /\ s.at < t.at)

----------------------------------------------------------------------------
\* Steps

\* No value, no relation, not the field it starts from, or a schema that is gone.
Skip ==
  /\ Walking
  /\ \E f \in todo : Seen(f)
  /\ UNCHANGED <<pending, written, ret>>

\* One: with a map autoScan asserts a type the pointer to it has not; with a struct
\* no row is an error, and the struct of a row that was found is no map.
HasOne ==
  /\ Walking /\ "has_one" \in todo
  /\ \E v \in Value("has_one") :
       ret' \in IF v[1].shape = "map" THEN {"panic"} ELSE {"err", "panic"}
  /\ Seen("has_one")
  /\ UNCHANGED <<pending, written>>

\* storedDocs.Addr() of a slice that has no address.
NativePanics ==
  /\ Walking /\ "brg_native" \in todo
  /\ ret' = "panic"
  /\ Seen("brg_native")
  /\ UNCHANGED <<pending, written>>

\* Map of a related document that is a struct.
ItemPanics ==
  /\ Walking
  /\ \E f \in todo \cap {"has_many", "ref_many", "ref_one"} :
       /\ \E v \in Value(f) : \E i \in 1 .. Len(v) : v[i].shape = "struct"
       /\ Seen(f)
  /\ ret' = "panic"
  /\ UNCHANGED <<pending, written>>

Visit(f, v) ==
  /\ Walking /\ f \in todo
  /\ \A i \in 1 .. Len(v) : v[i].shape = "map"
  /\ pending' = Statements(f, v)
  /\ Seen(f)
  /\ UNCHANGED <<written, ret>>

VisitSome == \E f \in {"has_many", "ref_many", "ref_one"} : \E v \in Value(f) : Visit(f, v)

Run(s) ==
  /\ ret = "none" /\ \A t \in pending : ~Precedes(t, s)
  /\ written' = Append(written, s)
  /\ UNCHANGED <<named, doc, todo>>

\* Afterwards Update runs relatesWrite for the values, a map that Item2List cannot take.
Update ==
  \E s \in pending :
    /\ s.op = "update" /\ Run(s)
    /\ pending' = {} /\ ret' = "panic"

Create ==
  \E s \in pending :
    /\ s.op = "create" /\ Run(s)
    /\ pending' = pending \ {s} /\ ret' = ret

StatementFails ==
  /\ ret = "none" /\ pending # {}
  /\ pending' = {} /\ ret' = "err"
  /\ UNCHANGED <<named, doc, todo, written>>

NextDoc ==
  /\ Walking /\ todo = {} /\ doc < MaxDocs
  /\ doc' = doc + 1 /\ todo' = Field
  /\ UNCHANGED <<named, pending, written, ret>>

Done ==
  /\ Walking /\ todo = {}
  /\ ret' = "nil"
  /\ UNCHANGED <<named, doc, todo, pending, written>>

\* The steps that look at no value of maps.
Rest ==
  \/ Skip \/ HasOne \/ NativePanics \/ ItemPanics
  \/ Update \/ Create \/ StatementFails \/ NextDoc \/ Done

Next == VisitSome \/ Rest

Spec == Init /\ [][Next]_vars
=============================================================================
