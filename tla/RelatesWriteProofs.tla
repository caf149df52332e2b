------------------------- MODULE RelatesWriteProofs -------------------------
(***************************************************************************)
(* Theorems about RelatesWrite, for any number of documents, any related   *)
(* documents and any lists of options.  They say how far the code goes     *)
(* from the design comment, model.go:47-54, which MCRelatesWrite shows it  *)
(* does not keep.                                                          *)
(***************************************************************************)
EXTENDS RelatesWrite, FiniteSetTheorems, SequenceTheorems, TLAPS

Ops(op) == {i \in 1 .. Len(written) : written[i].op = op}

\* The design updates each related document that has an id, and deletes rows.  The code
\* never goes on after an update: one that the database has run is its last statement,
\* is the only one, and ends the call in a panic; and it deletes nothing.
UpdateEndsCall ==
  \A i \in Ops("update") \cup Ops("delete") : i = Len(written) /\ ret = "panic"

\* The design creates each related document without an id.  The code runs at most one
\* Create for the HAS_MANY value of a document, however many new documents it has.
OneNewRowPerDocument == Cardinality(Ops("create")) <= doc

\* The design does nothing for a field that IgnoreFields names.  The code spares its
\* related rows, whatever other lists name it too, but inserts new ones.
IgnoreSparesRows ==
  "ignore" \in named => \A i \in 1 .. Len(written) : written[i].for = "has_many" => written[i].op = "create"

RelatesTypeOK ==
  /\ named \subseteq ToSet(Lists) /\ doc \in Nat /\ todo \subseteq Field
  /\ pending \subseteq Stmt /\ written \in Seq(Stmt)
  /\ ret \in {"none", "nil", "err", "panic"}

\* Nothing is stored to compare with, so nothing is deleted; only a HAS_MANY that is
\* not looked at any more creates, in one statement, and one that is ignored does
\* nothing else.
PendingOK ==
  /\ ret # "none" => pending = {}
  /\ \A s \in pending : /\ s.op # "delete"
                        /\ s.op = "create" => "has_many" \notin todo
                        /\ "ignore" \in named /\ s.for = "has_many" => s.op = "create"
  /\ \A s, t \in pending : s.op = "create" /\ t.op = "create" => s = t

\* The document at hand has created its row, or it may still come.
CreatesOK ==
  /\ Cardinality(Ops("create")) <= doc
  /\ ("has_many" \in todo \/ \E s \in pending : s.op = "create")
       => Cardinality(Ops("create")) < doc

RelatesInv ==
  RelatesTypeOK /\ PendingOK /\ CreatesOK /\ UpdateEndsCall /\ IgnoreSparesRows

LEMMA OpsTypes ==
  ASSUME written \in Seq(Stmt), NEW op
  PROVE  IsFiniteSet(Ops(op)) /\ Cardinality(Ops(op)) \in Nat /\ Ops(op) \subseteq 1 .. Len(written)
<1>1. Ops(op) \subseteq 1 .. Len(written)
  BY DEF Ops
<1>2. IsFiniteSet(1 .. Len(written))
  BY LenProperties, FS_Interval
<1> QED
  BY <1>1, <1>2, FS_Subset, FS_CardinalityType

LEMMA Ignored == "ignore" \in named => Strategy = 1
<1> SUFFICES ASSUME "ignore" \in named PROVE Strategy = 1
  OBVIOUS
<1> DEFINE S == {i \in 1 .. 4 : Lists[i] \in named \/ i = 4}
<1>1. 1 \in S /\ \A i \in S : 1 <= i
  BY DEF Lists
<1>2. \A i \in S : (\A j \in S : i <= j) => i = 1
  BY <1>1
<1> HIDE DEF S
<1>3. Min(S) = 1
  BY <1>1, <1>2 DEF Min
<1> QED
  BY <1>3 DEF Strategy, S

LEMMA NewDocsOne == ASSUME NEW v, NEW i \in NewDocs(v), NEW j \in NewDocs(v) PROVE i = j
<1>1. i \in Nat /\ j \in Nat
  BY DEF NewDocs
<1>2. ~(i < j) /\ ~(j < i)
  BY <1>1 DEF NewDocs
<1> QED
  BY <1>1, <1>2

LEMMA StmtsTypes ==
  ASSUME doc \in Nat, NEW op \in {"create", "update", "delete"}, NEW f \in Field, NEW S \in SUBSET Nat
  PROVE  /\ Stmts(op, f, S) \subseteq Stmt
         /\ \A s \in Stmts(op, f, S) : s.op = op /\ s.for = f /\ s.at \in S
BY DEF Stmts, Stmt

\* The statements that one value of a relation leads to.
LEMMA StatementsOf ==
  ASSUME doc \in Nat, NEW f \in {"has_many", "ref_many", "ref_one"}, NEW v
  PROVE  /\ Statements(f, v) \subseteq Stmt
         /\ \A s \in Statements(f, v) :
              /\ s.op # "delete" /\ (s.op = "create" => f = "has_many")
              /\ "ignore" \in named /\ s.for = "has_many" => s.op = "create"
         /\ \A s, t \in Statements(f, v) : s.op = "create" /\ t.op = "create" => s = t
<1> DEFINE C == Stmts("create", f, NewDocs(v))
           U == Stmts("update", f, WithKey(v))
           D == Stmts("delete", f, NotStored(v))
<1>1. NewDocs(v) \in SUBSET Nat /\ WithKey(v) \in SUBSET Nat /\ NotStored(v) = {}
  BY DEF NewDocs, WithKey, NotStored, Stored
<1>2. f \in Field
  BY DEF Field
<1>3. C \subseteq Stmt /\ \A s \in C : s.op = "create"
  BY <1>1, <1>2, StmtsTypes
<1>4. U \subseteq Stmt /\ \A s \in U : s.op = "update" /\ s.for = f
  BY <1>1, <1>2, StmtsTypes
<1>5. D = {}
  BY <1>1 DEF Stmts
<1>6. \A s, t \in C : s = t
  BY NewDocsOne DEF Stmts
<1> HIDE DEF C, U, D
<1>7. CASE f = "has_many"
  <2>1. Statements(f, v) \subseteq C \cup U /\ ("ignore" \in named => Statements(f, v) \subseteq C)
    <3>1. Statements(f, v) = (IF Strategy >= 1 THEN C ELSE {}) \cup (IF Strategy >= 2 THEN U ELSE {})
                               \cup (IF Strategy >= 3 THEN D ELSE {})
      BY <1>7 DEF Statements, C, U, D
    <3> QED
      BY <1>5, <3>1, Ignored
  <2> QED
    BY <1>3, <1>4, <1>6, <1>7, <2>1
<1>8. CASE f # "has_many"
  <2>1. Statements(f, v) \subseteq U
    BY <1>8 DEF Statements, U
  <2> QED
    BY <1>4, <1>8, <2>1
<1> QED
  BY <1>7, <1>8

\* One more statement.
LEMMA RunOps ==
  ASSUME RelatesInv, NEW s \in pending, Run(s)
  PROVE  /\ written' \in Seq(Stmt) /\ Len(written') = Len(written) + 1
         /\ \A i \in 1 .. Len(written) : written'[i] = written[i]
         /\ written'[Len(written) + 1] = s
         /\ \A op : Ops(op)' = IF s.op = op THEN Ops(op) \cup {Len(written) + 1} ELSE Ops(op)
<1>1. s \in Stmt /\ written \in Seq(Stmt) /\ written' = Append(written, s)
  BY DEF RelatesInv, RelatesTypeOK, Run
<1>2. /\ written' \in Seq(Stmt) /\ Len(written') = Len(written) + 1
      /\ \A i \in 1 .. Len(written) : written'[i] = written[i]
      /\ written'[Len(written) + 1] = s
  BY <1>1
<1>3. Len(written) \in Nat
  BY <1>1
<1> QED
  BY <1>2, <1>3 DEF Ops

LEMMA RelatesInvInit == Init => RelatesInv
<1> SUFFICES ASSUME Init PROVE RelatesInv
  OBVIOUS
<1>1. RelatesTypeOK /\ PendingOK
  BY DEF Init, RelatesTypeOK, PendingOK, Field
<1>2. \A op : Ops(op) = {}
  BY DEF Init, Ops
<1>3. CreatesOK
  BY <1>2, FS_EmptySet DEF Init, CreatesOK
<1> QED
  BY <1>1, <1>2, <1>3 DEF Init, RelatesInv, UpdateEndsCall, IgnoreSparesRows

\* A relation is looked at: the call ends, or its statements are left.
LEMMA WalkStep ==
  ASSUME RelatesInv, Walking, NEW f \in todo, Seen(f), written' = written,
         ret' \in {"none", "err", "panic"},
         \/ pending' = pending
         \/ /\ f \in {"has_many", "ref_many", "ref_one"} /\ ret' = ret
            /\ \E v : pending' = Statements(f, v)
  PROVE  RelatesInv'
<1>1. \A op : Ops(op)' = Ops(op)
  BY DEF Ops
<1>2. Cardinality(Ops("create")) \in Nat /\ doc \in Nat
  BY OpsTypes DEF RelatesInv, RelatesTypeOK
<1>3. /\ named' = named /\ doc' = doc /\ todo' = todo \ {f} /\ pending = {} /\ ret = "none"
  BY DEF Seen, Walking
<1>4. /\ pending' \subseteq Stmt /\ (ret' # "none" => pending' = {})
      /\ \A s \in pending' :
           /\ s.op # "delete" /\ (s.op = "create" => f = "has_many")
           /\ "ignore" \in named /\ s.for = "has_many" => s.op = "create"
      /\ \A s, t \in pending' : s.op = "create" /\ t.op = "create" => s = t
  BY <1>2, <1>3, StatementsOf
<1>5. RelatesTypeOK'
  BY <1>3, <1>4 DEF RelatesInv, RelatesTypeOK
<1>6. PendingOK'
  BY <1>3, <1>4 DEF PendingOK
<1>7. CreatesOK'
  BY <1>1, <1>2, <1>3, <1>4 DEF RelatesInv, CreatesOK
<1>8. UpdateEndsCall' /\ IgnoreSparesRows'
  BY <1>1, <1>3 DEF RelatesInv, UpdateEndsCall, IgnoreSparesRows
<1> QED
  BY <1>5, <1>6, <1>7, <1>8 DEF RelatesInv

LEMMA UpdateStep == ASSUME RelatesInv, Update PROVE RelatesInv'
<1>1. PICK s \in pending : s.op = "update" /\ Run(s) /\ pending' = {} /\ ret' = "panic"
  BY DEF Update
<1>2. /\ ret = "none" /\ named' = named /\ doc' = doc /\ todo' = todo /\ s \in Stmt
  BY <1>1 DEF Run, RelatesInv, RelatesTypeOK
<1>3. /\ written' \in Seq(Stmt) /\ Len(written') = Len(written) + 1
      /\ \A i \in 1 .. Len(written) : written'[i] = written[i]
      /\ written'[Len(written) + 1] = s /\ Len(written) \in Nat
      /\ Ops("create")' = Ops("create")
      /\ Ops("update")' = Ops("update") \cup {Len(written) + 1}
      /\ Ops("delete")' = Ops("delete")
  BY <1>1, RunOps DEF RelatesInv, RelatesTypeOK
<1>4. RelatesTypeOK' /\ PendingOK'
  BY <1>1, <1>2, <1>3 DEF RelatesInv, RelatesTypeOK, PendingOK
<1>5. CreatesOK'
  BY <1>1, <1>2, <1>3 DEF RelatesInv, CreatesOK, PendingOK
<1>6. UpdateEndsCall'
  BY <1>1, <1>2, <1>3 DEF RelatesInv, UpdateEndsCall
<1>7. IgnoreSparesRows'
  BY <1>1, <1>2, <1>3 DEF RelatesInv, IgnoreSparesRows, PendingOK
<1> QED
  BY <1>4, <1>5, <1>6, <1>7 DEF RelatesInv

LEMMA CreateStep == ASSUME RelatesInv, Create PROVE RelatesInv'
<1>1. PICK s \in pending : s.op = "create" /\ Run(s) /\ pending' = pending \ {s} /\ ret' = ret
  BY DEF Create
<1>2. /\ ret = "none" /\ named' = named /\ doc' = doc /\ todo' = todo /\ s \in Stmt
  BY <1>1 DEF Run, RelatesInv, RelatesTypeOK
<1>3. /\ written' \in Seq(Stmt) /\ Len(written') = Len(written) + 1
      /\ \A i \in 1 .. Len(written) : written'[i] = written[i]
      /\ written'[Len(written) + 1] = s /\ Len(written) \in Nat
      /\ Ops("create")' = Ops("create") \cup {Len(written) + 1}
      /\ Ops("update")' = Ops("update") /\ Ops("delete")' = Ops("delete")
  BY <1>1, RunOps DEF RelatesInv, RelatesTypeOK
<1>4. RelatesTypeOK' /\ PendingOK'
  BY <1>1, <1>2, <1>3 DEF RelatesInv, RelatesTypeOK, PendingOK
<1>5. CreatesOK'
  <2>1. Cardinality(Ops("create")) < doc /\ Cardinality(Ops("create")) \in Nat /\ doc \in Nat
    BY <1>1, OpsTypes DEF RelatesInv, RelatesTypeOK, CreatesOK
  <2>2. Cardinality(Ops("create"))' = Cardinality(Ops("create")) + 1
    <3>1. IsFiniteSet(Ops("create")) /\ Len(written) + 1 \notin Ops("create")
      BY <1>3, OpsTypes DEF RelatesInv, RelatesTypeOK
    <3>2. Cardinality(Ops("create") \cup {Len(written) + 1}) = Cardinality(Ops("create")) + 1
      BY <3>1, FS_AddElement
    <3> QED
      BY <1>3, <3>2
  <2>3. "has_many" \notin todo' /\ \A t \in pending' : t.op # "create"
    BY <1>1, <1>2 DEF RelatesInv, PendingOK
  <2> QED
    BY <1>2, <2>1, <2>2, <2>3 DEF CreatesOK
<1>6. UpdateEndsCall'
  BY <1>1, <1>2, <1>3 DEF RelatesInv, UpdateEndsCall
<1>7. IgnoreSparesRows'
  BY <1>1, <1>2, <1>3 DEF RelatesInv, IgnoreSparesRows
<1> QED
  BY <1>4, <1>5, <1>6, <1>7 DEF RelatesInv

\* Steps that run no statement and look at no relation.
LEMMA OtherStep ==
  ASSUME RelatesInv, StatementFails \/ NextDoc \/ Done
  PROVE  RelatesInv'
<1>1. written' = written /\ named' = named /\ ret = "none" /\ \A op : Ops(op)' = Ops(op)
  BY DEF StatementFails, NextDoc, Done, Walking, Ops
<1>2. pending' = {}
  BY DEF StatementFails, NextDoc, Done, Walking
<1>3. \/ doc' = doc /\ todo' = todo
      \/ doc' = doc + 1 /\ todo' = Field
  BY DEF StatementFails, NextDoc, Done
<1>4. Cardinality(Ops("create")) \in Nat /\ doc \in Nat
  BY OpsTypes DEF RelatesInv, RelatesTypeOK
<1>5. RelatesTypeOK'
  BY <1>1, <1>2, <1>3 DEF RelatesInv, RelatesTypeOK, StatementFails, NextDoc, Done
<1>6. PendingOK' /\ CreatesOK'
  BY <1>1, <1>2, <1>3, <1>4 DEF RelatesInv, PendingOK, CreatesOK
<1>7. UpdateEndsCall' /\ IgnoreSparesRows'
  BY <1>1 DEF RelatesInv, UpdateEndsCall, IgnoreSparesRows
<1> QED
  BY <1>5, <1>6, <1>7 DEF RelatesInv

LEMMA RelatesInvStep == RelatesInv /\ [Next]_vars => RelatesInv'
<1> SUFFICES ASSUME RelatesInv, [Next]_vars PROVE RelatesInv'
  OBVIOUS
<1>1. CASE Skip
  BY <1>1, WalkStep DEF Skip, Walking
<1>2. CASE HasOne
  BY <1>2, WalkStep DEF HasOne
<1>3. CASE NativePanics
  BY <1>3, WalkStep DEF NativePanics
<1>4. CASE ItemPanics
  BY <1>4, WalkStep DEF ItemPanics
<1>5. CASE VisitSome
  BY <1>5, WalkStep DEF VisitSome, Visit, Walking
<1>6. CASE UNCHANGED vars
  <2>1. \A op : Ops(op)' = Ops(op)
    BY <1>6 DEF vars, Ops
  <2> QED
    BY <1>6, <2>1 DEF vars, RelatesInv, RelatesTypeOK, PendingOK, CreatesOK, UpdateEndsCall,
      IgnoreSparesRows
<1> QED
  BY <1>1, <1>2, <1>3, <1>4, <1>5, <1>6, UpdateStep, CreateStep, OtherStep DEF Next, Rest

\* In every call of relatesWrite: nothing is left to delete, one statement creates the
\* new documents of a value, and an ignored HAS_MANY does nothing else.
THEOREM RelatesInvariant == Spec => []RelatesInv
<1>1. Init => RelatesInv
  BY RelatesInvInit
<1>2. RelatesInv /\ [Next]_vars => RelatesInv'
  BY RelatesInvStep
<1> QED
  BY <1>1, <1>2, PTL DEF Spec

\* However many related documents with ids there are, the one update that the database
\* has run ends the call in a panic: of the updates that the design asks for there is
\* never a second, and none after which the call goes on.
THEOREM UpdateEnds == Spec => []UpdateEndsCall
<1>1. RelatesInv => UpdateEndsCall
  BY DEF RelatesInv
<1> QED
  BY <1>1, RelatesInvariant, PTL

\* The new documents of a HAS_MANY are at most one statement, however many they are.
THEOREM OneNewRow == Spec => []OneNewRowPerDocument
<1>1. RelatesInv => OneNewRowPerDocument
  BY DEF RelatesInv, CreatesOK, OneNewRowPerDocument
<1> QED
  BY <1>1, RelatesInvariant, PTL

\* Of the design's "ignore" the code keeps this much: no related row of such a field is
\* updated or deleted, whatever other lists name it too.
THEOREM IgnoreSpares == Spec => []IgnoreSparesRows
<1>1. RelatesInv => IgnoreSparesRows
  BY DEF RelatesInv
<1> QED
  BY <1>1, RelatesInvariant, PTL
=============================================================================
