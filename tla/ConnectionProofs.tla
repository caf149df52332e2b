-------------------------- MODULE ConnectionProofs --------------------------
(***************************************************************************)
(* Proofs about Namespace and Connection for behaviours in which no two    *)
(* registrations overlap: what they leave of the schemas; and, whatever    *)
(* overlaps, which tables Init has created.                                *)
(*                                                                         *)
(* They rest on the invariants of NamespaceProofs.                         *)
(***************************************************************************)
EXTENDS NamespaceProofs

\* An entry for s that a registration may leave: the one a caller registered last, or
\* that of a bridge which no caller has registered.
Current(s, e) == e.ver = latest[s] \/ (e = Mock /\ latest[s] = -1 /\ s \in Bridges)

\* What run r, number i of its stack, stores under s.
StoredBy(r, i, s) == IF r.del THEN NoEntry ELSE IF i > 1 THEN Mock ELSE Declared(s, r.ver)

\* The clone of s that r has is as good as the schema; a schema that waits for the
\* registration of its bridge has a relation to one.
CloneOK(r, s) ==
  /\ s \in r.unread => r.snap[s] = NoEntry
  /\ s \notin r.unread => Current(s, r.snap[s])
  /\ Has(r.snap, s) => Has(schemas, s)
  /\ s \in r.cur => Def[s].kind = "refs" /\ r.snap[s].rel # "none"

RunLatest(r, i) ==
  /\ \A s \in Schema : CloneOK(r, s)
  /\ \A s \in Elems(r.todo) : Current(s, StoredBy(r, i, s))
RunsLatest(p) == \A i \in 1 .. Len(stack[p]) : RunLatest(stack[p][i], i)

\* Only what the running call is about to store may be out of date.
SchemasLatest ==
  \A s \in Schema :
    Current(s, schemas[s]) \/ \E p \in Proc : stack[p] # <<>> /\ s \in Elems(Top(p).todo)

\* Back from a nested registration, the bridge is a schema.
BackOK(p) == stack[p] # <<>> => \A s \in Top(p).cur : Has(schemas, Def[s].brg)

\* A relation whose bridge is gone is one that some run will work on.
BridgesKept ==
  \A s \in Schema : (schemas[s].rel \in {"native", "bridge"} /\ "panic" \notin hist) =>
    \/ Has(schemas, Def[s].brg)
    \/ \E p \in Proc : \E i \in 1 .. Len(stack[p]) : Unfinished(stack[p][i], s)

CallOK ==
  /\ OneStack /\ SchemasLatest /\ BridgesKept
  /\ \A p \in Proc : NestOK(p) /\ RunsLatest(p) /\ BackOK(p)

LatestInv ==
  /\ NestInv /\ latest \in [Schema -> Int]
  /\ "overlap" \notin hist => SchemasLatest /\ BridgesKept /\ \A p \in Proc : RunsLatest(p) /\ BackOK(p)

LEMMA EntryVersions ==
  /\ NoEntry.ver = -1 /\ Mock.ver = 0 /\ Mock # NoEntry
  /\ \A s, v : Declared(s, v).ver = v
BY DEF NoEntry, Mock, Declared

----------------------------------------------------------------------------
\* What a step does to the run on top

SameWork(r, o) == r.ver = o.ver /\ r.del = o.del

LEMMA StoreOneForm ==
  ASSUME RelInv, NEW p \in Proc, StoreOne(p)
  PROVE  /\ stack[p] # <<>> /\ Top(p).todo # <<>> /\ Top(p).unread = Schema
         /\ Head(Top(p).todo) \in Schema
         /\ \E r \in RunT :
              /\ stack' = SetTop(p, r) /\ SameWork(r, Top(p)) /\ r.todo = Tail(Top(p).todo)
              /\ r.unread = Schema /\ r.snap = Top(p).snap /\ r.cur = Top(p).cur /\ r.left = Top(p).left
         /\ schemas' = [schemas EXCEPT ![Head(Top(p).todo)] =
                          StoredBy(Top(p), Len(stack[p]), Head(Top(p).todo))]
         /\ latest' = latest /\ hist' = hist
<1> DEFINE o == Top(p)
           t == Tail(o.todo)
           r == [o EXCEPT !.todo = t]
<1>1. stack[p] # <<>> /\ o.todo # <<>> /\ stack' = SetTop(p, r) /\ latest' = latest /\ hist' = hist
  BY DEF StoreOne, Storing
<1>2. schemas' = [schemas EXCEPT ![Head(Top(p).todo)] =
                    StoredBy(Top(p), Len(stack[p]), Head(Top(p).todo))]
  BY DEF StoreOne, StoredBy
<1>3. o \in RunT /\ RunOK(o)
  BY <1>1, TopTypes
<1>4. t \in Seq(Schema) /\ Head(o.todo) \in Schema
  <2>1. o.todo \in Seq(Schema)
    BY <1>3 DEF RunT
  <2> QED
    BY <1>1, <2>1, HeadTailProperties
<1>5. o.unread = Schema
  BY <1>1, <1>3 DEF RunOK
<1>6. r \in RunT
  <2>1. r = [o EXCEPT !.todo = t]
    OBVIOUS
  <2> HIDE DEF r, o, t
  <2> QED
    BY <1>3, <1>4, <2>1 DEF RunT
<1>7. /\ r.ver = o.ver /\ r.del = o.del /\ r.todo = t /\ r.unread = o.unread
      /\ r.snap = o.snap /\ r.cur = o.cur /\ r.left = o.left
  BY <1>3 DEF RunT
<1> HIDE DEF r, t
<1>8. t = Tail(o.todo)
  BY DEF t
<1> QED
  BY <1>1, <1>2, <1>4, <1>5, <1>6, <1>7, <1>8 DEF SameWork

LEMMA ReadOneForm ==
  ASSUME RelInv, NEW p \in Proc, ReadOne(p)
  PROVE  /\ stack[p] # <<>> /\ Top(p).todo = <<>>
         /\ \E s \in Top(p).unread : \E r \in RunT :
              /\ s \in Schema /\ stack' = SetTop(p, r) /\ SameWork(r, Top(p)) /\ r.todo = <<>>
              /\ r.unread = Top(p).unread \ {s} /\ r.cur = {} /\ r.left = Schema
              /\ \A x \in Schema : r.snap[x] = IF x = s THEN schemas[s] ELSE Top(p).snap[x]
         /\ schemas' = schemas /\ latest' = latest /\ hist' = hist
<1> DEFINE o == Top(p)
<1>1. PICK s \in o.unread :
        stack' = SetTop(p, [o EXCEPT !.unread = @ \ {s}, !.snap = [@ EXCEPT ![s] = schemas[s]]])
  BY DEF ReadOne
<1> DEFINE u == o.unread \ {s}
           c == [o.snap EXCEPT ![s] = schemas[s]]
           r == [o EXCEPT !.unread = u, !.snap = c]
<1>2. /\ stack[p] # <<>> /\ o.todo = <<>> /\ o.unread # {} /\ stack' = SetTop(p, r)
      /\ schemas' = schemas /\ latest' = latest /\ hist' = hist
  BY <1>1 DEF ReadOne, Reading
<1>3. o \in RunT /\ RunOK(o)
  BY <1>2, TopTypes
<1>4. schemas \in [Schema -> Entry] /\ s \in Schema
  BY <1>3 DEF RelInv, RunsTypeOK, RunT
<1>5. u \in SUBSET Schema /\ c \in [Schema -> Entry]
      /\ \A x \in Schema : c[x] = IF x = s THEN schemas[s] ELSE o.snap[x]
  BY <1>3, <1>4 DEF RunT
<1>6. r \in RunT
  <2>1. r = [o EXCEPT !.unread = u, !.snap = c]
    OBVIOUS
  <2> HIDE DEF r, o, u, c
  <2> QED
    BY <1>3, <1>5, <2>1 DEF RunT
<1>7. /\ r.ver = o.ver /\ r.del = o.del /\ r.todo = o.todo /\ r.unread = u
      /\ r.snap = c /\ r.cur = o.cur /\ r.left = o.left
  BY <1>3 DEF RunT
<1>8. o.cur = {} /\ o.left = Schema
  BY <1>2, <1>3 DEF RunOK
<1> HIDE DEF r, c
<1> QED
  BY <1>2, <1>4, <1>5, <1>6, <1>7, <1>8 DEF SameWork

\* The clone of s is stored back.
FinishForm(p, s, r, v) ==
  /\ stack' = SetTop(p, r) /\ SameWork(r, Top(p)) /\ r.todo = <<>> /\ r.unread = {}
  /\ r.snap = Top(p).snap /\ r.left = Top(p).left \ {s} /\ r.cur = {}
  /\ schemas' = [schemas EXCEPT ![s] = [Top(p).snap[s] EXCEPT !.rel = v]]
  /\ latest' = latest /\ hist' = hist

LEMMA RelateOneForm ==
  ASSUME RelInv, NEW p \in Proc, RelateOne(p)
  PROVE  /\ stack[p] # <<>> /\ Top(p).todo = <<>> /\ Top(p).unread = {}
         /\ \E s \in Schema : \E r \in RunT : \E v \in {"plain", "bridge"} :
              /\ Top(p).snap[s].rel # "none" /\ FinishForm(p, s, r, v)
              /\ v = "bridge" => Has(Top(p).snap, Def[s].brg)
<1> DEFINE o == Top(p)
<1>1. PICK s \in Pending(p) :
        /\ RelOf(s, o.snap) \in {"plain", "bridge"}
        /\ schemas' = [schemas EXCEPT ![s] = [o.snap[s] EXCEPT !.rel = RelOf(s, o.snap)]]
        /\ stack' = SetTop(p, [o EXCEPT !.left = @ \ {s}])
  BY DEF RelateOne, Finished
<1> DEFINE l == o.left \ {s}
           r == [o EXCEPT !.left = l]
           v == RelOf(s, o.snap)
<1>2. /\ stack[p] # <<>> /\ o.todo = <<>> /\ o.unread = {} /\ o.cur = {}
      /\ stack' = SetTop(p, r) /\ latest' = latest /\ hist' = hist
  BY <1>1 DEF RelateOne, Working
<1>3. o \in RunT
  BY <1>2, TopTypes
<1>4. s \in Schema /\ l \in SUBSET Schema /\ o.snap[s].rel # "none"
  BY <1>3 DEF Pending, RunT
<1>5. r \in RunT
  <2>1. r = [o EXCEPT !.left = l]
    OBVIOUS
  <2> HIDE DEF r, o, l
  <2> QED
    BY <1>3, <1>4, <2>1 DEF RunT
<1>6. /\ r.ver = o.ver /\ r.del = o.del /\ r.todo = o.todo /\ r.unread = o.unread
      /\ r.snap = o.snap /\ r.cur = o.cur /\ r.left = l
  BY <1>3 DEF RunT
<1>7. v = "bridge" => Has(o.snap, Def[s].brg)
  BY <1>4, SchemaTypes DEF RelOf
<1>8. /\ v \in {"plain", "bridge"}
      /\ schemas' = [schemas EXCEPT ![s] = [o.snap[s] EXCEPT !.rel = v]]
  BY <1>1
<1> HIDE DEF r, v
<1>9. FinishForm(p, s, r, v)
  BY <1>2, <1>6, <1>8 DEF FinishForm, SameWork
<1> QED
  BY <1>2, <1>4, <1>5, <1>7, <1>8, <1>9

LEMMA StoreNativeForm ==
  ASSUME RelInv, NEW p \in Proc, StoreNative(p)
  PROVE  /\ stack[p] # <<>> /\ Top(p).todo = <<>> /\ Top(p).unread = {}
         /\ \E s \in Top(p).cur : \E r \in RunT : s \in Schema /\ FinishForm(p, s, r, "native")
<1> DEFINE o == Top(p)
<1>1. PICK s \in o.cur :
        /\ schemas' = [schemas EXCEPT ![s] = [o.snap[s] EXCEPT !.rel = "native"]]
        /\ stack' = SetTop(p, [o EXCEPT !.left = @ \ {s}, !.cur = {}])
  BY DEF StoreNative
<1> DEFINE l == o.left \ {s}
           r == [o EXCEPT !.left = l, !.cur = {}]
<1>2. stack[p] # <<>> /\ o.cur # {} /\ stack' = SetTop(p, r) /\ latest' = latest /\ hist' = hist
  BY <1>1 DEF StoreNative
<1>3. o \in RunT /\ RunOK(o)
  BY <1>2, TopTypes
<1>4. s \in Schema /\ l \in SUBSET Schema /\ o.todo = <<>> /\ o.unread = {}
  BY <1>2, <1>3 DEF RunT, RunOK
<1>5. r \in RunT
  <2>1. r = [o EXCEPT !.left = l, !.cur = {}]
    OBVIOUS
  <2> HIDE DEF r, o, l
  <2> QED
    BY <1>3, <1>4, <2>1 DEF RunT
<1>6. /\ r.ver = o.ver /\ r.del = o.del /\ r.todo = o.todo /\ r.unread = o.unread
      /\ r.snap = o.snap /\ r.cur = {} /\ r.left = l
  BY <1>3 DEF RunT
<1> HIDE DEF r
<1>7. FinishForm(p, s, r, "native")
  BY <1>1, <1>2, <1>4, <1>6 DEF FinishForm, SameWork
<1> QED
  BY <1>2, <1>4, <1>5, <1>7

\* The step of a run that goes on.
LEMMA TopStepLatest ==
  ASSUME RelInv, CallOK, NEW p \in Proc, stack[p] # <<>>,
         NEW r \in RunT, stack' = SetTop(p, r), latest' = latest,
         \A s \in Schema : CloneOK(r, s)',
         \A s \in Elems(r.todo) : Current(s, StoredBy(r, Len(stack[p]), s)),
         Len(stack[p]) > 1 => \A s \in Schema : Has(schemas, s) => Has(schemas', s),
         \A s \in Schema : Current(s, schemas'[s]) \/ s \in Elems(r.todo),
         \A s \in r.cur : Has(schemas', Def[s].brg)
  PROVE  SchemasLatest' /\ \A q \in Proc : RunsLatest(q)' /\ BackOK(q)'
<1> DEFINE n == Len(stack[p])
<1>1. RunsTypeOK /\ n \in 1 .. n
  BY TopTypes DEF RelInv
<1>2. /\ stack' \in [Proc -> Seq(RunT)]
      /\ \A q \in Proc : Len(stack'[q]) = Len(stack[q])
      /\ \A q \in Proc : \A i \in 1 .. Len(stack[q]) :
           stack'[q][i] = IF q = p /\ i = n THEN r ELSE stack[q][i]
  BY <1>1, SetTopStack
<1>3. Len(stack'[p]) = n /\ stack'[p][n] = r /\ Top(p)' = r /\ stack'[p] # <<>>
  <2>1. Len(stack'[p]) = n /\ stack'[p][n] = r
    BY <1>1, <1>2
  <2>2. stack'[p] # <<>>
    BY <1>1, <2>1, EmptySeq
  <2> QED
    BY <2>1, <2>2 DEF Top
<1>4. \A q \in Proc : q # p => stack'[q] = <<>>
  <2>1. \A q \in Proc : q # p => stack[q] = <<>>
    BY DEF CallOK, OneStack
  <2>2. \A q \in Proc : q # p => stack'[q] = stack[q]
    BY <1>1 DEF SetTop, RunsTypeOK
  <2> QED
    BY <2>1, <2>2
<1>5. SchemasLatest'
  <2> SUFFICES ASSUME NEW s \in Schema
               PROVE  \/ Current(s, schemas[s])'
                      \/ \E q \in Proc : stack'[q] # <<>> /\ s \in Elems(Top(q).todo)'
    BY DEF SchemasLatest
  <2>1. Current(s, schemas'[s]) => Current(s, schemas[s])'
    BY DEF Current
  <2>2. Elems(Top(p).todo)' = Elems(r.todo)
    BY <1>3 DEF Elems
  <2> QED
    BY <1>3, <2>1, <2>2
<1>6. ASSUME NEW q \in Proc, q # p PROVE RunsLatest(q)' /\ BackOK(q)'
  <2>1. Len(stack'[q]) = 0 /\ stack'[q] = <<>>
    BY <1>4, <1>6, EmptySeq
  <2> QED
    BY <2>1 DEF RunsLatest, BackOK
<1>7. BackOK(p)'
  BY <1>3 DEF BackOK
<1>8. RunsLatest(p)'
  <2> SUFFICES ASSUME NEW i \in 1 .. n PROVE RunLatest(stack[p][i], i)'
    BY <1>3 DEF RunsLatest
  <2>1. CASE i = n
    <3>1. \A s \in Schema : CloneOK(stack[p][i], s)'
      BY <1>3, <2>1 DEF CloneOK
    <3>2. \A s \in Elems(stack'[p][i].todo) : Current(s, StoredBy(stack[p][i], i, s))'
      BY <1>3, <2>1 DEF Current, StoredBy
    <3> QED
      BY <3>1, <3>2 DEF RunLatest, Elems
  <2>2. CASE i # n
    <3>1. n > 1 /\ stack'[p][i] = stack[p][i] /\ RunLatest(stack[p][i], i)
      BY <1>1, <1>2, <2>2 DEF CallOK, RunsLatest
    <3>2. ASSUME NEW s \in Schema PROVE CloneOK(stack[p][i], s)'
      <4>1. CloneOK(stack[p][i], s)
        BY <3>1 DEF RunLatest
      <4>2. Has(stack[p][i].snap, s) => Has(schemas', s)
        BY <3>1, <4>1 DEF CloneOK
      <4> QED
        BY <3>1, <4>1, <4>2 DEF CloneOK, Current, Has
    <3>3. \A s \in Elems(stack'[p][i].todo) : Current(s, StoredBy(stack[p][i], i, s))'
      BY <3>1 DEF RunLatest, Current, StoredBy
    <3> QED
      BY <3>2, <3>3 DEF RunLatest, Elems
  <2> QED
    BY <2>1, <2>2
<1> QED
  BY <1>5, <1>6, <1>7, <1>8

LEMMA TopStepBridges ==
  ASSUME RelInv, CallOK, NEW p \in Proc, stack[p] # <<>>,
         NEW r \in RunT, stack' = SetTop(p, r), hist' = hist,
         \A s \in Schema : schemas'[s].rel \in {"native", "bridge"} =>
           \/ Has(schemas', Def[s].brg) \/ Unfinished(r, s)
           \/ /\ schemas[s].rel \in {"native", "bridge"} /\ ~Has(schemas, Def[s].brg)
              /\ Unfinished(Top(p), s) => Unfinished(r, s)
  PROVE  BridgesKept'
<1> DEFINE n == Len(stack[p])
<1>1. RunsTypeOK /\ n \in 1 .. n
  BY TopTypes DEF RelInv
<1>2. /\ \A q \in Proc : Len(stack'[q]) = Len(stack[q])
      /\ \A q \in Proc : \A i \in 1 .. Len(stack[q]) :
           stack'[q][i] = IF q = p /\ i = n THEN r ELSE stack[q][i]
  BY <1>1, SetTopStack
<1> SUFFICES ASSUME NEW s \in Schema, schemas'[s].rel \in {"native", "bridge"}, "panic" \notin hist,
                    ~Has(schemas', Def[s].brg)
             PROVE  \E q \in Proc : \E i \in 1 .. Len(stack'[q]) : Unfinished(stack'[q][i], s)
  BY DEF BridgesKept, Has, Unfinished
<1>3. CASE Unfinished(r, s)
  BY <1>1, <1>2, <1>3
<1>4. CASE ~Unfinished(r, s)
  <2>1. schemas[s].rel \in {"native", "bridge"} /\ ~Has(schemas, Def[s].brg) /\ ~Unfinished(Top(p), s)
    BY <1>4
  <2>2. PICK q \in Proc : \E i \in 1 .. Len(stack[q]) : Unfinished(stack[q][i], s)
    BY <2>1 DEF CallOK, BridgesKept
  <2>3. PICK i \in 1 .. Len(stack[q]) : Unfinished(stack[q][i], s)
    BY <2>2
  <2>4. ~(q = p /\ i = n)
    BY <2>1, <2>3 DEF Top
  <2> QED
    BY <1>2, <2>3, <2>4
<1> QED
  BY <1>3, <1>4

----------------------------------------------------------------------------
\* One lemma per step

LEMMA ElemsTail ==
  ASSUME NEW q \in Seq(Schema), q # <<>>
  PROVE  /\ Elems(q) \subseteq Schema /\ Head(q) \in Elems(q)
         /\ Elems(q) = {Head(q)} \cup Elems(Tail(q))
<1>1. /\ Len(q) \in Nat \ {0} /\ \A i \in 1 .. Len(q) : q[i] \in Schema
      /\ Len(Tail(q)) = Len(q) - 1
      /\ \A i \in 1 .. Len(q) - 1 : Tail(q)[i] = q[i + 1]
  BY EmptySeq, HeadTailProperties, LenProperties, ElementOfSeq
<1>2. Head(q) = q[1] /\ 1 \in 1 .. Len(q)
  BY <1>1
<1>3. Elems(Tail(q)) = {q[i + 1] : i \in 1 .. Len(q) - 1}
  BY <1>1 DEF Elems
<1>4. {q[i] : i \in 1 .. Len(q)} = {q[1]} \cup {q[i + 1] : i \in 1 .. Len(q) - 1}
  <2>1. ASSUME NEW i \in 1 .. Len(q)
        PROVE  i = 1 \/ \E j \in 1 .. Len(q) - 1 : i = j + 1
    <3>1. i # 1 => i - 1 \in 1 .. Len(q) - 1 /\ i = (i - 1) + 1
      BY <1>1
    <3> QED
      BY <3>1
  <2>2. \A j \in 1 .. Len(q) - 1 : j + 1 \in 1 .. Len(q)
    BY <1>1
  <2> QED
    BY <1>2, <2>1, <2>2
<1> QED
  BY <1>1, <1>2, <1>3, <1>4 DEF Elems

LEMMA EmptyElems == Elems(<<>>) = {}
BY EmptySeq DEF Elems

\* What CallOK says of the run on top.
LEMMA TopLatest ==
  ASSUME RelInv, CallOK, NEW p \in Proc, stack[p] # <<>>
  PROVE  /\ \A s \in Schema : CloneOK(Top(p), s)
         /\ \A s \in Elems(Top(p).todo) : Current(s, StoredBy(Top(p), Len(stack[p]), s))
         /\ \A s \in Schema : Current(s, schemas[s]) \/ s \in Elems(Top(p).todo)
         /\ \A s \in Top(p).cur : Has(schemas, Def[s].brg)
         /\ Len(stack[p]) > 1 => ~Top(p).del
<1>1. Len(stack[p]) \in 1 .. Len(stack[p])
  BY TopTypes
<1>2. RunLatest(Top(p), Len(stack[p])) /\ (Len(stack[p]) > 1 => ~Top(p).del)
  BY <1>1 DEF CallOK, RunsLatest, NestOK, Top
<1>3. \A s \in Schema : Current(s, schemas[s]) \/ s \in Elems(Top(p).todo)
  BY DEF CallOK, SchemasLatest, OneStack
<1>4. \A s \in Top(p).cur : Has(schemas, Def[s].brg)
  BY DEF CallOK, BackOK
<1> QED
  BY <1>2, <1>3, <1>4 DEF RunLatest

LEMMA StoreOneLatest ==
  ASSUME RelInv, CallOK, NEW p \in Proc, StoreOne(p)
  PROVE  SchemasLatest' /\ BridgesKept' /\ \A q \in Proc : RunsLatest(q)' /\ BackOK(q)'
<1> DEFINE o == Top(p)
           n == Len(stack[p])
           s == Head(o.todo)
<1>1. /\ stack[p] # <<>> /\ o.todo # <<>> /\ o.unread = Schema /\ s \in Schema
      /\ schemas' = [schemas EXCEPT ![s] = StoredBy(o, n, s)]
      /\ latest' = latest /\ hist' = hist
  BY StoreOneForm
<1>2. PICK r \in RunT :
        /\ stack' = SetTop(p, r) /\ SameWork(r, o) /\ r.todo = Tail(o.todo)
        /\ r.unread = Schema /\ r.snap = o.snap /\ r.cur = o.cur
  BY StoreOneForm
<1>3. o \in RunT /\ RunOK(o)
  BY <1>1, TopTypes
<1>4. o.todo \in Seq(Schema) /\ o.cur = {}
  BY <1>1, <1>3 DEF RunT, RunOK
<1>5. Elems(o.todo) = {s} \cup Elems(r.todo) /\ s \in Elems(o.todo)
  BY <1>1, <1>2, <1>4, ElemsTail
<1>6. /\ \A x \in Schema : CloneOK(o, x)
      /\ \A x \in Elems(o.todo) : Current(x, StoredBy(o, n, x))
      /\ \A x \in Schema : Current(x, schemas[x]) \/ x \in Elems(o.todo)
      /\ n > 1 => ~o.del
  BY <1>1, TopLatest
<1> DEFINE e == StoredBy(o, n, s)
<1>7. schemas'[s] = e /\ \A x \in Schema : x # s => schemas'[x] = schemas[x]
  BY <1>1 DEF RelInv, RunsTypeOK
<1>8. n > 1 => e # NoEntry
  BY <1>6, EntryVersions DEF StoredBy
<1>9. Current(s, e)
  BY <1>5, <1>6
<1>10. \A x \in Elems(r.todo) : Current(x, StoredBy(r, n, x))
  BY <1>2, <1>5, <1>6 DEF StoredBy, SameWork
<1> HIDE DEF e, o, s, n
<1>11. \A x \in Schema : CloneOK(r, x)'
  BY <1>1, <1>2, <1>4, <1>6 DEF CloneOK, Has
<1>12. \A x \in Schema : Current(x, schemas'[x]) \/ x \in Elems(r.todo)
  BY <1>5, <1>6, <1>7, <1>9
<1>13. n > 1 => \A x \in Schema : Has(schemas, x) => Has(schemas', x)
  BY <1>7, <1>8 DEF Has
<1>14. SchemasLatest' /\ \A q \in Proc : RunsLatest(q)' /\ BackOK(q)'
  BY <1>1, <1>2, <1>4, <1>10, <1>11, <1>12, <1>13, TopStepLatest DEF n
<1>15. BridgesKept'
  BY <1>1, <1>2, TopStepBridges DEF Unfinished
<1> QED
  BY <1>14, <1>15

LEMMA ReadOneLatest ==
  ASSUME RelInv, CallOK, NEW p \in Proc, ReadOne(p)
  PROVE  SchemasLatest' /\ BridgesKept' /\ \A q \in Proc : RunsLatest(q)' /\ BackOK(q)'
<1> DEFINE o == Top(p)
           n == Len(stack[p])
<1>1. stack[p] # <<>> /\ o.todo = <<>> /\ schemas' = schemas /\ latest' = latest /\ hist' = hist
  BY ReadOneForm
<1>2. PICK s \in o.unread : \E r \in RunT :
        /\ s \in Schema /\ stack' = SetTop(p, r) /\ SameWork(r, o) /\ r.todo = <<>>
        /\ r.unread = o.unread \ {s} /\ r.cur = {} /\ r.left = Schema
        /\ \A x \in Schema : r.snap[x] = IF x = s THEN schemas[s] ELSE o.snap[x]
  BY ReadOneForm
<1>3. PICK r \in RunT :
        /\ s \in Schema /\ stack' = SetTop(p, r) /\ SameWork(r, o) /\ r.todo = <<>>
        /\ r.unread = o.unread \ {s} /\ r.cur = {} /\ r.left = Schema
        /\ \A x \in Schema : r.snap[x] = IF x = s THEN schemas[s] ELSE o.snap[x]
  BY <1>2
<1>4. (\A x \in Schema : CloneOK(o, x)) /\ \A x \in Schema : Current(x, schemas[x])
  BY <1>1, TopLatest, EmptyElems
<1> HIDE DEF o
<1>5. ASSUME NEW x \in Schema PROVE CloneOK(r, x)'
  <2>1. CloneOK(o, x) /\ Current(x, schemas[x])
    BY <1>4
  <2>2. CASE x = s
    BY <1>1, <1>3, <2>1, <2>2 DEF CloneOK, Current, Has
  <2>3. CASE x # s
    BY <1>1, <1>3, <2>1, <2>3 DEF CloneOK, Current, Has
  <2> QED
    BY <2>2, <2>3
<1>6. Elems(r.todo) = {}
  BY <1>3, EmptyElems
<1>7. SchemasLatest' /\ \A q \in Proc : RunsLatest(q)' /\ BackOK(q)'
  BY <1>1, <1>3, <1>4, <1>5, <1>6, TopStepLatest
<1>8. ASSUME NEW x \in Schema, schemas[x].rel \in {"native", "bridge"}, Unfinished(o, x)
      PROVE  Unfinished(r, x)
  BY <1>3, <1>8 DEF Unfinished
<1>9. BridgesKept'
  BY <1>1, <1>3, <1>8, TopStepBridges DEF o
<1> QED
  BY <1>7, <1>9
LEMMA FinishLatest ==
  ASSUME RelInv, CallOK, NEW p \in Proc, stack[p] # <<>>, Top(p).todo = <<>>, Top(p).unread = {},
         NEW s \in Schema, NEW r \in RunT, NEW v \in {"plain", "native", "bridge"},
         FinishForm(p, s, r, v), Top(p).snap[s].rel # "none",
         v # "plain" => Has(schemas, Def[s].brg)
  PROVE  SchemasLatest' /\ BridgesKept' /\ \A q \in Proc : RunsLatest(q)' /\ BackOK(q)'
<1> DEFINE o == Top(p)
           e == [o.snap[s] EXCEPT !.rel = v]
<1>1. /\ stack' = SetTop(p, r) /\ r.todo = <<>> /\ r.unread = {} /\ r.snap = o.snap
      /\ r.left = o.left \ {s} /\ r.cur = {} /\ schemas' = [schemas EXCEPT ![s] = e]
      /\ latest' = latest /\ hist' = hist
  BY DEF FinishForm
<1>2. o \in RunT
  BY TopTypes
<1>3. o.snap[s] \in Entry
  BY <1>2 DEF RunT
<1>4. e.rel = v /\ e.ver = o.snap[s].ver
  BY <1>3 DEF Entry
<1>5. e # NoEntry
  BY <1>4, EntryTypes
<1>6. /\ \A x \in Schema : CloneOK(o, x)
      /\ \A x \in Schema : Current(x, schemas[x])
  BY TopLatest, EmptyElems
<1>7. Current(s, e)
  <2>1. Current(s, o.snap[s]) /\ o.snap[s] # Mock
    BY <1>6, EntryTypes DEF CloneOK
  <2> QED
    BY <1>4, <2>1 DEF Current
<1> HIDE DEF e
<1>8. schemas'[s] = e /\ \A x \in Schema : x # s => schemas'[x] = schemas[x]
  BY <1>1 DEF RelInv, RunsTypeOK
<1>9. \A x \in Schema : Has(schemas, x) => Has(schemas', x)
  BY <1>5, <1>8 DEF Has
<1> HIDE DEF o
<1>10. ASSUME NEW x \in Schema PROVE CloneOK(r, x)'
  <2>1. CloneOK(o, x)
    BY <1>6
  <2>2. r.unread = {} /\ r.snap = o.snap /\ r.cur = {} /\ o.unread = {}
    BY <1>1 DEF o
  <2>3. Current(x, o.snap[x]) /\ (Has(o.snap, x) => Has(schemas', x))
    BY <1>9, <2>1, <2>2 DEF CloneOK
  <2> QED
    BY <1>1, <2>2, <2>3 DEF CloneOK, Current, Has
<1>11. \A x \in Schema : Current(x, schemas'[x])
  BY <1>6, <1>7, <1>8
<1>12. Elems(r.todo) = {}
  BY <1>1, EmptyElems
<1>13. SchemasLatest' /\ \A q \in Proc : RunsLatest(q)' /\ BackOK(q)'
  BY <1>1, <1>9, <1>10, <1>11, <1>12, TopStepLatest
<1>14. ASSUME NEW x \in Schema, schemas'[x].rel \in {"native", "bridge"}, ~Has(schemas', Def[x].brg)
       PROVE  /\ schemas[x].rel \in {"native", "bridge"} /\ ~Has(schemas, Def[x].brg)
              /\ Unfinished(o, x) => Unfinished(r, x)
  <2>1. ~Has(schemas, Def[x].brg)
    BY <1>9, <1>14, SchemaTypes
  <2>2. x # s
    <3>1. x = s => v # "plain"
      BY <1>4, <1>8, <1>14
    <3> QED
      BY <2>1, <3>1
  <2>3. Unfinished(o, x) => Unfinished(r, x)
    BY <1>1, <2>2 DEF Unfinished, o
  <2> QED
    BY <1>8, <1>14, <2>1, <2>2, <2>3
<1>15. BridgesKept'
  BY <1>1, <1>14, TopStepBridges DEF o
<1> QED
  BY <1>13, <1>15

LEMMA RelateOneLatest ==
  ASSUME RelInv, CallOK, NEW p \in Proc, RelateOne(p)
  PROVE  SchemasLatest' /\ BridgesKept' /\ \A q \in Proc : RunsLatest(q)' /\ BackOK(q)'
<1>1. stack[p] # <<>> /\ Top(p).todo = <<>> /\ Top(p).unread = {}
  BY RelateOneForm
<1>2. PICK s \in Schema : \E r \in RunT : \E v \in {"plain", "bridge"} :
        /\ Top(p).snap[s].rel # "none" /\ FinishForm(p, s, r, v)
        /\ v = "bridge" => Has(Top(p).snap, Def[s].brg)
  BY RelateOneForm
<1>3. PICK r \in RunT : \E v \in {"plain", "bridge"} :
        /\ Top(p).snap[s].rel # "none" /\ FinishForm(p, s, r, v)
        /\ v = "bridge" => Has(Top(p).snap, Def[s].brg)
  BY <1>2
<1>4. PICK v \in {"plain", "bridge"} :
        /\ Top(p).snap[s].rel # "none" /\ FinishForm(p, s, r, v)
        /\ v = "bridge" => Has(Top(p).snap, Def[s].brg)
  BY <1>3
<1>5. v # "plain" => Has(schemas, Def[s].brg)
  BY <1>1, <1>4, TopLatest, SchemaTypes DEF CloneOK
<1>6. v \in {"plain", "native", "bridge"}
  OBVIOUS
<1> QED
  BY <1>1, <1>4, <1>5, <1>6, FinishLatest

LEMMA StoreNativeLatest ==
  ASSUME RelInv, CallOK, NEW p \in Proc, StoreNative(p)
  PROVE  SchemasLatest' /\ BridgesKept' /\ \A q \in Proc : RunsLatest(q)' /\ BackOK(q)'
<1>1. stack[p] # <<>> /\ Top(p).todo = <<>> /\ Top(p).unread = {}
  BY StoreNativeForm
<1>2. PICK s \in Top(p).cur : \E r \in RunT : s \in Schema /\ FinishForm(p, s, r, "native")
  BY StoreNativeForm
<1>3. PICK r \in RunT : s \in Schema /\ FinishForm(p, s, r, "native")
  BY <1>2
<1>4. Top(p).snap[s].rel # "none" /\ Has(schemas, Def[s].brg)
  BY <1>1, <1>3, TopLatest DEF CloneOK
<1> QED
  BY <1>1, <1>3, <1>4, FinishLatest

\* No caller has registered the bridge: the run has seen that it is not there.
LEMMA RegisterBridgeLatest ==
  ASSUME RelInv, CallOK, NEW p \in Proc, RegisterBridge(p)
  PROVE  SchemasLatest' /\ BridgesKept' /\ \A q \in Proc : RunsLatest(q)' /\ BackOK(q)'
<1> DEFINE o == Top(p)
           n == Len(stack[p])
<1>1. PICK s \in Pending(p) : \E w \in Seq(RunT) :
        /\ RelOf(s, o.snap) = "native" /\ s \in Schema
        /\ Len(w) = n + 1 /\ w[n + 1] = Run(<<Def[s].brg>>, 0, FALSE)
        /\ \A i \in 1 .. n : w[i] = IF i = n THEN [o EXCEPT !.cur = {s}] ELSE stack[p][i]
        /\ stack' = [stack EXCEPT ![p] = w]
  BY BridgeStack
<1> DEFINE c == [o EXCEPT !.cur = {s}]
           r == Run(<<Def[s].brg>>, 0, FALSE)
           d == Def[s].brg
<1>2. /\ stack[p] # <<>> /\ o.todo = <<>> /\ o.unread = {}
      /\ schemas' = schemas /\ latest' = latest /\ hist' = hist
  BY DEF RegisterBridge, Working
<1>3. o \in RunT /\ n \in 1 .. n /\ o = stack[p][n]
  BY <1>2, TopTypes DEF Top
<1>4. Def[s].kind = "refs" /\ d \in Bridges /\ d \in Schema /\ ~Has(o.snap, d)
  <2>1. Def[s].kind = "refs" /\ ~Has(o.snap, d)
    BY <1>1, SchemaTypes DEF RelOf
  <2> QED
    BY <1>1, <2>1, SchemaTypes DEF Bridges
<1>5. /\ c.cur = {s} /\ c.unread = {} /\ c.snap = o.snap /\ c.todo = <<>> /\ c.del = o.del
      /\ c.left = o.left
  BY <1>2, <1>3 DEF RunT
<1>6. /\ r.unread = Schema /\ r.todo = <<d>> /\ r.del = FALSE /\ r.cur = {}
      /\ r.snap = [x \in Schema |-> NoEntry]
  BY DEF Run
<1>7. PICK w \in Seq(RunT) :
         /\ Len(w) = n + 1 /\ w[n + 1] = r
         /\ \A i \in 1 .. n : w[i] = IF i = n THEN c ELSE stack[p][i]
         /\ stack' = [stack EXCEPT ![p] = w]
  BY <1>1
<1>8. o.snap[s].rel # "none"
  BY DEF Pending
<1> HIDE DEF c, r, d
<1>9. PICK m \in 1 .. n : m = n
  BY <1>3
<1>10. PICK b \in RunT : b = c
  BY <1>3, <1>7
<1>11. \A q \in Proc : stack'[q] = IF q = p THEN w ELSE stack[q]
  BY <1>7 DEF RelInv, RunsTypeOK
<1>12. \A q \in Proc : q # p => stack[q] = <<>> /\ stack'[q] = <<>>
  BY <1>2, <1>11 DEF CallOK, OneStack
<1>13. Len(stack'[p]) = n + 1 /\ stack'[p][n + 1] = r /\ Top(p)' = r
  BY <1>7, <1>11 DEF Top
<1>14. /\ \A x \in Schema : CloneOK(o, x)
       /\ \A x \in Schema : Current(x, schemas[x])
  BY <1>2, TopLatest, EmptyElems
<1>15. SchemasLatest'
  BY <1>2, <1>14 DEF SchemasLatest, Current
<1>16. RunLatest(r, m + 1)'
  <2>1. \A x \in Schema : CloneOK(r, x)'
    BY <1>6 DEF CloneOK, Has
  <2>2. Current(d, Mock)
    <3>1. Current(d, NoEntry)
      BY <1>2, <1>4, <1>14 DEF CloneOK, Has
    <3> QED
      BY <1>4, <3>1, EntryVersions DEF Current
  <2>3. Elems(r.todo) = {d}
    BY <1>6 DEF Elems
  <2>4. StoredBy(r, m + 1, d) = Mock
    BY <1>3, <1>6, <1>9 DEF StoredBy
  <2>5. \A x \in Elems(r.todo) : Current(x, StoredBy(r, m + 1, x))
    BY <2>2, <2>3, <2>4
  <2>6. \A x \in Elems(r.todo) : Current(x, StoredBy(r, m + 1, x))'
    BY <1>2, <2>5 DEF Current, StoredBy, Elems
  <2> QED
    BY <2>1, <2>6 DEF RunLatest
<1>17. RunLatest(b, m)'
  <2>1. ASSUME NEW x \in Schema PROVE CloneOK(b, x)'
    <3>1. CloneOK(o, x)
      BY <1>14
    <3> QED
      BY <1>2, <1>4, <1>5, <1>8, <1>10, <3>1 DEF CloneOK, Current, Has
  <2>2. Elems(b.todo) = {}
    BY <1>5, <1>10, EmptyElems
  <2> QED
    BY <2>1, <2>2 DEF RunLatest
<1>18. RunsLatest(p)'
  <2> SUFFICES ASSUME NEW i \in 1 .. m + 1 PROVE RunLatest(stack[p][i], i)'
    BY <1>13, <1>9 DEF RunsLatest
  <2>1. CASE i = m + 1
    <3>1. stack'[p][i] = r
      BY <1>13, <1>9, <2>1
    <3>2. RunLatest(r, i)'
      BY <1>16, <2>1
    <3> QED
      BY <3>1, <3>2 DEF RunLatest, CloneOK, Current, StoredBy, Elems
  <2>2. CASE i = m
    <3>1. stack'[p][i] = b
      BY <1>3, <1>7, <1>11, <1>9, <1>10, <2>2
    <3>2. RunLatest(b, i)'
      BY <1>17, <2>2
    <3> QED
      BY <3>1, <3>2 DEF RunLatest, CloneOK, Current, StoredBy, Elems
  <2>3. CASE i \in 1 .. m - 1
    <3>1. stack'[p][i] = stack[p][i] /\ RunLatest(stack[p][i], i)
      BY <1>3, <1>7, <1>11, <1>9, <2>3 DEF CallOK, RunsLatest
    <3>2. \A x \in Schema : CloneOK(stack[p][i], x)'
      BY <1>2, <3>1 DEF RunLatest, CloneOK, Current, Has
    <3>3. \A x \in Elems(stack'[p][i].todo) : Current(x, StoredBy(stack[p][i], i, x))'
      BY <1>2, <3>1 DEF RunLatest, Current, StoredBy
    <3> QED
      BY <3>2, <3>3 DEF RunLatest, Elems
  <2> QED
    BY <1>3, <1>9, <2>1, <2>2, <2>3
<1>19. \A q \in Proc : RunsLatest(q)' /\ BackOK(q)'
  <2>1. ASSUME NEW q \in Proc, q # p PROVE RunsLatest(q)' /\ BackOK(q)'
    BY <1>12, <2>1, EmptySeq DEF RunsLatest, BackOK
  <2>2. BackOK(p)'
    BY <1>6, <1>13 DEF BackOK
  <2> QED
    BY <1>18, <2>1, <2>2
<1>20. BridgesKept'
  <2> SUFFICES ASSUME NEW x \in Schema, schemas[x].rel \in {"native", "bridge"}, "panic" \notin hist,
                      ~Has(schemas, Def[x].brg)
               PROVE  \E q \in Proc : \E i \in 1 .. Len(stack'[q]) : Unfinished(stack'[q][i], x)
    BY <1>2 DEF BridgesKept, Has, Unfinished
  <2>1. Unfinished(r, x)
    BY <1>6 DEF Unfinished
  <2>2. n + 1 \in 1 .. Len(stack'[p])
    BY <1>3, <1>13
  <2> QED
    BY <1>13, <2>1, <2>2
<1> QED
  BY <1>15, <1>19, <1>20

LEMMA BridgePanicsLatest ==
  ASSUME RelInv, CallOK, NEW p \in Proc, BridgePanics(p)
  PROVE  SchemasLatest' /\ BridgesKept' /\ \A q \in Proc : RunsLatest(q)' /\ BackOK(q)'
<1>1. /\ stack[p] # <<>> /\ Top(p).todo = <<>> /\ stack' = [stack EXCEPT ![p] = <<>>]
      /\ schemas' = schemas /\ latest' = latest /\ "panic" \in hist'
  BY DEF BridgePanics, Working
<1>2. \A q \in Proc : stack'[q] = <<>>
  BY <1>1 DEF CallOK, OneStack, RelInv, RunsTypeOK
<1>3. \A s \in Schema : Current(s, schemas[s])
  BY <1>1, TopLatest, EmptyElems
<1>4. SchemasLatest' /\ BridgesKept'
  BY <1>1, <1>3 DEF SchemasLatest, BridgesKept, Current
<1> QED
  BY <1>2, <1>4, EmptySeq DEF RunsLatest, BackOK

\* The bridge that the run below waits for has been stored.
LEMMA RunDoneLatest ==
  ASSUME RelInv, CallOK, NEW p \in Proc, RunDone(p)
  PROVE  SchemasLatest' /\ BridgesKept' /\ \A q \in Proc : RunsLatest(q)' /\ BackOK(q)'
<1> DEFINE n == Len(stack[p])
           t == SubSeq(stack[p], 1, n - 1)
<1>1. /\ stack[p] # <<>> /\ Top(p).todo = <<>> /\ Top(p).unread = {} /\ Pending(p) = {}
      /\ stack' = [stack EXCEPT ![p] = t]
      /\ schemas' = schemas /\ latest' = latest /\ hist' = hist
  BY DEF RunDone, Working
<1>2. stack[p] \in Seq(RunT) /\ n \in 1 .. n /\ Top(p) = stack[p][n]
  BY <1>1, TopTypes DEF RelInv, RunsTypeOK, Top
<1>3. t \in Seq(RunT) /\ Len(t) = n - 1 /\ \A i \in 1 .. n - 1 : t[i] = stack[p][i]
  BY <1>2
<1> HIDE DEF t
<1>4. \A q \in Proc : stack'[q] = IF q = p THEN t ELSE stack[q]
  BY <1>1 DEF RelInv, RunsTypeOK
<1>5. \A q \in Proc : q # p => stack'[q] = <<>>
  BY <1>1, <1>4 DEF CallOK, OneStack
<1>6. \A s \in Schema : Current(s, schemas[s])
  BY <1>1, TopLatest, EmptyElems
<1>7. SchemasLatest'
  BY <1>1, <1>6 DEF SchemasLatest, Current
<1>8. ASSUME NEW i \in 1 .. n - 1 PROVE RunLatest(stack[p][i], i)'
  <2>1. stack'[p][i] = stack[p][i] /\ RunLatest(stack[p][i], i)
    BY <1>2, <1>3, <1>4 DEF CallOK, RunsLatest
  <2>2. \A x \in Schema : CloneOK(stack[p][i], x)'
    BY <1>1, <2>1 DEF RunLatest, CloneOK, Current, Has
  <2>3. \A x \in Elems(stack'[p][i].todo) : Current(x, StoredBy(stack[p][i], i, x))'
    BY <1>1, <2>1 DEF RunLatest, Current, StoredBy
  <2> QED
    BY <2>2, <2>3 DEF RunLatest, Elems
<1>9. BackOK(p)'
  <2> SUFFICES ASSUME stack'[p] # <<>>, NEW s \in Top(p)'.cur PROVE Has(schemas', Def[s].brg)
    BY DEF BackOK
  <2> DEFINE m == n - 1
             u == stack[p][m]
  <2>1. m \in 1 .. m /\ m < n /\ Top(p)' = u
    <3>1. m # 0
      <4> SUFFICES ASSUME n = 1 PROVE FALSE
        BY <1>2
      <4>1. Len(t) = 0
        BY <1>3
      <4>2. t = <<>>
        BY <1>3, <4>1, EmptySeq
      <4> QED
        BY <1>4, <4>2
    <3>2. n \in Int /\ n >= 1
      BY <1>2, LenProperties
    <3>3. m \in 1 .. m /\ m < n
      <4> HIDE DEF n
      <4> QED
        BY <3>1, <3>2
    <3> QED
      BY <1>3, <1>4, <3>3 DEF Top
  <2>2. u \in RunT /\ s \in Schema /\ s \in u.cur
    <3>1. u \in RunT
      BY <1>2, <2>1
    <3> QED
      BY <2>1, <3>1 DEF RunT
  <2>3. Def[s].kind = "refs"
    BY <1>2, <2>1, <2>2 DEF CallOK, RunsLatest, RunLatest, CloneOK
  <2>4. Def[s].brg \in Bridges /\ Waits(p, m, Def[s].brg)
    BY <2>2, <2>3 DEF Bridges, Waits
  <2>5. Has(schemas, Def[s].brg) \/ Top(p).todo = <<Def[s].brg>>
    BY <1>2, <2>1, <2>4 DEF CallOK, NestOK
  <2>6. Top(p).todo # <<Def[s].brg>>
    BY <1>1
  <2> QED
    BY <1>1, <2>5, <2>6
<1>10. \A q \in Proc : RunsLatest(q)' /\ BackOK(q)'
  <2>1. ASSUME NEW q \in Proc, q # p PROVE RunsLatest(q)' /\ BackOK(q)'
    BY <1>5, <2>1, EmptySeq DEF RunsLatest, BackOK
  <2>2. RunsLatest(p)'
    BY <1>3, <1>4, <1>8 DEF RunsLatest
  <2> QED
    BY <1>9, <2>1, <2>2
<1>11. BridgesKept'
  <2> SUFFICES ASSUME NEW x \in Schema, schemas[x].rel \in {"native", "bridge"}, "panic" \notin hist,
                      ~Has(schemas, Def[x].brg)
               PROVE  \E q \in Proc : \E i \in 1 .. Len(stack'[q]) : Unfinished(stack'[q][i], x)
    BY <1>1 DEF BridgesKept, Has, Unfinished
  <2>1. PICK q \in Proc : \E i \in 1 .. Len(stack[q]) : Unfinished(stack[q][i], x)
    BY DEF CallOK, BridgesKept
  <2>2. PICK i \in 1 .. Len(stack[q]) : Unfinished(stack[q][i], x)
    BY <2>1
  <2>3. ~Unfinished(Top(p), x)
    BY <1>1 DEF Unfinished, Pending
  <2>4. ~(q = p /\ i = n)
    BY <1>2, <2>2, <2>3
  <2>5. i \in 1 .. Len(stack'[q]) /\ stack'[q][i] = stack[q][i]
    BY <1>2, <1>3, <1>4, <2>4
  <2> QED
    BY <2>2, <2>5
<1> QED
  BY <1>7, <1>10, <1>11

\* A call begins with every schema up to date but for those it is about to store.
LEMMA StartRunLatest ==
  ASSUME RelInv, CallOK, NEW p \in Proc, NEW b \in Seq(Schema), NEW v \in Int, NEW d \in BOOLEAN,
         \A q \in Proc : stack[q] = <<>>, stack' = [stack EXCEPT ![p] = <<Run(b, v, d)>>],
         schemas' = schemas,
         \A s \in Schema : latest'[s] = IF s \in Elems(b) THEN (IF d THEN -1 ELSE v) ELSE latest[s]
  PROVE  SchemasLatest' /\ BridgesKept' /\ \A q \in Proc : RunsLatest(q)' /\ BackOK(q)'
<1> DEFINE r == Run(b, v, d)
<1>1. /\ r.unread = Schema /\ r.todo = b /\ r.del = d /\ r.ver = v /\ r.cur = {}
      /\ r.snap = [x \in Schema |-> NoEntry]
  BY DEF Run
<1> HIDE DEF r
<1>2. \A q \in Proc : stack'[q] = IF q = p THEN <<r>> ELSE <<>>
  BY DEF RelInv, RunsTypeOK, r
<1>3. Len(stack'[p]) = 1 /\ stack'[p][1] = r /\ Top(p)' = r /\ stack'[p] # <<>>
  BY <1>2 DEF Top
<1>4. SchemasLatest'
  <2> SUFFICES ASSUME NEW s \in Schema, s \notin Elems(b)
               PROVE  Current(s, schemas[s])'
    <3>1. Elems(Top(p).todo)' = Elems(b)
      BY <1>1, <1>3 DEF Elems
    <3> QED
      BY <1>3, <3>1 DEF SchemasLatest
  <2>1. Current(s, schemas[s])
    BY DEF CallOK, SchemasLatest
  <2> QED
    BY <2>1 DEF Current
<1>5. RunLatest(r, 1)'
  <2>1. \A x \in Schema : CloneOK(r, x)'
    BY <1>1 DEF CloneOK, Has
  <2>2. ASSUME NEW x \in Elems(b) PROVE Current(x, StoredBy(r, 1, x))'
    <3>1. x \in Schema
      BY LenProperties, ElementOfSeq DEF Elems
    <3>2. StoredBy(r, 1, x).ver = latest'[x]
      BY <1>1, <3>1, EntryVersions DEF StoredBy
    <3> QED
      BY <3>2 DEF Current, StoredBy
  <2> QED
    BY <1>1, <2>1, <2>2 DEF RunLatest, Elems
<1>6. \A q \in Proc : RunsLatest(q)' /\ BackOK(q)'
  <2>1. ASSUME NEW q \in Proc, q # p PROVE RunsLatest(q)' /\ BackOK(q)'
    BY <1>2, <2>1, EmptySeq DEF RunsLatest, BackOK
  <2>2. RunsLatest(p)'
    <3> SUFFICES ASSUME NEW i \in 1 .. 1 PROVE RunLatest(stack[p][i], i)'
      BY <1>3 DEF RunsLatest
    <3>1. i = 1
      OBVIOUS
    <3> QED
      BY <1>3, <1>5, <3>1 DEF RunLatest, CloneOK, Current, StoredBy, Elems
  <2>3. BackOK(p)'
    BY <1>1, <1>3 DEF BackOK
  <2> QED
    BY <2>1, <2>2, <2>3
<1>7. BridgesKept'
  <2>1. \A x \in Schema : Unfinished(stack'[p][1], x)
    BY <1>1, <1>3 DEF Unfinished
  <2> QED
    BY <1>3, <2>1 DEF BridgesKept, Unfinished
<1> QED
  BY <1>4, <1>6, <1>7

----------------------------------------------------------------------------
\* What registrations leave

LEMMA LatestType ==
  ASSUME NEW p \in Proc, SchemaStep(p), RelInv, latest \in [Schema -> Int]
  PROVE  latest' \in [Schema -> Int]
<1>1. \A b \in Batches : StartRegister(p, b) \/ StartUnregister(p, b) => latest' \in [Schema -> Int]
  <2>1. version + 1 \in Int /\ -1 \in Int
    BY DEF RelInv, RunsTypeOK
  <2>2. ASSUME NEW b \in Batches, StartRegister(p, b) PROVE latest' \in [Schema -> Int]
    <3>1. latest' = [s \in Schema |-> IF s \in Elems(b) THEN version + 1 ELSE latest[s]]
      BY <2>2 DEF StartRegister
    <3> QED
      BY <2>1, <3>1
  <2>3. ASSUME NEW b \in Batches, StartUnregister(p, b) PROVE latest' \in [Schema -> Int]
    <3>1. latest' = [s \in Schema |-> IF s \in Elems(b) THEN -1 ELSE latest[s]]
      BY <2>3 DEF StartUnregister
    <3> QED
      BY <2>1, <3>1
  <2> QED
    BY <2>2, <2>3
<1>2. StoreOne(p) \/ ReadOne(p) \/ RelateOne(p) \/ RegisterBridge(p) => latest' = latest
  BY ZenonT(60) DEF StoreOne, ReadOne, RelateOne, RegisterBridge
<1>3. StoreNative(p) \/ BridgePanics(p) \/ RunDone(p) => latest' = latest
  BY DEF StoreNative, BridgePanics, RunDone
<1> QED
  BY <1>1, <1>2, <1>3 DEF SchemaStep, SetRelations

LEMMA SchemaStepLatest ==
  ASSUME LatestInv, NEW p \in Proc, SchemaStep(p), "overlap" \notin hist'
  PROVE  SchemasLatest' /\ BridgesKept' /\ \A q \in Proc : RunsLatest(q)' /\ BackOK(q)'
<1>1. CallOK /\ RelInv
  BY SchemaStepHist DEF LatestInv, NestInv, CallOK
<1>2. ASSUME NEW b \in Batches, StartRegister(p, b) \/ StartUnregister(p, b)
      PROVE  SchemasLatest' /\ BridgesKept' /\ \A q \in Proc : RunsLatest(q)' /\ BackOK(q)'
  <2>1. b \in Seq(Schema) /\ version + 1 \in Int /\ 0 \in Int /\ TRUE \in BOOLEAN /\ FALSE \in BOOLEAN
    BY <1>1, SchemaTypes DEF RelInv, RunsTypeOK
  <2>2. \A q \in Proc : stack[q] = <<>>
    BY <1>2 DEF StartRegister, StartUnregister, Overlaps
  <2>3. CASE StartRegister(p, b)
    <3>1. /\ stack' = [stack EXCEPT ![p] = <<Run(b, version + 1, FALSE)>>] /\ schemas' = schemas
          /\ latest' = [s \in Schema |-> IF s \in Elems(b) THEN version + 1 ELSE latest[s]]
      BY <2>3 DEF StartRegister
    <3>2. \A s \in Schema : latest'[s] =
            IF s \in Elems(b) THEN (IF FALSE THEN -1 ELSE version + 1) ELSE latest[s]
      BY <3>1
    <3> QED
      BY <1>1, <2>1, <2>2, <3>1, <3>2, StartRunLatest
  <2>4. CASE StartUnregister(p, b)
    <3>1. /\ stack' = [stack EXCEPT ![p] = <<Run(b, 0, TRUE)>>] /\ schemas' = schemas
          /\ latest' = [s \in Schema |-> IF s \in Elems(b) THEN -1 ELSE latest[s]]
      BY <2>4 DEF StartUnregister
    <3>2. \A s \in Schema : latest'[s] =
            IF s \in Elems(b) THEN (IF TRUE THEN -1 ELSE 0) ELSE latest[s]
      BY <3>1
    <3> QED
      BY <1>1, <2>1, <2>2, <3>1, <3>2, StartRunLatest
  <2> QED
    BY <1>2, <2>3, <2>4
<1>3. CASE StoreOne(p)
  BY <1>1, <1>3, StoreOneLatest
<1>4. CASE ReadOne(p)
  BY <1>1, <1>4, ReadOneLatest
<1>5. CASE RelateOne(p)
  BY <1>1, <1>5, RelateOneLatest
<1>6. CASE RegisterBridge(p)
  BY <1>1, <1>6, RegisterBridgeLatest
<1>7. CASE StoreNative(p)
  BY <1>1, <1>7, StoreNativeLatest
<1>8. CASE BridgePanics(p)
  BY <1>1, <1>8, BridgePanicsLatest
<1>9. CASE RunDone(p)
  BY <1>1, <1>9, RunDoneLatest
<1> QED
  BY <1>2, <1>3, <1>4, <1>5, <1>6, <1>7, <1>8, <1>9 DEF SchemaStep, SetRelations

LEMMA OtherStepLatest ==
  ASSUME LatestInv, UNCHANGED schemaVars, SameTrouble
  PROVE  LatestInv'
<1>1. NestInv'
  BY OtherStepNest DEF LatestInv
<1>2. latest' \in [Schema -> Int]
  BY DEF LatestInv, schemaVars
<1>3. "overlap" \notin hist' =>
        SchemasLatest' /\ BridgesKept' /\ \A q \in Proc : RunsLatest(q)' /\ BackOK(q)'
  <2>1. schemas' = schemas /\ stack' = stack /\ latest' = latest
    BY DEF schemaVars
  <2>2. SchemasLatest => SchemasLatest'
    BY <2>1 DEF SchemasLatest, Current, Top
  <2>3. BridgesKept => BridgesKept'
    BY <2>1 DEF BridgesKept, Has, Unfinished, SameTrouble
  <2>4. \A q \in Proc : RunsLatest(q) => RunsLatest(q)'
    BY <2>1 DEF RunsLatest, RunLatest, CloneOK, StoredBy, Current, Has
  <2>5. \A q \in Proc : BackOK(q) => BackOK(q)'
    BY <2>1 DEF BackOK, Has, Top
  <2> QED
    BY <2>2, <2>3, <2>4, <2>5 DEF LatestInv, SameTrouble
<1> QED
  BY <1>1, <1>2, <1>3 DEF LatestInv

LEMMA LatestInvInit == ConnectionInit => LatestInv
<1> SUFFICES ASSUME ConnectionInit PROVE LatestInv
  OBVIOUS
<1>1. NestInv
  BY NestInvInit
<1>2. /\ schemas = [s \in Schema |-> NoEntry] /\ latest = [s \in Schema |-> -1]
      /\ stack = [p \in Proc |-> <<>>]
  BY DEF ConnectionInit, Init
<1>3. latest \in [Schema -> Int] /\ SchemasLatest
  BY <1>2, EntryVersions DEF SchemasLatest, Current
<1>4. BridgesKept
  BY <1>2, EntryTypes DEF BridgesKept
<1>5. \A p \in Proc : RunsLatest(p) /\ BackOK(p)
  BY <1>2, EmptySeq DEF RunsLatest, BackOK
<1> QED
  BY <1>1, <1>3, <1>4, <1>5 DEF LatestInv

LEMMA LatestInvStep == LatestInv /\ [ConnectionNext]_allVars => LatestInv'
<1> SUFFICES ASSUME LatestInv, [ConnectionNext]_allVars PROVE LatestInv'
  OBVIOUS
<1>1. ASSUME NEW p \in Proc, InitStep(p) PROVE LatestInv'
  BY <1>1, InitStepIdle, OtherStepLatest DEF SameTrouble
<1>2. ASSUME NEW p \in Proc, ConnectionStep(p) PROVE LatestInv'
  BY <1>2, ConnectionStepHist, OtherStepLatest
<1>3. ASSUME NEW p \in Proc, SchemaStep(p) PROVE LatestInv'
  <2>1. RelInv' /\ ("overlap" \notin hist' => OneStack' /\ \A q \in Proc : NestOK(q)')
    BY <1>3, SchemaStepRel, SchemaStepNest DEF LatestInv, NestInv
  <2>2. latest' \in [Schema -> Int]
    BY <1>3, LatestType DEF LatestInv, NestInv
  <2>3. "overlap" \notin hist' =>
          SchemasLatest' /\ BridgesKept' /\ \A q \in Proc : RunsLatest(q)' /\ BackOK(q)'
    BY <1>3, SchemaStepLatest
  <2> QED
    BY <2>1, <2>2, <2>3 DEF LatestInv, NestInv
<1>4. UNCHANGED allVars => LatestInv'
  BY OtherStepLatest DEF allVars, vars, schemaVars, SameTrouble
<1> QED
  BY <1>1, <1>2, <1>3, <1>4 DEF ConnectionNext, NamespaceStep

\* In every behaviour, for any schemas and any batches: without overlap the clones of
\* every run of setRelations, the outer ones of nested runs included, are as the last
\* registration of each schema left it, and every bridge that is needed is coming.
THEOREM LatestInvariant == ConnectionSpec => []LatestInv
<1>1. ConnectionInit => LatestInv
  BY LatestInvInit
<1>2. LatestInv /\ [ConnectionNext]_allVars => LatestInv'
  BY LatestInvStep
<1> QED
  BY <1>1, <1>2, PTL DEF ConnectionSpec

\* What setRelations stores back from its clones undoes no registration and brings
\* back no schema that was unregistered, unless registrations overlap.
THEOREM LatestIsStored == ConnectionSpec => []LatestStored
<1>1. LatestInv => LatestStored
  <2> SUFFICES ASSUME LatestInv, Quiet, "overlap" \notin hist, NEW s \in Schema,
                      schemas[s].ver # latest[s]
               PROVE  /\ schemas[s] = Mock /\ latest[s] = -1
                      /\ \E t \in Schema : Def[t].kind = "refs" /\ Def[t].brg = s
    BY DEF LatestStored
  <2>1. Current(s, schemas[s])
    BY DEF LatestInv, SchemasLatest, Quiet
  <2>2. schemas[s] = Mock /\ latest[s] = -1 /\ s \in Bridges
    BY <2>1 DEF Current
  <2> QED
    BY <2>2 DEF Bridges
<1>2. ConnectionSpec => []LatestInv
  BY LatestInvariant
<1> QED
  BY <1>1, <1>2, PTL

\* The bridge of a relation that is kept is itself a schema when a registration ends,
\* unless registrations overlap or one of them panicked.
THEOREM BridgesAreRegistered == ConnectionSpec => []BridgesRegistered
<1>1. LatestInv => BridgesRegistered
  <2> SUFFICES ASSUME LatestInv, Quiet, "overlap" \notin hist, "panic" \notin hist,
                      NEW s \in Schema, schemas[s].rel \in {"native", "bridge"}
               PROVE  Has(schemas, Def[s].brg)
    BY DEF BridgesRegistered
  <2>1. \A p \in Proc : Len(stack[p]) = 0
    BY EmptySeq DEF Quiet
  <2> QED
    BY <2>1 DEF LatestInv, BridgesKept
<1>2. ConnectionSpec => []LatestInv
  BY LatestInvariant
<1> QED
  BY <1>1, <1>2, PTL

----------------------------------------------------------------------------
\* The tables that Init creates

JobT ==
  [pc : {"idle", "read", "begin", "exec"}, kind : {"none", "connection", "namespace"},
   name : Name \cup {NoName}, pool : 0 .. MaxConns, unread : SUBSET Schema,
   snap : SUBSET Schema, mocks : SUBSET Schema, todo : SUBSET Schema,
   mine : SUBSET Schema, must : SUBSET Schema]

\* What a call of Init knows: it has read all it must create but for what is unread;
\* what it has created and what is left are what it has read, in that order.
JobOK(r) ==
  /\ \A s \in r.must : Has(schemas, s) /\ (s \in r.snap \/ s \in r.unread)
  /\ r.pc # "idle" => r.name \in Name /\ r.kind # "none"
  /\ r.kind = "connection" => r.pool \in Pool
  /\ r.pc \in {"read", "begin"} => r.mine = {}
  /\ r.pc \in {"begin", "exec"} =>
       /\ r.kind = "connection" /\ r.unread = {} /\ r.snap = r.mine \cup r.todo
       /\ \A s \in r.mine, t \in r.todo : ~Before(t, s)
       /\ engine = "mysql" => r.mine \subseteq tables[r.pool]

TablesInv ==
  /\ job \in [Proc -> JobT] /\ tables \in [Pool -> SUBSET Schema]
  /\ \A p \in Proc : JobOK(job[p])

LEMMA PoolTypes ==
  /\ NoPool \in 0 .. MaxConns /\ Pool \subseteq 0 .. MaxConns /\ NoName \notin Name
  /\ \A c \in 0 .. MaxConns : c # NoPool => c \in Pool
BY NamespaceAssumption DEF NoPool, Pool, NoName, Name

LEMMA NoJobOK == NoJob \in JobT /\ JobOK(NoJob) /\ NoJob.pc = "idle"
<1>1. NoJob \in JobT
  BY PoolTypes DEF NoJob, JobT
<1> QED
  BY <1>1 DEF NoJob, JobOK

\* The call of p takes a step: it holds for the others what held, as no table is dropped.
LEMMA JobStep ==
  ASSUME TablesInv, NEW p \in Proc, NEW r \in JobT, job' = [job EXCEPT ![p] = r], JobOK(r)',
         schemas' = schemas, engine' = engine, tables' \in [Pool -> SUBSET Schema],
         \A c \in Pool : tables[c] \subseteq tables'[c]
  PROVE  TablesInv'
<1>1. job' \in [Proc -> JobT]
  BY DEF TablesInv
<1>2. ASSUME NEW q \in Proc PROVE JobOK(job[q])'
  <2>1. CASE q = p
    BY <2>1 DEF TablesInv
  <2>2. CASE q # p
    <3>1. job'[q] = job[q] /\ JobOK(job[q])
      BY <2>2 DEF TablesInv
    <3>2. job[q].kind = "connection" =>
            job[q].pool \in Pool /\ tables[job[q].pool] \subseteq tables'[job[q].pool]
      BY <3>1 DEF JobOK
    <3> QED
      BY <3>1, <3>2 DEF JobOK, Has
  <2> QED
    BY <2>1, <2>2
<1> QED
  BY <1>1, <1>2 DEF TablesInv

\* The tables after a call of p has returned.
LEMMA ReturnTables ==
  ASSUME TablesInv, NEW p \in Proc, NEW out, NEW made \in SUBSET Schema, Return(p, out, made),
         made # {} => job[p].kind = "connection"
  PROVE  /\ job' = [job EXCEPT ![p] = NoJob] /\ ended' = out
         /\ tables' \in [Pool -> SUBSET Schema]
         /\ made = {} => tables' = tables
         /\ job[p].kind = "connection" =>
              \A c \in Pool : tables'[c] = IF c = job[p].pool THEN tables[c] \cup made ELSE tables[c]
         /\ \A c \in Pool : tables[c] \subseteq tables'[c]
<1>1. /\ job' = [job EXCEPT ![p] = NoJob] /\ ended' = out
      /\ tables' = IF made = {} THEN tables ELSE [tables EXCEPT ![job[p].pool] = @ \cup made]
  BY DEF Return
<1>2. tables \in [Pool -> SUBSET Schema] /\ (job[p].kind = "connection" => job[p].pool \in Pool)
  BY DEF TablesInv, JobOK
<1>3. CASE made = {}
  BY <1>1, <1>2, <1>3
<1>4. CASE made # {}
  BY <1>1, <1>2, <1>4
<1> QED
  BY <1>3, <1>4

\* What a step of Init may do to the tables and to what it has to create.
Created(p) ==
  /\ (Ends(p) /\ ended' = "nil") => job[p].must \subseteq tables'[PoolOf(p)]
  /\ (job[p].pc # "idle" /\ tables' # tables) =>
       \A s, t \in Schema :
         (Before(s, t) /\ s \in job[p].snap /\ t \in tables'[PoolOf(p)] \ tables[PoolOf(p)])
           => s \in tables'[PoolOf(p)]

LEMMA ReturnCreates ==
  ASSUME TablesInv, NEW p \in Proc, NEW out, NEW made \in SUBSET Schema, Return(p, out, made),
         schemas' = schemas, engine' = engine,
         made # {} => job[p].pc = "exec" /\ made = job[p].mine,
         out = "nil" => job[p].kind = "connection" /\ job[p].must \subseteq made
  PROVE  TablesInv' /\ Created(p)
<1> DEFINE o == job[p]
<1>1. o \in JobT /\ JobOK(o)
  BY DEF TablesInv
<1>2. made # {} => o.kind = "connection"
  BY <1>1 DEF JobOK
<1>3. /\ job' = [job EXCEPT ![p] = NoJob] /\ ended' = out
      /\ tables' \in [Pool -> SUBSET Schema]
      /\ made = {} => tables' = tables
      /\ o.kind = "connection" =>
           \A c \in Pool : tables'[c] = IF c = o.pool THEN tables[c] \cup made ELSE tables[c]
      /\ \A c \in Pool : tables[c] \subseteq tables'[c]
  BY <1>2, ReturnTables
<1>4. JobOK(NoJob)'
  BY DEF NoJob, JobOK
<1>5. TablesInv'
  BY <1>3, <1>4, NoJobOK, JobStep
<1>6. o.kind = "connection" => o.pool \in Pool /\ PoolOf(p) = o.pool
  BY <1>1 DEF JobOK, PoolOf
<1>7. out = "nil" => o.must \subseteq tables'[PoolOf(p)]
  BY <1>3, <1>6
<1>8. ASSUME tables' # tables, NEW s \in Schema, NEW t \in Schema, Before(s, t), s \in o.snap,
             t \in tables'[PoolOf(p)] \ tables[PoolOf(p)]
      PROVE  s \in tables'[PoolOf(p)]
  <2>1. o.pc = "exec" /\ made = o.mine /\ o.kind = "connection"
    BY <1>2, <1>3, <1>8
  <2>2. t \in o.mine
    BY <1>3, <1>6, <1>8, <2>1
  <2>3. s \in o.mine
    BY <1>1, <1>8, <2>1, <2>2 DEF JobOK
  <2> QED
    BY <1>3, <1>6, <2>1, <2>3
<1> QED
  BY <1>3, <1>5, <1>7, <1>8 DEF Created

LEMMA StartInitCreates ==
  ASSUME TablesInv, ConnInv, NEW p \in Proc, NEW kind \in {"connection", "namespace"},
         NEW n \in Name, StartInit(p, kind, n)
  PROVE  TablesInv' /\ Created(p)
<1> DEFINE m == {s \in Schema : Has(schemas, s)}
           r == Job(kind, n)
<1>1. /\ job[p] = NoJob /\ job' = [job EXCEPT ![p] = r] /\ tables' = tables
      /\ schemas' = schemas /\ engine' = engine
      /\ kind = "connection" => conns[n] # NoPool
  BY DEF StartInit, schemaVars
<1>2. conns[n] \in 0 .. MaxConns
  BY DEF ConnInv, ConnTypeOK
<1>3. /\ r.pc = "read" /\ r.kind = kind /\ r.name = n /\ r.pool = conns[n]
      /\ r.unread = Schema /\ r.snap = {} /\ r.must = m /\ r.mine = {}
  BY DEF Job
<1>4. r \in JobT
  BY <1>2 DEF Job, JobT
<1> HIDE DEF r
<1>5. PICK j \in JobT : j = r
  BY <1>4
<1>6. JobOK(j)'
  BY <1>1, <1>2, <1>3, <1>5, PoolTypes DEF JobOK, Has
<1>7. TablesInv'
  BY <1>1, <1>5, <1>6, JobStep DEF TablesInv
<1>8. Created(p)
  BY <1>1, NoJobOK DEF Created, Ends
<1> QED
  BY <1>7, <1>8

LEMMA ReadSchemaCreates ==
  ASSUME TablesInv, NEW p \in Proc, ReadSchema(p)
  PROVE  TablesInv' /\ Created(p)
<1> DEFINE o == job[p]
<1>1. /\ o.pc = "read" /\ tables' = tables /\ schemas' = schemas /\ engine' = engine
  BY DEF ReadSchema, At, Goto, schemaVars
<1>2. PICK s \in o.unread :
        Goto(p, [o EXCEPT !.unread = @ \ {s},
                          !.snap = IF Has(schemas, s) THEN @ \cup {s} ELSE @,
                          !.mocks = IF schemas[s].ver = 0 THEN @ \cup {s} ELSE @])
  BY DEF ReadSchema
<1> DEFINE u == o.unread \ {s}
           c == IF Has(schemas, s) THEN o.snap \cup {s} ELSE o.snap
           m == IF schemas[s].ver = 0 THEN o.mocks \cup {s} ELSE o.mocks
           r == [o EXCEPT !.unread = u, !.snap = c, !.mocks = m]
<1>3. job' = [job EXCEPT ![p] = r]
  BY <1>2 DEF Goto
<1>4. o \in JobT /\ JobOK(o)
  BY DEF TablesInv
<1>5. s \in Schema /\ u \in SUBSET Schema /\ c \in SUBSET Schema /\ m \in SUBSET Schema
  BY <1>4 DEF JobT
<1>6. r \in JobT
  <2>1. r = [o EXCEPT !.unread = u, !.snap = c, !.mocks = m]
    OBVIOUS
  <2> HIDE DEF r, o, u, c, m
  <2> QED
    BY <1>4, <1>5, <2>1 DEF JobT
<1>7. /\ r.pc = "read" /\ r.kind = o.kind /\ r.name = o.name /\ r.pool = o.pool
      /\ r.unread = u /\ r.snap = c /\ r.must = o.must /\ r.mine = o.mine
  BY <1>1, <1>4 DEF JobT
<1> HIDE DEF r
<1>8. PICK j \in JobT : j = r
  BY <1>6
<1>9. JobOK(j)'
  <2>1. \A x \in j.must : Has(schemas', x) /\ (x \in j.snap \/ x \in j.unread)
    BY <1>1, <1>4, <1>7, <1>8 DEF JobOK, Has
  <2> QED
    BY <1>1, <1>4, <1>7, <1>8, <2>1 DEF JobOK
<1>10. TablesInv'
  BY <1>1, <1>3, <1>8, <1>9, JobStep DEF TablesInv
<1>11. ~Ends(p)
  BY <1>3, <1>7 DEF Ends, TablesInv
<1> QED
  BY <1>1, <1>10, <1>11 DEF Created

LEMMA GenDDLCreates ==
  ASSUME TablesInv, NEW p \in Proc, GenDDL(p)
  PROVE  TablesInv' /\ Created(p)
<1> DEFINE o == job[p]
<1>1. /\ o.pc = "read" /\ o.kind = "connection" /\ o.unread = {}
      /\ schemas' = schemas /\ engine' = engine
  BY DEF GenDDL, At, schemaVars
<1>2. o \in JobT /\ JobOK(o)
  BY DEF TablesInv
<1>3. CASE o.snap = {}
  <2>1. Return(p, "nil", {})
    BY <1>3 DEF GenDDL
  <2>2. o.must = {}
    BY <1>1, <1>2, <1>3 DEF JobOK
  <2> QED
    BY <1>1, <2>1, <2>2, ReturnCreates
<1>4. CASE o.snap # {}
  <2> DEFINE r == [o EXCEPT !.pc = "begin", !.todo = o.snap]
  <2>1. job' = [job EXCEPT ![p] = r] /\ tables' = tables
    BY <1>4 DEF GenDDL, Goto
  <2>2. r \in JobT
    <3>1. r = [o EXCEPT !.pc = "begin", !.todo = o.snap] /\ o.snap \in SUBSET Schema
      BY <1>2 DEF JobT
    <3> HIDE DEF r, o
    <3> QED
      BY <1>2, <3>1 DEF JobT
  <2>3. PICK j \in JobT : j = r
    BY <2>2
  <2>4. /\ j.pc = "begin" /\ j.kind = o.kind /\ j.name = o.name /\ j.pool = o.pool
        /\ j.unread = o.unread /\ j.snap = o.snap /\ j.must = o.must /\ j.todo = o.snap
        /\ j.mine = o.mine
    BY <1>2, <2>3 DEF JobT
  <2> HIDE DEF r
  <2>5. o.mine = {}
    BY <1>1, <1>2 DEF JobOK
  <2>6. JobOK(j)'
    BY <1>1, <1>2, <2>4, <2>5 DEF JobOK, Has
  <2>7. TablesInv'
    BY <1>1, <2>1, <2>3, <2>6, JobStep DEF TablesInv
  <2>8. ~Ends(p)
    BY <2>1, <2>3, <2>4 DEF Ends, TablesInv
  <2> QED
    BY <2>1, <2>7, <2>8 DEF Created
<1> QED
  BY <1>3, <1>4

LEMMA BeginCreates ==
  ASSUME TablesInv, NEW p \in Proc, Begin(p)
  PROVE  TablesInv' /\ Created(p)
<1> DEFINE o == job[p]
           r == [o EXCEPT !.pc = "exec"]
<1>1. /\ o.pc = "begin" /\ job' = [job EXCEPT ![p] = r] /\ tables' = tables
      /\ schemas' = schemas /\ engine' = engine
  BY DEF Begin, At, Goto, schemaVars
<1>2. o \in JobT /\ JobOK(o)
  BY DEF TablesInv
<1>3. r \in JobT
  <2>1. r = [o EXCEPT !.pc = "exec"]
    OBVIOUS
  <2> HIDE DEF r, o
  <2> QED
    BY <1>2, <2>1 DEF JobT
<1>4. PICK j \in JobT : j = r
  BY <1>3
<1>5. /\ j.pc = "exec" /\ j.kind = o.kind /\ j.name = o.name /\ j.pool = o.pool
      /\ j.unread = o.unread /\ j.snap = o.snap /\ j.must = o.must /\ j.todo = o.todo
      /\ j.mine = o.mine
  BY <1>2, <1>4 DEF JobT
<1> HIDE DEF r
<1>6. JobOK(j)'
  BY <1>1, <1>2, <1>5 DEF JobOK, Has
<1>7. TablesInv'
  BY <1>1, <1>4, <1>6, JobStep DEF TablesInv
<1>8. ~Ends(p)
  BY <1>1, <1>4, <1>5 DEF Ends, TablesInv
<1> QED
  BY <1>1, <1>7, <1>8 DEF Created

LEMMA ExecStatementCreates ==
  ASSUME TablesInv, NEW p \in Proc, ExecStatement(p)
  PROVE  TablesInv' /\ Created(p)
<1> DEFINE o == job[p]
<1>1. o.pc = "exec" /\ schemas' = schemas /\ engine' = engine
  BY DEF ExecStatement, At, schemaVars
<1>2. PICK s \in o.todo :
        /\ \A t \in o.todo : ~Before(t, s)
        /\ job' = [job EXCEPT ![p] = [o EXCEPT !.todo = @ \ {s}, !.mine = @ \cup {s}]]
        /\ tables' = IF engine = "mysql" THEN [tables EXCEPT ![o.pool] = @ \cup {s}] ELSE tables
  BY DEF ExecStatement
<1> DEFINE t == o.todo \ {s}
           m == o.mine \cup {s}
           r == [o EXCEPT !.todo = t, !.mine = m]
<1>3. o \in JobT /\ JobOK(o) /\ tables \in [Pool -> SUBSET Schema]
  BY DEF TablesInv
<1>4. s \in Schema /\ t \in SUBSET Schema /\ m \in SUBSET Schema
  BY <1>3 DEF JobT
<1>5. job' = [job EXCEPT ![p] = r]
  BY <1>2
<1>6. r \in JobT
  <2>1. r = [o EXCEPT !.todo = t, !.mine = m]
    OBVIOUS
  <2> HIDE DEF r, o, t, m
  <2> QED
    BY <1>3, <1>4, <2>1 DEF JobT
<1>7. PICK j \in JobT : j = r
  BY <1>6
<1>8. /\ j.pc = o.pc /\ j.kind = o.kind /\ j.name = o.name /\ j.pool = o.pool
      /\ j.unread = o.unread /\ j.snap = o.snap /\ j.must = o.must
      /\ j.todo = o.todo \ {s} /\ j.mine = o.mine \cup {s}
  BY <1>3, <1>7 DEF JobT
<1> HIDE DEF r, t, m
<1>9. /\ o.kind = "connection" /\ o.pool \in Pool /\ PoolOf(p) = o.pool
      /\ o.unread = {} /\ o.snap = o.mine \cup o.todo
      /\ \A x \in o.mine, y \in o.todo : ~Before(y, x)
  BY <1>1, <1>3 DEF JobOK, PoolOf
<1>10. /\ tables' \in [Pool -> SUBSET Schema]
       /\ \A c \in Pool : tables'[c] = IF engine = "mysql" /\ c = o.pool
                                       THEN tables[c] \cup {s} ELSE tables[c]
  <2>1. CASE engine = "mysql"
    BY <1>2, <1>3, <1>4, <1>9, <2>1
  <2>2. CASE engine # "mysql"
    BY <1>2, <1>3, <2>2
  <2> QED
    BY <2>1, <2>2
<1>11. engine = "mysql" => o.mine \subseteq tables[o.pool]
  BY <1>1, <1>3 DEF JobOK
<1>12. JobOK(j)'
  <2>1. \A x \in j.must : Has(schemas', x) /\ (x \in j.snap \/ x \in j.unread)
    BY <1>1, <1>3, <1>8 DEF JobOK, Has
  <2>2. j.snap = j.mine \cup j.todo
    BY <1>8, <1>9
  <2>3. \A x \in j.mine, y \in j.todo : ~Before(y, x)
    BY <1>2, <1>8, <1>9
  <2>4. engine = "mysql" => j.mine \subseteq tables'[j.pool]
    BY <1>8, <1>9, <1>10, <1>11
  <2>5. j.name \in Name /\ j.kind = "connection" /\ j.pool \in Pool /\ j.unread = {} /\ j.pc = "exec"
    BY <1>1, <1>3, <1>8, <1>9 DEF JobOK
  <2> QED
    BY <1>1, <2>1, <2>2, <2>3, <2>4, <2>5 DEF JobOK
<1>13. TablesInv'
  BY <1>1, <1>5, <1>7, <1>10, <1>12, JobStep
<1>14. ~Ends(p)
  BY <1>1, <1>5, <1>7, <1>8 DEF Ends, TablesInv
<1>15. ASSUME tables' # tables, NEW x \in Schema, NEW y \in Schema, Before(x, y), x \in o.snap,
              y \in tables'[o.pool] \ tables[o.pool]
       PROVE  x \in tables'[o.pool]
  <2>1. engine = "mysql" /\ y = s
    BY <1>9, <1>10, <1>15
  <2>2. x \in o.mine
    BY <1>2, <1>9, <1>15, <2>1
  <2> QED
    BY <1>9, <1>10, <1>11, <2>1, <2>2
<1> QED
  BY <1>9, <1>13, <1>14, <1>15 DEF Created

\* SQLite and MySQL keep what was created before the statement that failed.
LEMMA BatchEndsCreates ==
  ASSUME TablesInv, NEW p \in Proc,
         BeginFails(p) \/ ExecFails(p) \/ ParamsMissing(p) \/ BatchDone(p) \/ CommitFails(p)
  PROVE  TablesInv' /\ Created(p)
<1> DEFINE o == job[p]
<1>1. o \in JobT /\ JobOK(o) /\ o.mine \in SUBSET Schema
  BY DEF TablesInv, JobT
<1>2. schemas' = schemas /\ engine' = engine
  BY DEF BeginFails, ExecFails, ParamsMissing, BatchDone, CommitFails, At, schemaVars
<1>3. CASE BeginFails(p)
  BY <1>2, <1>3, ReturnCreates DEF BeginFails
<1>4. CASE ExecFails(p)
  <2>1. o.pc = "exec" /\ Return(p, "err", IF engine = "postgres" THEN {} ELSE o.mine)
    BY <1>4 DEF ExecFails, At
  <2> QED
    BY <1>1, <1>2, <2>1, ReturnCreates
<1>5. CASE ParamsMissing(p)
  <2>1. o.pc = "exec" /\ Return(p, "err", o.mine)
    BY <1>5 DEF ParamsMissing, At
  <2> QED
    BY <1>1, <1>2, <2>1, ReturnCreates
<1>6. CASE BatchDone(p)
  <2>1. o.pc = "exec" /\ o.todo = {} /\ Return(p, "nil", o.mine)
    BY <1>6 DEF BatchDone, At
  <2>2. o.kind = "connection" /\ o.must \subseteq o.mine
    BY <1>1, <2>1 DEF JobOK
  <2> QED
    BY <1>1, <1>2, <2>1, <2>2, ReturnCreates
<1>7. CASE CommitFails(p)
  BY <1>2, <1>7, ReturnCreates DEF CommitFails
<1> QED
  BY <1>3, <1>4, <1>5, <1>6, <1>7

LEMMA ExecAllCreates ==
  ASSUME TablesInv, ConnInv, NEW p \in Proc, ExecAll(p)
  PROVE  TablesInv' /\ Created(p)
<1> DEFINE o == job[p]
           c == conns[o.name]
<1>1. /\ o.pc = "read" /\ o.kind = "namespace" /\ o.unread = {} /\ c # NoPool
      /\ schemas' = schemas /\ engine' = engine /\ job' = [job EXCEPT ![p] = NoJob]
  BY DEF ExecAll, At, schemaVars
<1>2. PICK done \in SUBSET o.snap :
        /\ \A s \in done, t \in o.snap : Before(t, s) => t \in done
        /\ ended' \in IF done # o.snap THEN {"err"} ELSE IF o.snap = {} THEN {"nil", "err"} ELSE {"nil"}
        /\ tables' = [tables EXCEPT ![c] = @ \cup done]
  BY DEF ExecAll
<1>3. o \in JobT /\ JobOK(o) /\ tables \in [Pool -> SUBSET Schema]
  BY DEF TablesInv
<1>4. c \in Pool /\ PoolOf(p) = c
  <2>1. o.name \in Name
    BY <1>1, <1>3 DEF JobOK
  <2> QED
    BY <1>1, <2>1, PoolTypes DEF ConnInv, ConnTypeOK, PoolOf
<1>5. done \subseteq Schema
  BY <1>3 DEF JobT
<1> HIDE DEF c
<1>6. /\ tables' \in [Pool -> SUBSET Schema]
      /\ \A d \in Pool : tables'[d] = IF d = c THEN tables[d] \cup done ELSE tables[d]
  BY <1>2, <1>3, <1>4, <1>5
<1>7. JobOK(NoJob)'
  BY DEF NoJob, JobOK
<1>8. TablesInv'
  BY <1>1, <1>6, <1>7, NoJobOK, JobStep
<1>9. ended' = "nil" => o.must \subseteq tables'[c]
  <2>1. ended' = "nil" => done = o.snap
    BY <1>2
  <2>2. o.must \subseteq o.snap
    BY <1>1, <1>3 DEF JobOK
  <2> QED
    BY <1>4, <1>6, <2>1, <2>2
<1>10. \A s, t \in Schema :
         (Before(s, t) /\ s \in o.snap /\ t \in tables'[c] \ tables[c]) => s \in tables'[c]
  BY <1>2, <1>4, <1>6
<1> QED
  BY <1>4, <1>8, <1>9, <1>10 DEF Created

LEMMA InitStepCreates ==
  ASSUME TablesInv, ConnInv, NEW p \in Proc, InitStep(p)
  PROVE  TablesInv' /\ Created(p)
<1>1. ASSUME NEW n \in Name, StartInitPanics(p, n) PROVE TablesInv' /\ Created(p)
  <2>1. /\ job[p] = NoJob /\ job' = job /\ tables' = tables
        /\ schemas' = schemas /\ engine' = engine
    BY <1>1 DEF StartInitPanics, schemaVars
  <2> QED
    BY <2>1, NoJobOK DEF TablesInv, JobOK, Has, Created, Ends
<1>2. CASE ExecAllPanics(p)
  BY <1>2, ReturnCreates DEF ExecAllPanics, At, schemaVars
<1> QED
  BY <1>1, <1>2, StartInitCreates, ReadSchemaCreates, GenDDLCreates, BeginCreates,
     ExecStatementCreates, BatchEndsCreates, ExecAllCreates DEF InitStep

\* A step of the namespace only narrows what Init must create.
LEMMA NamespaceStepTables ==
  ASSUME TablesInv, NEW p \in Proc, NamespaceStep(p)
  PROVE  /\ TablesInv' /\ tables' = tables
         /\ \A q \in Proc : job'[q].pc = job[q].pc
<1>1. /\ job' = [q \in Proc |-> [job[q] EXCEPT !.must = {s \in @ : Has(schemas', s)}]]
      /\ tables' = tables /\ engine' = engine
  BY DEF NamespaceStep
<1>2. ASSUME NEW q \in Proc PROVE job'[q] \in JobT /\ JobOK(job[q])' /\ job'[q].pc = job[q].pc
  <2> DEFINE o == job[q]
             m == {s \in o.must : Has(schemas', s)}
             r == [o EXCEPT !.must = m]
  <2>1. o \in JobT /\ JobOK(o)
    BY DEF TablesInv
  <2>2. m \in SUBSET Schema
    BY <2>1 DEF JobT
  <2>3. job'[q] = r
    BY <1>1
  <2>4. r \in JobT
    <3>1. r = [o EXCEPT !.must = m]
      OBVIOUS
    <3> HIDE DEF r, o, m
    <3> QED
      BY <2>1, <2>2, <3>1 DEF JobT
  <2>5. PICK j \in JobT : j = r
    BY <2>4
  <2>6. /\ j.pc = o.pc /\ j.kind = o.kind /\ j.name = o.name /\ j.pool = o.pool
        /\ j.unread = o.unread /\ j.snap = o.snap /\ j.must = m /\ j.todo = o.todo
        /\ j.mine = o.mine
    BY <2>1, <2>5 DEF JobT
  <2> HIDE DEF r
  <2>7. JobOK(j)'
    BY <1>1, <2>1, <2>6 DEF JobOK
  <2> QED
    BY <2>3, <2>5, <2>6, <2>7
<1> QED
  BY <1>1, <1>2 DEF TablesInv

LEMMA TablesInvInit == ConnectionInit => TablesInv
<1> SUFFICES ASSUME ConnectionInit PROVE TablesInv
  OBVIOUS
<1>1. job = [p \in Proc |-> NoJob] /\ tables = [c \in Pool |-> {}]
  BY DEF ConnectionInit
<1> QED
  BY <1>1, NoJobOK DEF TablesInv

LEMMA TablesInvStep == ConnInv /\ TablesInv /\ [ConnectionNext]_allVars => TablesInv'
<1> SUFFICES ASSUME ConnInv, TablesInv, [ConnectionNext]_allVars PROVE TablesInv'
  OBVIOUS
<1>1. CASE UNCHANGED allVars
  BY <1>1 DEF allVars, vars, initVars, TablesInv, JobOK, Has
<1> QED
  BY <1>1, InitStepCreates, NamespaceStepTables DEF ConnectionNext

\* A running Init has read, and has created or still has to create, every table it must.
THEOREM TablesInvariant == ConnectionSpec => []TablesInv
<1>1. ConnectionInit => TablesInv
  BY TablesInvInit
<1>2. ConnInv /\ TablesInv /\ [ConnectionNext]_allVars => TablesInv'
  BY TablesInvStep
<1>3. ConnectionSpec => []ConnInv
  BY ConnectionsInvariant
<1> QED
  BY <1>1, <1>2, <1>3, PTL DEF ConnectionSpec

LEMMA InitStepJob ==
  ASSUME NEW p \in Proc, NEW q \in Proc, InitStep(p), q # p, job \in [Proc -> JobT]
  PROVE  job'[q] = job[q]
<1>1. \E r : job' = [job EXCEPT ![p] = r] \/ job' = job
  <2>1. \A kind \in {"connection", "namespace"}, n \in Name :
          StartInit(p, kind, n) => job' = [job EXCEPT ![p] = Job(kind, n)]
    BY DEF StartInit
  <2>2. \A n \in Name : StartInitPanics(p, n) => job' = job
    BY DEF StartInitPanics
  <2>3. ReadSchema(p) \/ GenDDL(p) \/ Begin(p) => \E r : job' = [job EXCEPT ![p] = r]
    BY DEF ReadSchema, GenDDL, Begin, Goto, Return
  <2>4. BeginFails(p) \/ ExecFails(p) \/ ParamsMissing(p) => job' = [job EXCEPT ![p] = NoJob]
    BY DEF BeginFails, ExecFails, ParamsMissing, Return
  <2>5. BatchDone(p) \/ CommitFails(p) \/ ExecAllPanics(p) => job' = [job EXCEPT ![p] = NoJob]
    BY DEF BatchDone, CommitFails, ExecAllPanics, Return
  <2>6. ExecAll(p) => job' = [job EXCEPT ![p] = NoJob]
    BY DEF ExecAll
  <2>7. ExecStatement(p) => \E r : job' = [job EXCEPT ![p] = r]
    BY DEF ExecStatement
  <2> QED
    BY <2>1, <2>2, <2>3, <2>4, <2>5, <2>6, <2>7 DEF InitStep
<1> QED
  BY <1>1

\* Whatever connects, disconnects and registers meanwhile, on any driver: a step that
\* changes the tables of a running Init, or ends it, is a step of that Init.
LEMMA StepCreates ==
  ASSUME ConnInv, TablesInv, [ConnectionNext]_allVars, NEW p \in Proc,
         Ends(p) \/ (job'[p] # job[p] /\ tables' # tables)
  PROVE  Created(p)
<1>1. ~UNCHANGED allVars
  BY DEF allVars, initVars, Ends
<1>2. PICK q \in Proc : InitStep(q) \/ NamespaceStep(q)
  BY <1>1 DEF ConnectionNext
<1>3. ~NamespaceStep(q)
  BY NamespaceStepTables DEF Ends
<1>4. \A r \in Proc : r # q => job'[r] = job[r]
  BY <1>2, <1>3, InitStepJob DEF TablesInv
<1> QED
  BY <1>2, <1>3, <1>4, InitStepCreates DEF Ends

\* Init that returns nil has created the table of every schema that was registered
\* all the time it ran, also with other goroutines in Connect, Disconnect and
\* RegisterSchema.
THEOREM InitCreates == ConnectionSpec => InitCreatesTables
<1> DEFINE Creates ==
      \A p \in Proc : (Ends(p) /\ ended' = "nil") => job[p].must \subseteq tables'[PoolOf(p)]
<1>1. ConnInv /\ TablesInv /\ [ConnectionNext]_allVars => [Creates]_allVars
  BY StepCreates DEF Created
<1>2. ConnectionSpec => []ConnInv /\ []TablesInv
  BY ConnectionsInvariant, TablesInvariant, PTL
<1>3. InitCreatesTables <=> [][Creates]_allVars
  BY DEF InitCreatesTables
<1> QED
  BY <1>1, <1>2, <1>3, PTL DEF ConnectionSpec

\* An Init that stops at a statement has created the tables before it and none behind.
THEOREM InitCreatesInOrder == ConnectionSpec => TablesInOrder
<1> DEFINE Ordered ==
      \A p \in Proc : (job[p].pc # "idle" /\ job'[p] # job[p] /\ tables' # tables) =>
        \A i, j \in 1 .. Len(Sorted) :
          (/\ i < j /\ Sorted[i] \in job[p].snap
           /\ Sorted[j] \in tables'[PoolOf(p)] \ tables[PoolOf(p)])
            => Sorted[i] \in tables'[PoolOf(p)]
<1>1. ConnInv /\ TablesInv /\ [ConnectionNext]_allVars => [Ordered]_allVars
  <2> SUFFICES ASSUME ConnInv, TablesInv, [ConnectionNext]_allVars, NEW p \in Proc,
                      job[p].pc # "idle", job'[p] # job[p], tables' # tables,
                      NEW i \in 1 .. Len(Sorted), NEW j \in 1 .. Len(Sorted), i < j,
                      Sorted[i] \in job[p].snap,
                      Sorted[j] \in tables'[PoolOf(p)] \ tables[PoolOf(p)]
               PROVE  Sorted[i] \in tables'[PoolOf(p)]
    OBVIOUS
  <2>1. Sorted[i] \in Schema /\ Sorted[j] \in Schema
    BY ConnectionAssumption
  <2>2. Before(Sorted[i], Sorted[j])
    BY DEF Before
  <2>3. Created(p)
    BY StepCreates
  <2> QED
    BY <2>1, <2>2, <2>3 DEF Created
<1>2. ConnectionSpec => []ConnInv /\ []TablesInv
  BY ConnectionsInvariant, TablesInvariant, PTL
<1>3. TablesInOrder <=> [][Ordered]_allVars
  BY DEF TablesInOrder
<1> QED
  BY <1>1, <1>2, <1>3, PTL DEF ConnectionSpec
=============================================================================
