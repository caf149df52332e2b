----------------------------- MODULE DataModel -----------------------------
(***************************************************************************)
(* Create, Update and Delete of a DataModel (model.go) and the database    *)
(* transactions they run in.                                               *)
(*                                                                         *)
(* A DataModel may hold a transaction, xtx: the one its user gave it in    *)
(* ModelOptions.Tx, or one that ensureXtx began for it.  Update runs in    *)
(* xtx and never ends it, Create begins and ends transactions of its own,  *)
(* Delete runs outside any transaction.  After the rows of the document    *)
(* itself, Create and Update walk its relations (relatesWrite) and write   *)
(* the related rows with calls of the same three operations on the         *)
(* DataModel of the related schema.                                        *)
(*                                                                         *)
(* Goroutines interleave between any two database calls.  The database is  *)
(* external: a set of transactions, each with the writes made in it, and   *)
(* row locks that a transaction keeps until it ends.                       *)
(***************************************************************************)
EXTENDS Integers, Sequences

CONSTANTS
  Proc,       \* goroutines that call the library
  Model,      \* DataModels obtained with ns.Model, each used by some goroutines
  Uses,       \* [Proc -> SUBSET Model]: the DataModels a goroutine calls
  AutoIncr,   \* DataModels whose schema has an auto-increment field
  Row,        \* rows of the database
  Docs,       \* shapes of document the callers pass
  MaxTx,      \* bound: transactions begun
  MaxCalls,   \* bound: top-level calls of a goroutine
  MaxBatch,   \* bound: batches of one Create
  MaxStmts    \* bound: related writes of one relatesWrite

(***************************************************************************)
(* Documents, by what Item2List and ReflectValue.Map do with them:         *)
(*   walkable  a pointer to a map or a slice of maps;                      *)
(*   list      a []any, which Create stores as one row and relatesWrite    *)
(*             finds no relation in;                                       *)
(*   byvalue   a map passed by value: Item2List panics in v.Addr();        *)
(*   struct    a struct: parseStructToMap panics in v.Pointer().           *)
(***************************************************************************)
DocKind == {"walkable", "list", "byvalue", "struct"}

NoTx == 0
Handle == 1 .. MaxTx
DM == Model \cup Proc       \* slot p \in Proc: the DstModel of p's relatesWrite
Depth == 1 .. 2             \* 1: the caller's operation, 2: a related write
Op == {"create", "update", "delete"}

ASSUME BoundsAssumption ==
  /\ MaxTx \in Nat /\ MaxCalls \in Nat /\ MaxBatch \in Nat /\ MaxStmts \in Nat
ASSUME ModelAssumption ==
  /\ Model \cap Proc = {}
  /\ Uses \in [Proc -> SUBSET Model]
  /\ AutoIncr \subseteq DM
  /\ Docs \subseteq DocKind

VARIABLES
  txState,    \* Handle -> state of a database transaction
  txOwner,    \* Handle -> who began it
  txWrites,   \* Handle -> the writes made in it
  nextTx,     \* the next handle Beginx returns
  durable,    \* every write that was committed
  xtx,        \* DM -> DataModel.xtx
  calls,      \* Proc -> number of top-level calls made
  depth,      \* Proc -> 0 no call, 1 in the caller's operation, 2 in a related write
  frame,      \* Proc -> Depth -> the operation's local variables
  ret         \* Proc -> how the last top-level call returned

dbVars == <<txState, txOwner, txWrites, nextTx, durable>>
callVars == <<calls, depth, frame, ret>>
vars == <<txState, txOwner, txWrites, nextTx, durable, xtx, calls, depth, frame, ret>>

\* A write: the operation, its row, and the call, depth and batch it belongs to.
Write == [op : Op, row : Row, p : Proc, n : 0 .. MaxCalls, d : Depth, i : Nat]

Pc == {"idle", "begin", "insert", "relates", "commit", "ensure", "ebegin", "exec",
       "delete", "spin"}

(***************************************************************************)
(* The local variables of an operation: rows has one entry per batch (the  *)
(* row it writes), i is the batch at hand, tx Create's own transaction,    *)
(* cap the `tx := SrcModel.xtx` that relatesWrite hands to the DstModel,   *)
(* k the related writes it has started.                                    *)
(***************************************************************************)
Frame == [op : Op, m : DM, rows : Seq(Row), shared : BOOLEAN, doc : DocKind,
          i : Nat, tx : 0 .. MaxTx, cap : 0 .. MaxTx, k : Nat, pc : Pc]

----------------------------------------------------------------------------
\* Database (external: database/sql and the engine behind it)

OpenTx == {t \in Handle : txState[t] = "open"}

\* The rows a transaction keeps locked until it ends.
Holds(t, r) == t \in OpenTx /\ \E w \in txWrites[t] : w.row = r

\* Some transaction other than t holds row r.
Locked(t, r) == \E u \in Handle \ {t} : Holds(u, r)

\* Beginx: a new transaction for owner.
Begin(owner) ==
  /\ nextTx \in Handle
  /\ txState' = [txState EXCEPT ![nextTx] = "open"]
  /\ txOwner' = [txOwner EXCEPT ![nextTx] = owner]
  /\ nextTx' = nextTx + 1
  /\ UNCHANGED <<txWrites, durable>>

\* A statement run in t.
ExecIn(t, w) ==
  /\ t \in OpenTx
  /\ ~Locked(t, w.row)
  /\ txWrites' = [txWrites EXCEPT ![t] = @ \cup {w}]
  /\ UNCHANGED <<txState, txOwner, nextTx, durable>>

\* A statement run outside any transaction: it waits for every lock on its row.
ExecAuto(w) ==
  /\ ~Locked(NoTx, w.row)
  /\ durable' = durable \cup {w}
  /\ UNCHANGED <<txState, txOwner, txWrites, nextTx>>

CommitTx(t) ==
  /\ t \in OpenTx
  /\ txState' = [txState EXCEPT ![t] = "committed"]
  /\ durable' = durable \cup txWrites[t]
  /\ UNCHANGED <<txOwner, txWrites, nextTx>>

RollbackTx(t) ==
  /\ t \in OpenTx
  /\ txState' = [txState EXCEPT ![t] = "rolledback"]
  /\ UNCHANGED <<txOwner, txWrites, nextTx, durable>>

----------------------------------------------------------------------------
\* Calls

Top(p) == frame[p][depth[p]]
At(p, pc) == depth[p] \in Depth /\ Top(p).pc = pc

SetTop(p, f) == [frame EXCEPT ![p] = [@ EXCEPT ![depth[p]] = f]]
Goto(p, pc) == SetTop(p, [Top(p) EXCEPT !.pc = pc])

\* The write that p's operation makes now.
WriteOf(p) ==
  [op |-> Top(p).op, row |-> Top(p).rows[Top(p).i], p |-> p, n |-> calls[p],
   d |-> depth[p], i |-> Top(p).i]

\* The operation returns nil: a related write goes back to relatesWrite.
ReturnOk(p) ==
  /\ depth' = [depth EXCEPT ![p] = @ - 1]
  /\ ret' = IF depth[p] = 1 THEN [ret EXCEPT ![p] = "ok"] ELSE ret
  /\ calls' = calls

\* An error, of a related write too, ends the whole call.
ReturnErr(p, r) ==
  /\ depth' = [depth EXCEPT ![p] = 0]
  /\ ret' = [ret EXCEPT ![p] = r]
  /\ calls' = calls

Stay == UNCHANGED <<calls, depth, ret>>

\* The local variables of an operation that starts at pc.
NewFrame(op, m, rows, shared, doc, pc) ==
  [op |-> op, m |-> m, rows |-> rows, shared |-> shared, doc |-> doc,
   i |-> 1, tx |-> NoTx, cap |-> NoTx, k |-> 0, pc |-> pc]

NoFrame(p) == NewFrame("delete", p, <<>>, FALSE, "list", "idle")

\* relatesWrite is entered: it reads SrcModel.xtx once.
ToRelates(f) == [f EXCEPT !.pc = "relates", !.cap = xtx[f.m], !.k = 0]

\* setting the generated id: getStructField never finds the field of a
\* reflect.Value and loops (id: LastInsertId was positive).
SetsId(f, id) == id /\ f.m \in AutoIncr

Init ==
  /\ txState = [t \in Handle |-> "unused"]
  /\ txOwner = [t \in Handle |-> "none"]
  /\ txWrites = [t \in Handle |-> {}]
  /\ nextTx = 1
  /\ durable = {}
  /\ xtx = [m \in DM |-> NoTx]
  /\ calls = [p \in Proc |-> 0]
  /\ depth = [p \in Proc |-> 0]
  /\ frame = [p \in Proc |-> [d \in Depth |-> NoFrame(p)]]
  /\ ret = [p \in Proc |-> "none"]

----------------------------------------------------------------------------
\* The user of the library

\* Connection.Begin
ClientBegin == Begin("client") /\ UNCHANGED <<xtx, calls, depth, frame, ret>>

\* tx.Commit() or tx.Rollback() of the user's own transaction, at any time
ClientEnd(t) ==
  /\ txOwner[t] = "client"
  /\ CommitTx(t) \/ RollbackTx(t)
  /\ UNCHANGED <<xtx, calls, depth, frame, ret>>

\* ns.Model(name, &ModelOptions{Tx: t}) instead of ns.Model(name)
BindModel(m, t) ==
  /\ xtx[m] = NoTx
  /\ txOwner[t] = "client"
  /\ \A p \in Proc, d \in Depth : d <= depth[p] => frame[p][d].m # m
  /\ xtx' = [xtx EXCEPT ![m] = t]
  /\ UNCHANGED <<dbVars, callVars>>

Start(p, op, m, rows, shared, doc, pc) ==
  /\ depth[p] = 0
  /\ calls[p] < MaxCalls
  /\ calls' = [calls EXCEPT ![p] = @ + 1]
  /\ depth' = [depth EXCEPT ![p] = 1]
  /\ frame' = [frame EXCEPT ![p] = <<NewFrame(op, m, rows, shared, doc, pc), NoFrame(p)>>]
  /\ ret' = [ret EXCEPT ![p] = "none"]
  /\ UNCHANGED <<dbVars, xtx>>

\* A list or a map is one row; a slice may be empty or fill several batches.
Batches(doc) == IF doc \in {"list", "byvalue"} THEN {1} ELSE 0 .. MaxBatch

StartCreate(p) ==
  \E m \in Uses[p], shared \in BOOLEAN, doc \in Docs : \E n \in Batches(doc) :
    \E rows \in [1 .. n -> Row] :
      Start(p, "create", m, rows, shared, doc, "begin")

StartUpdate(p) ==
  \E m \in Uses[p], doc \in Docs, r \in Row :
    Start(p, "update", m, <<r>>, FALSE, doc, "ensure")

StartDelete(p) ==
  \E m \in Uses[p], r \in Row :
    Start(p, "delete", m, <<r>>, FALSE, "list", "delete")

----------------------------------------------------------------------------
\* Create

\* No rows and no shared transaction: the loop body never runs.
CreateNothing(p) ==
  /\ At(p, "begin")
  /\ ~Top(p).shared /\ Top(p).rows = <<>>
  /\ ReturnOk(p)
  /\ UNCHANGED <<dbVars, xtx, frame>>

\* xdb.Beginx, once for all batches or once for each
CreateBegin(p) ==
  /\ At(p, "begin")
  /\ Top(p).shared \/ Top(p).rows # <<>>
  /\ Begin("create")
  /\ LET f == [Top(p) EXCEPT !.tx = nextTx]
     IN  frame' = SetTop(p, IF f.rows = <<>> THEN ToRelates(f)
                                             ELSE [f EXCEPT !.pc = "insert"])
  /\ UNCHANGED xtx /\ Stay

\* Mutant of CreateBeginErr: the batch is skipped and the next one tried.
CreateBeginErrSkips(p) ==
  /\ At(p, "begin")
  /\ Top(p).i < Len(Top(p).rows)
  /\ frame' = SetTop(p, [Top(p) EXCEPT !.i = @ + 1])
  /\ UNCHANGED <<dbVars, xtx>> /\ Stay

CreateBeginErr(p) ==
  /\ At(p, "begin")
  /\ Top(p).shared \/ Top(p).rows # <<>>
  /\ ReturnErr(p, "err")
  /\ UNCHANGED <<dbVars, xtx, frame>>

\* insertBatchWithTx.  With a shared transaction the next batch follows at once.
AfterInsert(f, id) ==
  IF ~f.shared THEN ToRelates(f)
  ELSE IF SetsId(f, id) THEN [f EXCEPT !.pc = "spin"]
  ELSE IF f.i < Len(f.rows) THEN [f EXCEPT !.i = @ + 1]
  ELSE ToRelates(f)

\* Mutant of InsertBatch: the rows go into the DataModel's transaction.
InsertBatchInXtx(p) ==
  /\ At(p, "insert")
  /\ ExecIn(IF xtx[Top(p).m] = NoTx THEN Top(p).tx ELSE xtx[Top(p).m], WriteOf(p))
  /\ \E id \in BOOLEAN : frame' = SetTop(p, AfterInsert(Top(p), id))
  /\ UNCHANGED xtx /\ Stay

InsertBatch(p) ==
  /\ At(p, "insert")
  /\ ExecIn(Top(p).tx, WriteOf(p))
  /\ \E id \in BOOLEAN : frame' = SetTop(p, AfterInsert(Top(p), id))
  /\ UNCHANGED xtx /\ Stay

\* Mutants of InsertErr: it commits, it forgets the rollback, it forgets the error.
InsertErrCommits(p) ==
  /\ At(p, "insert")
  /\ CommitTx(Top(p).tx)
  /\ ReturnErr(p, "err")
  /\ UNCHANGED <<xtx, frame>>

InsertErrNoRollback(p) ==
  /\ At(p, "insert")
  /\ ReturnErr(p, "err")
  /\ UNCHANGED <<dbVars, xtx, frame>>

InsertErrReturnsNil(p) ==
  /\ At(p, "insert")
  /\ RollbackTx(Top(p).tx)
  /\ ReturnOk(p)
  /\ UNCHANGED <<xtx, frame>>

\* The statement or LastInsertId fails: roll back and give up.
InsertErr(p) ==
  /\ At(p, "insert")
  /\ RollbackTx(Top(p).tx)
  /\ ReturnErr(p, "err")
  /\ UNCHANGED <<xtx, frame>>

\* The options update conflicting rows with a column whose value is nil, or cannot
\* be: IsNil panics, in the first batch, and nobody rolls back.  Related rows are
\* created without options.
InsertPanics(p) ==
  /\ At(p, "insert")
  /\ depth[p] = 1 /\ Top(p).i = 1
  /\ ReturnErr(p, "panic")
  /\ UNCHANGED <<dbVars, xtx, frame>>

\* Mutant of AfterCommit: the next batch goes on in the committed transaction.
AfterCommitReuses(p, id) ==
  LET f == Top(p)
      more == ~f.shared /\ f.i < Len(f.rows)
      spins == ~f.shared /\ SetsId(f, id)
  IN  \/ spins /\ frame' = Goto(p, "spin") /\ Stay
      \/ ~spins /\ more /\ frame' = SetTop(p, [f EXCEPT !.i = @ + 1, !.pc = "insert"]) /\ Stay
      \/ ~spins /\ ~more /\ frame' = frame /\ ReturnOk(p)

\* The end of one commit: the id of an unshared batch, the next batch, or done.
AfterCommit(p, id) ==
  LET f == Top(p)
      more == ~f.shared /\ f.i < Len(f.rows)
      spins == ~f.shared /\ SetsId(f, id)
  IN  \/ spins /\ frame' = Goto(p, "spin") /\ Stay
      \/ ~spins /\ more /\ frame' = SetTop(p, [f EXCEPT !.i = @ + 1, !.pc = "begin"]) /\ Stay
      \/ ~spins /\ ~more /\ frame' = frame /\ ReturnOk(p)

CreateCommit(p) ==
  /\ At(p, "commit")
  /\ CommitTx(Top(p).tx)
  /\ \E id \in BOOLEAN : AfterCommit(p, id)
  /\ UNCHANGED xtx

\* Commit reports an error; the engine may have committed all the same.
CreateCommitErr(p) ==
  /\ At(p, "commit")
  /\ CommitTx(Top(p).tx) \/ RollbackTx(Top(p).tx)
  /\ ReturnErr(p, "err")
  /\ UNCHANGED <<xtx, frame>>

----------------------------------------------------------------------------
\* Update

\* Map() of the document comes first.
UpdateMapPanic(p) ==
  /\ At(p, "ensure")
  /\ Top(p).doc = "struct"
  /\ ReturnErr(p, "panic")
  /\ UNCHANGED <<dbVars, xtx, frame>>

\* Mutant of EnsureCheck: a transaction is begun for every Update.
EnsureCheckAlways(p) ==
  /\ At(p, "ensure")
  /\ Top(p).doc # "struct"
  /\ frame' = Goto(p, "ebegin")
  /\ UNCHANGED <<dbVars, xtx>> /\ Stay

\* ensureXtx: the check of dm.xtx, then Beginx and the assignment
EnsureCheck(p) ==
  /\ At(p, "ensure")
  /\ Top(p).doc # "struct"
  /\ frame' = Goto(p, IF xtx[Top(p).m] = NoTx THEN "ebegin" ELSE "exec")
  /\ UNCHANGED <<dbVars, xtx>> /\ Stay

EnsureBegin(p) ==
  /\ At(p, "ebegin")
  /\ Begin("ensure")
  /\ xtx' = [xtx EXCEPT ![Top(p).m] = nextTx]
  /\ frame' = Goto(p, "exec")
  /\ Stay

\* Mutant of EnsureErr: the error of Beginx is dropped.
EnsureErrIgnored(p) ==
  /\ At(p, "ebegin")
  /\ frame' = Goto(p, "exec")
  /\ UNCHANGED <<dbVars, xtx>> /\ Stay

EnsureErr(p) ==
  /\ At(p, "ebegin")
  /\ ReturnErr(p, "err")
  /\ UNCHANGED <<dbVars, xtx, frame>>

\* r.dm.xtx.Exec; a document that is no map sets no column and is refused
UpdateExec(p) ==
  /\ At(p, "exec")
  /\ Top(p).doc # "list"
  /\ ExecIn(xtx[Top(p).m], WriteOf(p))
  /\ frame' = SetTop(p, ToRelates(Top(p)))
  /\ UNCHANGED xtx /\ Stay

\* Mutant of UpdateErr: an update that failed is tried again.
UpdateErrRetries(p) ==
  /\ At(p, "exec")
  /\ frame' = Goto(p, "ensure")
  /\ UNCHANGED <<dbVars, xtx>> /\ Stay

UpdateErr(p) ==
  /\ At(p, "exec")
  /\ ReturnErr(p, "err")
  /\ UNCHANGED <<dbVars, xtx, frame>>

----------------------------------------------------------------------------
\* Delete

\* Mutant of DeleteRow: the statement runs in the DataModel's transaction.
DeleteRowInXtx(p) ==
  /\ At(p, "delete")
  /\ IF xtx[Top(p).m] = NoTx THEN ExecAuto(WriteOf(p)) ELSE ExecIn(xtx[Top(p).m], WriteOf(p))
  /\ ReturnOk(p)
  /\ UNCHANGED <<xtx, frame>>

\* RowsAffected may fail after the rows are gone.
DeleteRow(p) ==
  /\ At(p, "delete")
  /\ ExecAuto(WriteOf(p))
  /\ ReturnOk(p) \/ ReturnErr(p, "err")
  /\ UNCHANGED <<xtx, frame>>

DeleteErr(p) ==
  /\ At(p, "delete")
  /\ ReturnErr(p, "err")
  /\ UNCHANGED <<dbVars, xtx, frame>>

----------------------------------------------------------------------------
\* relatesWrite, from afterCreate or afterUpdate

\* Mutant of RelatesDone: Update commits the transaction it ran in.
RelatesDoneCommits(p) ==
  /\ At(p, "relates")
  /\ Top(p).doc \in {"walkable", "list"}
  /\ IF Top(p).op = "create" THEN frame' = Goto(p, "commit") /\ Stay /\ UNCHANGED dbVars
                             ELSE frame' = frame /\ ReturnOk(p) /\ CommitTx(xtx[Top(p).m])
  /\ UNCHANGED xtx

RelatesDone(p) ==
  /\ At(p, "relates")
  /\ Top(p).doc \in {"walkable", "list"}
  /\ IF Top(p).op = "create" THEN frame' = Goto(p, "commit") /\ Stay
                             ELSE frame' = frame /\ ReturnOk(p)
  /\ UNCHANGED <<dbVars, xtx>>

\* A query of the stored related rows fails.
RelatesErr(p) ==
  /\ At(p, "relates")
  /\ Top(p).doc = "walkable"
  /\ ReturnErr(p, "err")
  /\ UNCHANGED <<dbVars, xtx, frame>>

\* Item2List or Map panics on the document, ns.Model on a closed connection.
RelatesPanic(p) ==
  /\ At(p, "relates")
  /\ Top(p).doc # "list"
  /\ ReturnErr(p, "panic")
  /\ UNCHANGED <<dbVars, xtx, frame>>

(***************************************************************************)
(* One related write.  HAS_ONE creates a map, HAS_MANY a []any; both       *)
(* update with a map and delete, on a DstModel holding the captured        *)
(* transaction; REF_ONE updates the source DataModel.                      *)
(***************************************************************************)
RelatedFrame(p, r) ==
  {NewFrame("create", p, <<r>>, FALSE, doc, "begin") : doc \in {"byvalue", "list"}}
    \cup {NewFrame("update", m, <<r>>, FALSE, "byvalue", "ensure") : m \in {p, Top(p).m}}
    \cup {NewFrame("delete", p, <<r>>, FALSE, "list", "delete")}

RelatesStmt(p) ==
  /\ At(p, "relates")
  /\ depth[p] = 1 /\ Top(p).doc = "walkable"
  /\ Top(p).k < MaxStmts
  /\ \E r \in Row : \E f \in RelatedFrame(p, r) :
       frame' = [frame EXCEPT ![p] = <<[Top(p) EXCEPT !.k = @ + 1], f>>]
  /\ xtx' = [xtx EXCEPT ![p] = Top(p).cap]
  /\ depth' = [depth EXCEPT ![p] = 2]
  /\ UNCHANGED <<dbVars, calls, ret>>

----------------------------------------------------------------------------
CreateStep(p) ==
  CreateNothing(p) \/ CreateBegin(p) \/ CreateBeginErr(p) \/ InsertBatch(p)
    \/ InsertErr(p) \/ InsertPanics(p) \/ CreateCommit(p) \/ CreateCommitErr(p)
UpdateStep(p) ==
  UpdateMapPanic(p) \/ EnsureCheck(p) \/ EnsureBegin(p) \/ EnsureErr(p)
    \/ UpdateExec(p) \/ UpdateErr(p)
DeleteStep(p) == DeleteRow(p) \/ DeleteErr(p)
RelatesStep(p) == RelatesDone(p) \/ RelatesErr(p) \/ RelatesPanic(p) \/ RelatesStmt(p)

Step(p) == CreateStep(p) \/ UpdateStep(p) \/ DeleteStep(p) \/ RelatesStep(p)
StartCall(p) == StartCreate(p) \/ StartUpdate(p) \/ StartDelete(p)

ClientStep ==
  \/ ClientBegin
  \/ \E t \in Handle : ClientEnd(t) \/ \E m \in Model : BindModel(m, t)

Next == ClientStep \/ \E p \in Proc : StartCall(p) \/ Step(p)

Spec == Init /\ [][Next]_vars

----------------------------------------------------------------------------
\* Properties

\* Every variable holds a value of its type.
TypeOK ==
  /\ txState \in [Handle -> {"unused", "open", "committed", "rolledback"}]
  /\ txOwner \in [Handle -> {"none", "client", "create", "ensure"}]
  /\ txWrites \in [Handle -> SUBSET Write]
  /\ nextTx \in 1 .. MaxTx + 1
  /\ durable \in SUBSET Write
  /\ xtx \in [DM -> 0 .. MaxTx]
  /\ calls \in [Proc -> 0 .. MaxCalls]
  /\ depth \in [Proc -> 0 .. 2]
  /\ frame \in [Proc -> [Depth -> Frame]]
  /\ ret \in [Proc -> {"none", "ok", "err", "panic"}]

\* Of the writes W, those of p's last top-level Create, and the batches that are durable.
OwnWrites(p, W) == {w \in W : w.op = "create" /\ w.p = p /\ w.n = calls[p] /\ w.d = 1}
StoredBatches(p) == {w.i : w \in OwnWrites(p, durable)}

Creates(p) == calls[p] > 0 /\ frame[p][1].op = "create"

\* A Create with SharedTx stores all of its batches or none of them, whatever
\* fails and wherever another goroutine interferes.
SharedAllOrNothing ==
  \A p \in Proc : (Creates(p) /\ frame[p][1].shared) =>
    StoredBatches(p) \in {{}, DOMAIN frame[p][1].rows}

\* A Create without SharedTx stores its batches in order: what is durable is
\* always a prefix of the document, the batches before the one at hand.
BatchesInOrder ==
  \A p \in Proc : (Creates(p) /\ ~frame[p][1].shared) =>
    \E j \in {frame[p][1].i - 1, frame[p][1].i} : StoredBatches(p) = 1 .. j \cap DOMAIN frame[p][1].rows

\* A Create that returned nil has stored every row it was given, and one that
\* panicked, in the insert or in relations, has not stored the batch at hand.
CreateReturnsTruth ==
  \A p \in Proc : (Creates(p) /\ depth[p] = 0) =>
    /\ ret[p] = "ok" => StoredBatches(p) = DOMAIN frame[p][1].rows
    /\ ret[p] = "panic" => frame[p][1].i \notin StoredBatches(p)

\* What an Update writes becomes durable only when the user of the library
\* commits a transaction of its own: the one that ensureXtx begins is never
\* committed, so an Update of a DataModel without ModelOptions.Tx is lost
\* though it returned nil.
UpdatesDurableOnlyByClient ==
  \A w \in durable : w.op = "update" =>
    \E t \in Handle : txOwner[t] = "client" /\ txState[t] = "committed" /\ w \in txWrites[t]

\* A transaction holds the writes of one kind of operation: the user's and
\* ensureXtx's take updates only, Create's own takes inserts of one call only.
\* (Create and Delete on a DataModel with ModelOptions.Tx are not part of Tx.)
TxHoldsOneKind ==
  \A t \in Handle :
    /\ txOwner[t] \in {"client", "ensure"} => \A w \in txWrites[t] : w.op = "update"
    /\ txOwner[t] = "create" =>
         \A v, w \in txWrites[t] :
           v.op = "create" /\ v.p = w.p /\ v.n = w.n /\ v.d = w.d

\* p's operation at depth d is a Create inside its own transaction.
InTx(p, d) ==
  d <= depth[p] /\ frame[p][d].op = "create" /\ frame[p][d].pc \in {"insert", "relates", "commit"}

\* The transaction a Create runs in is its own alone: one that Create began,
\* that nobody has ended, and that no other running Create uses.
CreateTxIsPrivate ==
  \A p \in Proc, d \in Depth : InTx(p, d) =>
    /\ frame[p][d].tx \in OpenTx /\ txOwner[frame[p][d].tx] = "create"
    /\ \A q \in Proc, e \in Depth :
         InTx(q, e) /\ frame[q][e].tx = frame[p][d].tx => q = p /\ e = d

\* Update never runs on a nil transaction, also when goroutines share the
\* DataModel and race in ensureXtx.
NoNilExec == \A p \in Proc : At(p, "exec") => xtx[Top(p).m] # NoTx

\* A DataModel used by one goroutine collects its updates in one transaction:
\* an open transaction of ensureXtx with an update of a caller in it is the xtx
\* of some DataModel.
UpdatesStayReachable ==
  \A t \in OpenTx : (txOwner[t] = "ensure" /\ \E w \in txWrites[t] : w.d = 1) =>
    \E m \in Model : xtx[m] = t

\* A Delete takes effect only when no open transaction has written its row,
\* the one of its own DataModel included: it runs outside them all.
DeleteNeedsUnlockedRow ==
  [][\A w \in durable' \ durable : w.op = "delete" =>
       \A t \in Handle : ~Holds(t, w.row)]_vars

\* A caller's Create that ends leaves its transaction open only when the relations
\* of its document failed (afterCreate returns or panics), with the rows of the batch
\* in it, or when the insert of its first batch panicked, and then no row: that one
\* costs a connection, but nobody waits for it.  Every error of a statement ends it.
LeftOpenByRelationsOrPanic ==
  [][\A p \in Proc :
       (depth[p] > 0 /\ depth'[p] = 0 /\ frame[p][1].op = "create"
          /\ frame[p][1].tx \in Handle /\ txState'[frame[p][1].tx] = "open")
         => \/ frame[p][1].pc = "relates"
            \/ frame[p][1].pc = "insert" /\ ret'[p] = "panic"
                 /\ txWrites'[frame[p][1].tx] = {}]_vars

----------------------------------------------------------------------------
\* The promise to callers: the transactions of the library are hidden, those of
\* the user show the writes that wait in them for a commit.

Staged ==
  [t \in Handle |-> IF txOwner[t] = "client" /\ txState[t] = "open" THEN txWrites[t] ELSE {}]

Called ==
  [p \in Proc |->
     [n |-> calls[p], op |-> frame[p][1].op, rows |-> frame[p][1].rows,
      shared |-> frame[p][1].shared, ret |-> IF depth[p] = 0 THEN ret[p] ELSE "running"]]

P == INSTANCE Promise WITH Tx <- Handle, stored <- durable, staged <- Staged, call <- Called

\* However goroutines, failures and the user's own transactions interleave, every
\* step is one that the callers of Create, Update and Delete are promised: batches
\* are stored at once or in order, no update is stored but by a commit of the user,
\* nothing is stored for a call that is over, and nil means that the rows are there.
KeepsPromise == P!Spec

----------------------------------------------------------------------------
\* The inductive invariant behind the theorems of DataModelProofs

\* Transactions are handed out in order, each to one owner; DataModels hold
\* only transactions of the user or of ensureXtx.
HandlesOK ==
  /\ \A t \in Handle : t >= nextTx <=> txOwner[t] = "none"
  /\ \A t \in Handle : txOwner[t] = "none" => txState[t] = "unused" /\ txWrites[t] = {}
  /\ \A t \in Handle : txOwner[t] = "ensure" => txState[t] = "open"
  /\ \A m \in DM : xtx[m] # NoTx => txOwner[xtx[m]] \in {"client", "ensure"}

\* Every durable write is a Delete's or in a committed transaction, and the
\* writes of a transaction are its owner's.
WritesOK ==
  /\ \A w \in durable : w.op # "delete" =>
       \E t \in Handle : txState[t] = "committed" /\ w \in txWrites[t]
  /\ \A t \in Handle : \A w \in txWrites[t] :
       w.op = IF txOwner[t] = "create" THEN "create" ELSE "update"

\* The local variables of goroutine p's operations fit the place they are at.
FrameOK(p, f) ==
  /\ f.m \in Model \cup {p}
  /\ f.rows # <<>> => f.i \in 1 .. Len(f.rows)
  /\ f.pc \in {"insert", "ensure", "ebegin", "exec", "delete"} => f.rows # <<>>
  /\ f.pc \in {"begin", "insert", "commit", "spin"} => f.op = "create"
  /\ f.pc \in {"ensure", "ebegin", "exec"} => f.op = "update"
  /\ f.pc = "delete" => f.op = "delete"
  /\ f.pc = "relates" => f.op # "delete"
  /\ f.cap # NoTx => txOwner[f.cap] \in {"client", "ensure"}
  /\ f.pc = "exec" => xtx[f.m] # NoTx

FramesOK == \A p \in Proc, d \in Depth : FrameOK(p, frame[p][d])

\* The transaction of a running Create holds the writes of that Create only.
OwnWritesOK ==
  \A p \in Proc, d \in Depth : InTx(p, d) =>
    \A w \in txWrites[frame[p][d].tx] : w.p = p /\ w.n = calls[p] /\ w.d = d

OneCallPerTx ==
  \A t \in Handle : txOwner[t] = "create" =>
    \A v, w \in txWrites[t] : v.p = w.p /\ v.n = w.n /\ v.d = w.d

IInv == TypeOK /\ HandlesOK /\ WritesOK /\ FramesOK /\ CreateTxIsPrivate
          /\ OwnWritesOK /\ OneCallPerTx

----------------------------------------------------------------------------
\* The strengthening behind the theorems of DataModelBatches: which batches
\* of a Create are where

\* No write is of a call that has not begun.
NoFuture == \A w \in durable \cup UNION {txWrites[t] : t \in Handle} : w.n <= calls[w.p]

\* A call that runs was counted, a related write runs in relatesWrite of the
\* caller's operation, and a Delete has one row.
NestingOK ==
  \A p \in Proc :
    /\ depth[p] # 0 => calls[p] > 0
    /\ depth[p] = 2 => frame[p][1].pc = "relates"
    /\ frame[p][1].pc = "delete" => Len(frame[p][1].rows) = 1

\* A Create that begins a transaction has ended the one it had before.
Ended(t) == txState[t] \in {"committed", "rolledback"}
ClosedOK ==
  \A p \in Proc : LET f == frame[p][1] IN f.pc = "begin" /\ f.tx # NoTx => Ended(f.tx)

\* The write of batch i of p's Create, and the writes of its first j batches.
BatchWrite(p, i) ==
  [op |-> "create", row |-> frame[p][1].rows[i], p |-> p, n |-> calls[p], d |-> 1, i |-> i]
UpTo(p, j) == {BatchWrite(p, i) : i \in 1 .. j}

Stored(p, j) == OwnWrites(p, durable) = UpTo(p, j)

\* While a Create runs nothing of it is durable with a shared transaction, and
\* the batches before the one at hand without; the rest is in its transaction.
CreateRuns(p, f) ==
  /\ f.pc \in {"begin", "insert", "relates", "commit", "spin"}
  /\ f.pc = "begin" /\ f.shared => f.i = 1
  /\ f.pc \in {"relates", "commit", "spin"} /\ ~f.shared => f.rows # <<>>
  /\ Stored(p, IF f.shared THEN 0 ELSE IF f.pc = "spin" THEN f.i ELSE f.i - 1)
  /\ f.pc = "insert" => txWrites[f.tx] = UpTo(p, IF f.shared THEN f.i - 1 ELSE 0)
  /\ f.pc \in {"relates", "commit"} =>
       txWrites[f.tx] = IF f.shared THEN UpTo(p, Len(f.rows)) ELSE {BatchWrite(p, f.i)}

\* What a Create that ended leaves, by what it returned.
CreateOver(p, f) ==
  IF f.shared
  THEN \/ Stored(p, Len(f.rows)) /\ ret[p] # "panic"
       \/ Stored(p, 0) /\ ret[p] # "ok"
  ELSE \/ Stored(p, f.i - 1) /\ (ret[p] = "ok" => f.rows = <<>>)
       \/ Stored(p, f.i) /\ f.rows # <<>> /\ ret[p] # "panic" /\ (ret[p] = "ok" => f.i = Len(f.rows))

CreateOK(p) ==
  Creates(p) =>
    /\ frame[p][1].rows = <<>> => frame[p][1].i = 1
    /\ IF depth[p] = 0 THEN CreateOver(p, frame[p][1]) ELSE CreateRuns(p, frame[p][1])

BInv == IInv /\ NoFuture /\ NestingOK /\ ClosedOK /\ \A p \in Proc : CreateOK(p)

----------------------------------------------------------------------------
\* Liveness

\* The row that p's statement waits for: the statement returns only when the
\* lock is released or the engine gives up waiting, which it need not.
Blocked(p) ==
  \/ At(p, "insert") /\ Locked(Top(p).tx, Top(p).rows[Top(p).i])
  \/ At(p, "exec") /\ Locked(xtx[Top(p).m], Top(p).rows[1])
  \/ At(p, "delete") /\ Locked(NoTx, Top(p).rows[1])

\* Fairness: a goroutine that is not waiting for a row lock goes on running.
FairSpec == Spec /\ \A p \in Proc : WF_vars(~Blocked(p) /\ Step(p))

\* Every call ends, except one that loops setting a generated id and one that
\* waits for a row that a transaction keeps locked.
CallsEnd ==
  \A p \in Proc : <>[](depth[p] = 0 \/ At(p, "spin") \/ Blocked(p))
=============================================================================
