-------------------------- MODULE DataModelBatches --------------------------
(***************************************************************************)
(* Theorems about DataModel: which batches of a Create are stored.  They   *)
(* rest on BInv, which adds to IInv where the writes of every batch are    *)
(* while the Create runs and after it.  One about goroutines that do not   *)
(* share their DataModels: an Update stays within reach of its xtx.  And   *)
(* that DataModel implements Promise: every step of the code, for any      *)
(* goroutines, rows and bounds, is a step that the callers of Create,      *)
(* Update and Delete are promised, or changes nothing that they see.       *)
(***************************************************************************)
EXTENDS DataModelProofs

----------------------------------------------------------------------------
\* What a step leaves alone

\* The database does not get anything of q's Create, nor does its transaction.
Quiet(q) ==
  /\ \A w \in durable' : w \in durable \/ w.op # "create" \/ w.p # q \/ w.d # 1
  /\ durable \subseteq durable'
  /\ InTx(q, 1) => txWrites'[frame[q][1].tx] = txWrites[frame[q][1].tx]

\* The call of q neither returns nor begins.
SameCall(q) ==
  /\ calls'[q] = calls[q] /\ ret'[q] = ret[q]
  /\ depth'[q] \in 0 .. 2 /\ (depth'[q] = 0 <=> depth[q] = 0)

\* What CreateOK says of the caller's operation is in these local variables.
SameFrame(q) ==
  LET f == frame[q][1]
      g == frame'[q][1]
  IN  /\ g.op = f.op /\ g.rows = f.rows /\ g.shared = f.shared /\ g.i = f.i
      /\ g.tx = f.tx /\ g.pc = f.pc

LEMMA BatchesSame ==
  ASSUME NEW p, calls'[p] = calls[p], frame'[p][1].rows = frame[p][1].rows
  PROVE  \A j : BatchWrite(p, j)' = BatchWrite(p, j) /\ UpTo(p, j)' = UpTo(p, j)
<1>1. \A j : BatchWrite(p, j)' = BatchWrite(p, j)
  BY DEF BatchWrite
<1> QED
  BY <1>1 DEF UpTo

LEMMA OwnSame ==
  ASSUME NEW p, calls'[p] = calls[p], Quiet(p)
  PROVE  OwnWrites(p, durable)' = OwnWrites(p, durable)
BY DEF Quiet, OwnWrites

LEMMA UpToNext ==
  ASSUME NEW p, NEW j \in Nat
  PROVE  UpTo(p, j + 1) = UpTo(p, j) \cup {BatchWrite(p, j + 1)}
<1>1. 1 .. j + 1 = (1 .. j) \cup {j + 1}
  OBVIOUS
<1> QED
  BY <1>1 DEF UpTo

LEMMA UpToZero == ASSUME NEW p PROVE UpTo(p, 0) = {}
BY DEF UpTo

\* A Create that a step leaves alone stays as it is.
LEMMA Undisturbed ==
  ASSUME TypeOK, NEW q \in Proc, CreateOK(q), SameCall(q), SameFrame(q), Quiet(q)
  PROVE  CreateOK(q)'
<1> DEFINE f == frame[q][1]
<1> SUFFICES ASSUME Creates(q)' PROVE CreateOK(q)'
  BY DEF CreateOK
<1>1. Creates(q)
  BY DEF Creates, SameCall, SameFrame
<1>2. \A j : BatchWrite(q, j)' = BatchWrite(q, j) /\ UpTo(q, j)' = UpTo(q, j)
  BY BatchesSame DEF SameCall, SameFrame
<1>3. \A j : Stored(q, j)' <=> Stored(q, j)
  BY <1>2, OwnSame DEF Stored, SameCall
<1>4. CASE depth[q] = 0
  BY <1>1, <1>3, <1>4 DEF CreateOK, CreateOver, SameCall, SameFrame
<1>5. CASE depth[q] # 0
  <2>1. CreateRuns(q, f)
    BY <1>1, <1>5 DEF CreateOK
  <2>2. f.pc \in {"insert", "relates", "commit"} => txWrites'[f.tx] = txWrites[f.tx]
    BY SMTT(60), <1>1, <1>5 DEF InTx, Quiet, Creates, TypeOK
  <2>3. CreateRuns(q, f)'
    BY ZenonT(60), <2>1, <2>2, <1>2, <1>3 DEF CreateRuns, SameFrame
  <2> QED
    BY <1>1, <1>5, <2>3 DEF CreateOK, SameCall, SameFrame
<1> QED
  BY <1>4, <1>5

\* A Create that gives up leaves what it has stored.
LEMMA GivesUp ==
  ASSUME TypeOK, NestingOK, NEW p \in Proc, CreateOK(p), SameFrame(p), Quiet(p),
         calls'[p] = calls[p], depth[p] \in Depth, depth'[p] = 0, ret'[p] \in {"err", "panic"},
         depth[p] = 1 => frame[p][1].pc # "spin"
  PROVE  CreateOK(p)'
<1> DEFINE f == frame[p][1]
<1> SUFFICES ASSUME Creates(p)' PROVE CreateOK(p)'
  BY DEF CreateOK
<1>1. Creates(p) /\ CreateRuns(p, f) /\ f.pc # "spin" /\ (f.rows = <<>> => f.i = 1)
  BY DEF Creates, SameFrame, CreateOK, NestingOK, Depth
<1>2. \A j : Stored(p, j)' <=> Stored(p, j)
  BY BatchesSame, OwnSame DEF Stored, SameFrame
<1>3. Stored(p, IF f.shared THEN 0 ELSE f.i - 1)'
  BY <1>1, <1>2 DEF CreateRuns, SameFrame
<1>4. CreateOver(p, f)'
  BY <1>1, <1>3 DEF CreateOver, SameFrame
<1> QED
  BY <1>1, <1>4 DEF CreateOK, SameFrame

----------------------------------------------------------------------------
\* The shape of a step of goroutine p

\* g is a later state of the local variables f of one operation.
Later(f, g) ==
  /\ g.op = f.op /\ g.m = f.m /\ g.rows = f.rows /\ g.shared = f.shared /\ g.pc # "delete"
  /\ g.pc = "begin" => f.pc = "commit" /\ g.tx = f.tx
  /\ g.pc = "ebegin" => f.pc = "ensure"

\* It returns, moves on in its own operation, or starts a related write.
LEMMA StepForms ==
  ASSUME IInv, NEW p \in Proc, Step(p)
  PROVE  /\ depth[p] \in Depth /\ calls' = calls
         /\ \/ frame' = frame /\ (ReturnOk(p) \/ \E r \in {"err", "panic"} : ReturnErr(p, r))
            \/ Stay /\ \E g : Later(Top(p), g) /\ frame' = SetTop(p, g)
            \/ RelatesStmt(p)
<1>1. CASE CreateNothing(p) \/ CreateBeginErr(p) \/ InsertErr(p) \/ InsertPanics(p) \/ CreateCommitErr(p)
  BY <1>1 DEF CreateNothing, CreateBeginErr, InsertPanics, InsertErr, CreateCommitErr, At, ReturnOk, ReturnErr
<1>2. CASE CreateBegin(p)
  <2> DEFINE g == IF [Top(p) EXCEPT !.tx = nextTx].rows = <<>>
                  THEN ToRelates([Top(p) EXCEPT !.tx = nextTx])
                  ELSE [[Top(p) EXCEPT !.tx = nextTx] EXCEPT !.pc = "insert"]
  <2>1. Top(p) \in Frame /\ nextTx \in 0 .. MaxTx /\ At(p, "begin")
    BY <1>2, TopType DEF CreateBegin, At, IInv, Begin, Handle
  <2>2. frame' = SetTop(p, g) /\ Stay
    BY <1>2 DEF CreateBegin
  <2>3. Later(Top(p), g)
    BY <2>1 DEF ToRelates, Frame, Later
  <2> HIDE DEF g
  <2> QED
    BY <2>1, <2>2, <2>3 DEF At, Stay
<1>3. CASE InsertBatch(p)
  <2>1. PICK id \in BOOLEAN : frame' = SetTop(p, AfterInsert(Top(p), id))
    BY <1>3 DEF InsertBatch
  <2>2. Top(p) \in Frame /\ Top(p).pc = "insert" /\ depth[p] \in Depth /\ Stay
    BY <1>3, TopType DEF InsertBatch, At, IInv
  <2>3. Later(Top(p), AfterInsert(Top(p), id))
    BY <2>2 DEF AfterInsert, ToRelates, Frame, Later
  <2> QED
    BY <2>1, <2>2, <2>3 DEF Stay
<1>4. CASE CreateCommit(p)
  <2>1. PICK id \in BOOLEAN : AfterCommit(p, id)
    BY <1>4 DEF CreateCommit
  <2>2. Top(p) \in Frame /\ Top(p).pc = "commit" /\ depth[p] \in Depth
    BY <1>4, TopType DEF CreateCommit, At, IInv
  <2>3. /\ Later(Top(p), [Top(p) EXCEPT !.pc = "spin"])
        /\ Later(Top(p), [Top(p) EXCEPT !.i = @ + 1, !.pc = "begin"])
    BY <2>2 DEF Frame, Later
  <2> QED
    BY <2>1, <2>2, <2>3 DEF AfterCommit, Goto, Stay, ReturnOk
<1>5. CASE UpdateMapPanic(p) \/ EnsureErr(p) \/ UpdateErr(p) \/ DeleteErr(p) \/ DeleteRow(p)
             \/ RelatesErr(p) \/ RelatesPanic(p)
  BY <1>5 DEF UpdateMapPanic, EnsureErr, UpdateErr, DeleteErr, DeleteRow, RelatesErr, RelatesPanic,
              At, ReturnOk, ReturnErr
<1>6. ASSUME NEW pc \in Pc \ {"delete", "begin"}, pc = "ebegin" => Top(p).pc = "ensure",
             depth[p] \in Depth, frame' = Goto(p, pc), Stay
      PROVE  \E g : Later(Top(p), g) /\ frame' = SetTop(p, g)
  <2>1. Later(Top(p), [Top(p) EXCEPT !.pc = pc])
    BY <1>6, TopType DEF IInv, Frame, Later
  <2> QED
    BY <1>6, <2>1 DEF Goto
<1>7. CASE EnsureCheck(p) \/ EnsureBegin(p)
  BY <1>6, <1>7 DEF EnsureCheck, EnsureBegin, At, Stay, Pc
<1>8. CASE UpdateExec(p)
  <2>1. Top(p) \in Frame /\ depth[p] \in Depth /\ frame' = SetTop(p, ToRelates(Top(p))) /\ Stay
    BY <1>8, TopType DEF UpdateExec, At, IInv
  <2>2. Later(Top(p), ToRelates(Top(p)))
    BY <2>1 DEF ToRelates, Frame, Later
  <2> QED
    BY <2>1, <2>2 DEF Stay
<1>9. CASE RelatesDone(p)
  BY <1>6, <1>9 DEF RelatesDone, At, Stay, Pc, ReturnOk
<1>10. CASE RelatesStmt(p)
  BY <1>10 DEF RelatesStmt, At
<1> QED
  BY <1>1, <1>2, <1>3, <1>4, <1>5, <1>7, <1>8, <1>9, <1>10
     DEF Step, CreateStep, UpdateStep, DeleteStep, RelatesStep

\* The other goroutines' calls go on, and so does the caller's operation of p
\* while p is in a related write that does not fail.
LEMMA StepLocal ==
  ASSUME IInv, NEW p \in Proc, Step(p)
  PROVE  /\ \A q \in Proc : q # p => SameCall(q) /\ frame'[q] = frame[q] /\ depth'[q] = depth[q]
         /\ depth[p] = 2 =>
              /\ frame'[p][1] = frame[p][1]
              /\ SameCall(p) \/ (depth'[p] = 0 /\ ret'[p] \in {"err", "panic"})
<1>1. depth[p] \in Depth /\ calls' = calls
  BY StepForms
<1>2. CASE frame' = frame /\ ReturnOk(p)
  BY <1>1, <1>2 DEF ReturnOk, SameCall, IInv, TypeOK, Depth
<1>3. CASE frame' = frame /\ \E r \in {"err", "panic"} : ReturnErr(p, r)
  BY <1>1, <1>3 DEF ReturnErr, SameCall, IInv, TypeOK, Depth
<1>4. CASE Stay /\ \E g : Later(Top(p), g) /\ frame' = SetTop(p, g)
  <2>1. PICK g : frame' = SetTop(p, g)
    BY <1>4
  <2>2. frame' = [frame EXCEPT ![p] = [@ EXCEPT ![depth[p]] = g]]
    BY <2>1 DEF SetTop
  <2>3. \A q \in Proc : q # p => frame'[q] = frame[q]
    BY <2>2 DEF IInv, TypeOK
  <2>4. depth[p] = 2 => frame'[p][1] = frame[p][1]
    BY <2>2 DEF IInv, TypeOK, Depth
  <2> QED
    BY <1>4, <2>3, <2>4 DEF Stay, SameCall, IInv, TypeOK
<1>5. CASE RelatesStmt(p)
  BY <1>5 DEF RelatesStmt, SameCall, IInv, TypeOK
<1> QED
  BY <1>2, <1>3, <1>4, <1>5, StepForms

\* The database gets only what belongs to the operation that p is in.
LEMMA StepQuiet ==
  ASSUME IInv, NEW p \in Proc, Step(p), NEW q \in Proc, q # p \/ depth[p] = 2
  PROVE  Quiet(q)
<1>1. CASE durable' = durable /\ txWrites' = txWrites
  BY <1>1 DEF Quiet
<1>2. CASE InsertBatch(p)
  <2>1. Top(p).pc = "insert" /\ depth[p] \in Depth /\ durable' = durable
        /\ txWrites' = [txWrites EXCEPT ![Top(p).tx] = @ \cup {WriteOf(p)}]
    BY <1>2 DEF InsertBatch, At, ExecIn
  <2>2. Top(p).op = "create"
    BY <2>1 DEF IInv, FramesOK, FrameOK, Top
  <2>3. InTx(q, 1) => frame[q][1].tx # Top(p).tx /\ frame[q][1].tx \in Handle
    BY <2>1, <2>2, TopInTx DEF Depth, IInv, CreateTxIsPrivate, OpenTx
  <2> QED
    BY <2>1, <2>3 DEF Quiet, IInv, TypeOK
<1>3. CASE CreateCommit(p) \/ CreateCommitErr(p)
  <2>1. Top(p).pc = "commit" /\ depth[p] \in Depth /\ txWrites' = txWrites
        /\ (durable' = durable \cup txWrites[Top(p).tx] \/ durable' = durable)
    BY <1>3 DEF CreateCommit, CreateCommitErr, At, CommitTx, RollbackTx
  <2>2. Top(p).op = "create"
    BY <2>1 DEF IInv, FramesOK, FrameOK, Top
  <2>3. \A w \in txWrites[Top(p).tx] : w.p = p /\ w.d = depth[p]
    BY <2>1, <2>2, TopInTx DEF IInv, OwnWritesOK
  <2> QED
    BY <2>1, <2>3 DEF Quiet, Depth
<1>4. CASE UpdateExec(p)
  <2> DEFINE t == xtx[Top(p).m]
  <2>1. Top(p).pc = "exec" /\ depth[p] \in Depth /\ durable' = durable
        /\ txWrites' = [txWrites EXCEPT ![t] = @ \cup {WriteOf(p)}] /\ t \in Handle
    BY <1>4 DEF UpdateExec, At, ExecIn, OpenTx
  <2>2. Top(p).m \in DM
    BY <2>1, TopType DEF IInv, Frame
  <2>3. txOwner[t] \in {"client", "ensure"}
    BY <2>1, <2>2 DEF IInv, HandlesOK, Handle, NoTx
  <2>4. InTx(q, 1) => frame[q][1].tx # t /\ frame[q][1].tx \in Handle
    BY <2>3 DEF Depth, IInv, CreateTxIsPrivate, OpenTx
  <2> QED
    BY <2>1, <2>4 DEF Quiet, IInv, TypeOK
<1>5. CASE DeleteRow(p)
  <2>1. Top(p).pc = "delete" /\ depth[p] \in Depth /\ durable' = durable \cup {WriteOf(p)}
        /\ txWrites' = txWrites
    BY <1>5 DEF DeleteRow, At, ExecAuto
  <2>2. WriteOf(p).op = "delete"
    BY <2>1 DEF IInv, FramesOK, FrameOK, Top, WriteOf
  <2> QED
    BY <2>1, <2>2 DEF Quiet
<1>6. Step(p) => \/ durable' = durable /\ txWrites' = txWrites
                 \/ InsertBatch(p) \/ CreateCommit(p) \/ CreateCommitErr(p) \/ UpdateExec(p)
                 \/ DeleteRow(p)
  BY DEF Step, CreateStep, UpdateStep, DeleteStep, RelatesStep, CreateNothing, CreateBegin,
         CreateBeginErr, InsertPanics, InsertErr, UpdateMapPanic, EnsureCheck, EnsureBegin, EnsureErr,
         UpdateErr, DeleteErr, RelatesDone, RelatesErr, RelatesPanic, RelatesStmt,
         Begin, RollbackTx, dbVars
<1> QED
  BY <1>1, <1>2, <1>3, <1>4, <1>5, <1>6

----------------------------------------------------------------------------
\* Writes of the future, and nesting

Written == durable \cup UNION {txWrites[t] : t \in Handle}

\* A step writes what the operation at hand writes, and nothing else.
LEMMA StepWrites ==
  ASSUME IInv, NEW p \in Proc, Step(p)
  PROVE  \A w \in Written' : w \in Written \/ w = WriteOf(p)
<1>1. CASE durable' = durable /\ txWrites' = txWrites
  BY <1>1 DEF Written
<1>2. ASSUME NEW t \in Handle, durable' = durable,
             txWrites' = [txWrites EXCEPT ![t] = @ \cup {WriteOf(p)}]
      PROVE  \A w \in Written' : w \in Written \/ w = WriteOf(p)
  <2>1. \A u \in Handle : \A w \in txWrites'[u] : w \in txWrites[u] \/ w = WriteOf(p)
    BY <1>2 DEF IInv, TypeOK
  <2> QED
    BY <1>2, <2>1 DEF Written
<1>3. CASE CreateCommit(p) \/ CreateCommitErr(p)
  <2>1. PICK t \in Handle : durable' = durable \cup txWrites[t] \/ durable' = durable
    BY <1>3 DEF CreateCommit, CreateCommitErr, CommitTx, RollbackTx, OpenTx
  <2>2. txWrites' = txWrites
    BY <1>3 DEF CreateCommit, CreateCommitErr, CommitTx, RollbackTx
  <2> QED
    BY <2>1, <2>2 DEF Written
<1>4. CASE InsertBatch(p) \/ UpdateExec(p)
  BY <1>2, <1>4 DEF InsertBatch, UpdateExec, ExecIn, OpenTx
<1>5. CASE DeleteRow(p)
  BY <1>5 DEF DeleteRow, ExecAuto, Written
<1>6. Step(p) => \/ durable' = durable /\ txWrites' = txWrites
                 \/ InsertBatch(p) \/ CreateCommit(p) \/ CreateCommitErr(p) \/ UpdateExec(p)
                 \/ DeleteRow(p)
  BY DEF Step, CreateStep, UpdateStep, DeleteStep, RelatesStep, CreateNothing, CreateBegin,
         CreateBeginErr, InsertPanics, InsertErr, UpdateMapPanic, EnsureCheck, EnsureBegin, EnsureErr,
         UpdateErr, DeleteErr, RelatesDone, RelatesErr, RelatesPanic, RelatesStmt,
         Begin, RollbackTx, dbVars
<1> QED
  BY <1>1, <1>3, <1>4, <1>5, <1>6

LEMMA StepNoFuture ==
  ASSUME IInv, NoFuture, NEW p \in Proc, Step(p) PROVE NoFuture'
<1>1. calls' = calls /\ calls[p] \in Nat
  BY StepForms DEF IInv, TypeOK
<1>2. WriteOf(p).p = p /\ WriteOf(p).n = calls[p]
  BY DEF WriteOf
<1> QED
  BY <1>1, <1>2, StepWrites DEF NoFuture, Written

LEMMA StepNesting ==
  ASSUME IInv, NestingOK, NEW p \in Proc, Step(p) PROVE NestingOK'
<1> SUFFICES ASSUME NEW q \in Proc
             PROVE  /\ depth'[q] = 2 => frame'[q][1].pc = "relates"
                    /\ frame'[q][1].pc = "delete" => Len(frame'[q][1].rows) = 1
  <2>1. \A r \in Proc : calls'[r] = calls[r] /\ (depth'[r] # 0 => depth[r] # 0)
    BY StepForms, StepLocal DEF SameCall, Depth
  <2> QED
    BY <2>1 DEF NestingOK
<1>1. depth[p] \in Depth
  BY StepForms
<1>2. CASE q # p
  BY <1>2, StepLocal DEF NestingOK
<1>3. CASE q = p /\ depth[p] = 2
  BY <1>3, StepLocal DEF NestingOK
<1>4. CASE q = p /\ depth[p] = 1
  <2>1. CASE frame' = frame /\ (ReturnOk(p) \/ \E r \in {"err", "panic"} : ReturnErr(p, r))
    BY <1>4, <2>1 DEF NestingOK, ReturnOk, ReturnErr, IInv, TypeOK
  <2>2. CASE Stay /\ \E g : Later(Top(p), g) /\ frame' = SetTop(p, g)
    <3>1. PICK g : Later(Top(p), g) /\ frame' = SetTop(p, g)
      BY <2>2
    <3>2. frame'[p][1] = g
      BY <1>4, <3>1, SetTopLemma DEF IInv, Depth
    <3> QED
      BY <1>4, <2>2, <3>1, <3>2 DEF Stay, Later
  <2>3. CASE RelatesStmt(p)
    <3>1. frame'[p][1] = [Top(p) EXCEPT !.k = @ + 1] /\ Top(p).pc = "relates" /\ Top(p) \in Frame
      BY <2>3, TopType DEF RelatesStmt, IInv, TypeOK, Depth, At
    <3> QED
      BY <1>4, <3>1 DEF Frame
  <2> QED
    BY <2>1, <2>2, <2>3, StepForms
<1> QED
  BY <1>1, <1>2, <1>3, <1>4 DEF Depth

----------------------------------------------------------------------------
\* The steps of a caller's Create

\* What is known of p's Create before any of its steps.
LEMMA AtCreate ==
  ASSUME BInv, NEW p \in Proc, depth[p] = 1, calls[p] > 0, Top(p).op = "create"
  PROVE  /\ Top(p) = frame[p][1] /\ Top(p) \in Frame /\ depth[p] \in Depth
         /\ CreateRuns(p, frame[p][1]) /\ Creates(p)
         /\ frame[p][1].rows = <<>> => frame[p][1].i = 1
         /\ frame[p][1].rows # <<>> => frame[p][1].i \in 1 .. Len(frame[p][1].rows)
         /\ frame[p][1].i \in Nat /\ Len(frame[p][1].rows) \in Nat
         /\ frame[p][1].rows = <<>> <=> Len(frame[p][1].rows) = 0
<1>1. Top(p) = frame[p][1] /\ Top(p) \in Frame /\ depth[p] \in Depth
  BY TopType DEF Top, Depth, BInv, IInv
<1>2. Creates(p) /\ CreateOK(p)
  BY <1>1 DEF Creates, BInv
<1>3. FrameOK(p, frame[p][1])
  BY DEF Depth, BInv, IInv, FramesOK
<1> QED
  BY <1>1, <1>2, <1>3 DEF CreateOK, FrameOK, Frame

LEMMA CreateNothingOK ==
  ASSUME BInv, NEW p \in Proc, depth[p] = 1, calls[p] > 0, CreateNothing(p)
  PROVE  CreateOK(p)'
<1> DEFINE f == frame[p][1]
<1>1. Top(p).pc = "begin" /\ ~Top(p).shared /\ Top(p).rows = <<>> /\ ReturnOk(p)
      /\ frame' = frame /\ calls' = calls /\ durable' = durable
  BY DEF CreateNothing, At, ReturnOk, dbVars
<1>2. Top(p).op = "create"
  BY <1>1 DEF BInv, IInv, FramesOK, FrameOK, Top, Depth
<1>3. Top(p) = f /\ CreateRuns(p, f) /\ f.i = 1
  BY <1>1, <1>2, AtCreate
<1>4. depth'[p] = 0 /\ ret'[p] = "ok"
  BY <1>1 DEF ReturnOk, BInv, IInv, TypeOK
<1>5. Stored(p, f.i - 1)'
  BY <1>1, <1>3 DEF CreateRuns, Stored, OwnWrites, UpTo, BatchWrite
<1>6. CreateOver(p, f)'
  BY <1>1, <1>3, <1>4, <1>5 DEF CreateOver
<1> QED
  BY <1>1, <1>3, <1>4, <1>6 DEF CreateOK

LEMMA CreateBeginOK ==
  ASSUME BInv, NEW p \in Proc, depth[p] = 1, calls[p] > 0, CreateBegin(p)
  PROVE  CreateOK(p)'
<1> DEFINE f == frame[p][1]
           h == [f EXCEPT !.tx = nextTx]
           g == frame'[p][1]
<1>1. Top(p).pc = "begin" /\ (Top(p).shared \/ Top(p).rows # <<>>) /\ Begin("create")
      /\ UNCHANGED <<calls, depth, ret>>
      /\ frame' = SetTop(p, IF [Top(p) EXCEPT !.tx = nextTx].rows = <<>>
                            THEN ToRelates([Top(p) EXCEPT !.tx = nextTx])
                            ELSE [[Top(p) EXCEPT !.tx = nextTx] EXCEPT !.pc = "insert"])
  BY DEF CreateBegin, At, Stay
<1>2. Top(p).op = "create"
  BY <1>1 DEF BInv, IInv, FramesOK, FrameOK, Top, Depth
<1>3. /\ Top(p) = f /\ CreateRuns(p, f) /\ f \in Frame /\ depth[p] \in Depth
      /\ f.rows = <<>> => f.i = 1
  BY <1>2, AtCreate
<1>4. nextTx \in Handle /\ txWrites' = txWrites /\ durable' = durable /\ txWrites[nextTx] = {}
      /\ nextTx \in 0 .. MaxTx
  BY <1>1, FreshHandle DEF Begin, BInv, Handle
<1>5. g = IF h.rows = <<>> THEN ToRelates(h) ELSE [h EXCEPT !.pc = "insert"]
  BY <1>1, <1>3, SetTopLemma DEF BInv, IInv, Depth
<1>6. /\ g.tx = nextTx /\ g.op = f.op /\ g.rows = f.rows /\ g.shared = f.shared /\ g.i = f.i
      /\ g.pc = IF f.rows = <<>> THEN "relates" ELSE "insert"
  BY <1>3, <1>4, <1>5 DEF ToRelates, Frame
<1>7. \A j : BatchWrite(p, j)' = BatchWrite(p, j) /\ UpTo(p, j)' = UpTo(p, j)
  <2>1. calls'[p] = calls[p] /\ frame'[p][1].rows = frame[p][1].rows
    BY <1>1, <1>6
  <2> QED
    BY <2>1, BatchesSame
<1>8. \A j : Stored(p, j)' <=> Stored(p, j)
  <2>1. OwnWrites(p, durable)' = OwnWrites(p, durable)
    <3>1. durable' = durable /\ calls' = calls
      BY ZenonT(60), <1>1, <1>4
    <3> QED
      BY <3>1 DEF OwnWrites
  <2> QED
    BY <1>7, <2>1 DEF Stored
<1>9. Stored(p, IF f.shared THEN 0 ELSE f.i - 1)'
  <2>1. Stored(p, IF f.shared THEN 0 ELSE f.i - 1)
    BY <1>1, <1>3 DEF CreateRuns
  <2> QED
    BY ZenonT(60), <1>6, <1>8, <2>1
<1>10. txWrites'[nextTx] = {} /\ UpTo(p, 0)' = {}
  BY <1>4, <1>7, UpToZero
<1>11. CASE f.rows = <<>>
  <2>1. f.shared /\ Len(f.rows) = 0 /\ g.pc = "relates"
    BY <1>1, <1>3, <1>6, <1>11
  <2>2. CreateRuns(p, f)'
    <3>1. txWrites'[g.tx] = UpTo(p, 0)' /\ Len(g.rows) = 0 /\ g.shared /\ g.i = 1
      BY <1>3, <1>6, <1>10, <1>11, <2>1
    <3>2. Stored(p, IF f.shared THEN 0 ELSE IF f.pc = "spin" THEN f.i ELSE f.i - 1)'
      BY <1>6, <1>9, <2>1
    <3>3. txWrites'[g.tx] = IF g.shared THEN UpTo(p, Len(f.rows))' ELSE {BatchWrite(p, f.i)'}
      BY SMTT(60), <3>1
    <3> QED
      BY <2>1, <3>1, <3>2, <3>3 DEF CreateRuns
  <2>3. depth'[p] # 0 /\ g.i = 1
    BY <1>1, <1>3, <1>6, <1>11
  <2> QED
    BY SMTT(60), <2>2, <2>3 DEF CreateOK
<1>12. CASE f.rows # <<>>
  <2>1. g.pc = "insert" /\ (f.shared => f.i - 1 = 0)
    BY <1>1, <1>3, <1>6, <1>12 DEF CreateRuns
  <2>2. CreateRuns(p, f)'
    BY <1>6, <1>9, <1>10, <2>1 DEF CreateRuns
  <2>3. depth'[p] # 0 /\ g.rows # <<>>
    BY <1>1, <1>12, <1>6
  <2> QED
    BY SMTT(60), <2>2, <2>3 DEF CreateOK
<1> QED
  BY <1>11, <1>12

\* A Create that fails keeps what was stored before.
LEMMA CreateFailsOK ==
  ASSUME BInv, NEW p \in Proc, depth[p] = 1, Top(p).pc # "spin", frame' = frame,
         \E r \in {"err", "panic"} : ReturnErr(p, r),
         durable' = durable, txWrites' = txWrites
  PROVE  CreateOK(p)'
<1>1. depth'[p] = 0 /\ ret'[p] \in {"err", "panic"} /\ calls' = calls /\ depth[p] \in Depth
  BY DEF ReturnErr, BInv, IInv, TypeOK, Depth
<1>2. SameFrame(p) /\ Quiet(p)
  BY DEF SameFrame, Quiet
<1>3. frame[p][1].pc # "spin"
  BY DEF Top
<1> QED
  BY <1>1, <1>2, <1>3, GivesUp DEF BInv, IInv

LEMMA ToRelatesFields ==
  ASSUME NEW f \in Frame
  PROVE  LET g == ToRelates(f) IN
         /\ g.pc = "relates" /\ g.i = f.i /\ g.tx = f.tx
         /\ g.op = f.op /\ g.rows = f.rows /\ g.shared = f.shared
BY DEF ToRelates, Frame

\* Where a Create goes after it has inserted a batch.
LEMMA AfterInsertCases ==
  ASSUME NEW f \in Frame, f.pc = "insert", f.i \in 1 .. Len(f.rows), NEW id \in BOOLEAN,
         NEW g, g = AfterInsert(f, id)
  PROVE  /\ g.tx = f.tx /\ g.op = f.op /\ g.rows = f.rows /\ g.shared = f.shared
         /\ \/ ~f.shared /\ g.pc = "relates" /\ g.i = f.i
            \/ f.shared /\ g.pc = "spin" /\ g.i = f.i
            \/ f.shared /\ g.pc = "insert" /\ g.i = f.i + 1
            \/ f.shared /\ g.pc = "relates" /\ g.i = f.i /\ f.i = Len(f.rows)
<1>1. Len(f.rows) \in Nat /\ f.i \in Nat
  BY DEF Frame
<1>2. CASE ~f.shared
  BY <1>2, ToRelatesFields DEF AfterInsert
<1>3. CASE f.shared /\ SetsId(f, id)
  <2>1. g = [f EXCEPT !.pc = "spin"]
    BY <1>3 DEF AfterInsert
  <2> QED
    BY <1>3, <2>1 DEF Frame
<1>4. CASE f.shared /\ ~SetsId(f, id) /\ f.i < Len(f.rows)
  <2>1. g = [f EXCEPT !.i = @ + 1]
    BY <1>4 DEF AfterInsert
  <2> QED
    BY <1>4, <2>1 DEF Frame
<1>5. CASE f.shared /\ ~SetsId(f, id) /\ f.i >= Len(f.rows)
  <2>1. g = ToRelates(f)
    BY <1>1, <1>5 DEF AfterInsert
  <2>2. g.pc = "relates" /\ g.i = f.i /\ g.tx = f.tx /\ g.op = f.op /\ g.rows = f.rows /\ g.shared = f.shared
    BY <2>1, ToRelatesFields
  <2>3. f.i = Len(f.rows)
    BY <1>1, <1>5
  <2> QED
    BY <1>5, <2>2, <2>3
<1> QED
  BY <1>1, <1>2, <1>3, <1>4, <1>5

LEMMA InsertBatchOK ==
  ASSUME BInv, NEW p \in Proc, depth[p] = 1, calls[p] > 0, InsertBatch(p)
  PROVE  CreateOK(p)'
<1> DEFINE f == frame[p][1]
           g == frame'[p][1]
           n == Len(f.rows)
<1>1. Top(p).pc = "insert" /\ ExecIn(Top(p).tx, WriteOf(p)) /\ UNCHANGED <<calls, depth, ret>>
      /\ \E id \in BOOLEAN : frame' = SetTop(p, AfterInsert(Top(p), id))
  BY DEF InsertBatch, At, Stay
<1>2. Top(p).op = "create" /\ Top(p).rows # <<>>
  BY <1>1 DEF BInv, IInv, FramesOK, FrameOK, Top, Depth
<1>3. /\ Top(p) = f /\ CreateRuns(p, f) /\ f \in Frame /\ depth[p] \in Depth
      /\ f.i \in 1 .. n /\ n \in Nat
  BY <1>2, AtCreate
<1>4. PICK id \in BOOLEAN : g = AfterInsert(f, id)
  BY <1>1, <1>3, SetTopLemma DEF BInv, IInv, Depth
<1>5. /\ g.tx = f.tx /\ g.op = f.op /\ g.rows = f.rows /\ g.shared = f.shared
      /\ \/ ~f.shared /\ g.pc = "relates" /\ g.i = f.i
         \/ f.shared /\ g.pc = "spin" /\ g.i = f.i
         \/ f.shared /\ g.pc = "insert" /\ g.i = f.i + 1
         \/ f.shared /\ g.pc = "relates" /\ g.i = f.i /\ f.i = n
  BY SMTT(60), <1>1, <1>3, <1>4, AfterInsertCases
<1>6. \A j : BatchWrite(p, j)' = BatchWrite(p, j) /\ UpTo(p, j)' = UpTo(p, j)
  <2>1. calls'[p] = calls[p] /\ frame'[p][1].rows = frame[p][1].rows
    BY <1>1, <1>5
  <2> QED
    BY <2>1, BatchesSame
<1>7. durable' = durable /\ \A j : Stored(p, j)' <=> Stored(p, j)
  BY <1>1, <1>6 DEF Stored, OwnWrites, ExecIn
<1>8. Stored(p, IF f.shared THEN 0 ELSE f.i - 1)'
  BY <1>1, <1>3, <1>5, <1>7 DEF CreateRuns
<1>9. txWrites'[f.tx] = txWrites[f.tx] \cup {BatchWrite(p, f.i)}
  <2>1. WriteOf(p) = BatchWrite(p, f.i)
    BY <1>2, <1>3 DEF WriteOf, BatchWrite
  <2> QED
    BY <1>1, <1>3, <2>1 DEF ExecIn, OpenTx, BInv, IInv, TypeOK
<1>10. txWrites[f.tx] = UpTo(p, IF f.shared THEN f.i - 1 ELSE 0)
  BY <1>1, <1>3 DEF CreateRuns
<1>11. CASE ~f.shared
  <2>1. txWrites'[f.tx] = {BatchWrite(p, f.i)} /\ g.pc = "relates"
    BY <1>5, <1>9, <1>10, <1>11, UpToZero
  <2>2. CreateRuns(p, f)'
    BY <1>2, <1>3, <1>5, <1>6, <1>8, <1>11, <2>1 DEF CreateRuns
  <2> QED
    BY <1>1, <1>2, <1>3, <1>5, <2>2 DEF CreateOK
<1>12. CASE f.shared
  <2>1. txWrites'[f.tx] = UpTo(p, f.i)
    <3>1. f.i - 1 \in Nat /\ (f.i - 1) + 1 = f.i
      BY <1>3
    <3>2. UpTo(p, f.i) = UpTo(p, f.i - 1) \cup {BatchWrite(p, f.i)}
      BY <3>1, UpToNext
    <3> QED
      BY <1>9, <1>10, <1>12, <3>2
  <2>2. g.pc = "insert" => g.i - 1 = f.i
    BY <1>3, <1>5, <1>12
  <2>3. CreateRuns(p, f)'
    BY <1>3, <1>5, <1>6, <1>8, <1>12, <2>1, <2>2 DEF CreateRuns
  <2> QED
    BY <1>1, <1>2, <1>3, <1>5, <2>3 DEF CreateOK
<1> QED
  BY <1>11, <1>12

\* What a Create has stored after a commit of its transaction.
LEMMA CommitStores ==
  ASSUME BInv, NEW p \in Proc, depth[p] = 1, calls[p] > 0, At(p, "commit"),
         CommitTx(Top(p).tx), calls' = calls
  PROVE  LET f == frame[p][1]
         IN  /\ OwnWrites(p, durable)' = UpTo(p, IF f.shared THEN Len(f.rows) ELSE f.i)
             /\ ~f.shared => f.rows # <<>>
<1> DEFINE f == frame[p][1]
<1>1. Top(p).pc = "commit" /\ durable' = durable \cup txWrites[Top(p).tx]
  BY DEF At, CommitTx
<1>2. Top(p).op = "create"
  BY <1>1 DEF BInv, IInv, FramesOK, FrameOK, Top, Depth
<1>3. /\ Top(p) = f /\ CreateRuns(p, f) /\ Len(f.rows) \in Nat
      /\ f.rows # <<>> => f.i \in 1 .. Len(f.rows)
  BY <1>2, AtCreate
<1>5. OwnWrites(p, durable)' = OwnWrites(p, durable) \cup OwnWrites(p, txWrites[f.tx])
  BY <1>1, <1>3 DEF OwnWrites
<1>6. \A j : OwnWrites(p, UpTo(p, j)) = UpTo(p, j)
  BY DEF OwnWrites, UpTo, BatchWrite
<1>7. CASE f.shared
  <2>1. OwnWrites(p, durable) = {} /\ txWrites[f.tx] = UpTo(p, Len(f.rows))
    BY <1>1, <1>3, <1>7, UpToZero DEF CreateRuns, Stored
  <2>2. OwnWrites(p, durable)' = UpTo(p, Len(f.rows))
    BY <1>5, <1>6, <2>1
  <2> QED
    BY <1>7, <2>2
<1>8. CASE ~f.shared
  <2>1. OwnWrites(p, durable) = UpTo(p, f.i - 1) /\ txWrites[f.tx] = {BatchWrite(p, f.i)}
        /\ f.rows # <<>>
    BY <1>1, <1>3, <1>8 DEF CreateRuns, Stored
  <2>2. f.i - 1 \in Nat /\ (f.i - 1) + 1 = f.i
    BY <1>3, <2>1
  <2>3. UpTo(p, f.i) = UpTo(p, f.i - 1) \cup {BatchWrite(p, f.i)}
    BY <2>2, UpToNext
  <2>4. OwnWrites(p, {BatchWrite(p, f.i)}) = {BatchWrite(p, f.i)}
    BY DEF OwnWrites, BatchWrite
  <2> QED
    BY <1>5, <1>8, <2>1, <2>3, <2>4
<1> QED
  BY <1>7, <1>8

LEMMA CreateCommitOK ==
  ASSUME BInv, NEW p \in Proc, depth[p] = 1, calls[p] > 0, CreateCommit(p)
  PROVE  CreateOK(p)'
<1> DEFINE f == frame[p][1]
           g == frame'[p][1]
           n == Len(f.rows)
<1>1. At(p, "commit") /\ Top(p).pc = "commit" /\ CommitTx(Top(p).tx) /\ \E id \in BOOLEAN : AfterCommit(p, id)
  BY DEF CreateCommit, At
<1>2. Top(p).op = "create"
  BY <1>1 DEF BInv, IInv, FramesOK, FrameOK, Top, Depth
<1>3. /\ Top(p) = f /\ CreateRuns(p, f) /\ f \in Frame /\ depth[p] \in Depth /\ n \in Nat
      /\ f.rows = <<>> => f.i = 1
      /\ f.rows # <<>> => f.i \in 1 .. n
  BY <1>2, AtCreate
<1>4. calls' = calls
  BY <1>1 DEF AfterCommit, ReturnOk, Stay
<1>5. /\ OwnWrites(p, durable)' = UpTo(p, IF f.shared THEN n ELSE f.i)
      /\ ~f.shared => f.rows # <<>>
  BY <1>1, <1>2, <1>4, CommitStores
<1>6. PICK id \in BOOLEAN : AfterCommit(p, id)
  BY <1>1
<1>7. CASE ~f.shared /\ frame' = Goto(p, "spin") /\ Stay
  <2>1. frame' = SetTop(p, [f EXCEPT !.pc = "spin"])
    BY <1>3, <1>7 DEF Goto
  <2>2. g = [f EXCEPT !.pc = "spin"]
    BY <1>3, <2>1, SetTopLemma DEF BInv, IInv, Depth
  <2>3. g.pc = "spin" /\ g.op = f.op /\ g.rows = f.rows /\ g.shared = f.shared /\ g.i = f.i
    BY <1>3, <2>2 DEF Frame
  <2>4. Stored(p, f.i)'
    BY <1>4, <1>5, <1>7, <2>3, BatchesSame DEF Stored
  <2>5. CreateRuns(p, f)'
    BY SMTT(60), <1>5, <1>7, <2>3, <2>4 DEF CreateRuns
  <2> QED
    BY <1>3, <1>5, <1>7, <2>3, <2>5 DEF CreateOK, Stay
<1>8. CASE /\ ~f.shared /\ f.i < n /\ Stay
           /\ frame' = SetTop(p, [f EXCEPT !.i = @ + 1, !.pc = "begin"])
  <2>1. g = [f EXCEPT !.i = @ + 1, !.pc = "begin"]
    BY <1>3, <1>8, SetTopLemma DEF BInv, IInv, Depth
  <2>2. g.pc = "begin" /\ g.op = f.op /\ g.rows = f.rows /\ g.shared = f.shared /\ g.i - 1 = f.i
    <3>1. g.pc = "begin" /\ g.op = f.op /\ g.rows = f.rows /\ g.shared = f.shared
          /\ g.i = f.i + 1
      BY <1>3, <2>1 DEF Frame
    <3>2. f.i \in Nat
      BY <1>3 DEF Frame
    <3> QED
      BY <3>1, <3>2
  <2>3. OwnWrites(p, durable)' = UpTo(p, g.i - 1)
    BY <1>5, <1>8, <2>2
  <2>4. \A j : UpTo(p, j)' = UpTo(p, j)
    <3>1. calls'[p] = calls[p] /\ frame'[p][1].rows = frame[p][1].rows
      BY <1>4, <2>2
    <3> QED
      BY <3>1, BatchesSame
  <2>5. Stored(p, f.i - 1)'
    BY SMTT(60), <2>3, <2>4 DEF Stored
  <2>6. ~g.shared /\ g.pc = "begin" /\ Stored(p, f.i - 1)'
    BY <1>8, <2>2, <2>5
  <2>7. CreateRuns(p, f)'
    BY <2>6 DEF CreateRuns
  <2> QED
    BY <1>3, <1>5, <1>8, <2>2, <2>7 DEF CreateOK, Stay
<1>9. CASE ~(~f.shared /\ f.i < n) /\ frame' = frame /\ ReturnOk(p)
  <2>1. depth'[p] = 0 /\ ret'[p] = "ok"
    BY <1>3, <1>9 DEF ReturnOk, BInv, IInv, TypeOK
  <2>2. \A j : UpTo(p, j)' = UpTo(p, j)
    BY <1>4, <1>9, BatchesSame
  <2>3. Stored(p, IF f.shared THEN n ELSE f.i)'
    BY <1>5, <1>9, <2>2 DEF Stored
  <2>4. ~f.shared => f.i = n /\ f.rows # <<>>
    BY <1>3, <1>5, <1>9
  <2>5. CreateOver(p, f)'
    BY <1>9, <2>1, <2>3, <2>4 DEF CreateOver
  <2> QED
    BY <1>3, <1>9, <2>1, <2>5 DEF CreateOK
<1> QED
  BY <1>3, <1>6, <1>7, <1>8, <1>9 DEF AfterCommit

LEMMA CreateCommitErrOK ==
  ASSUME BInv, NEW p \in Proc, depth[p] = 1, calls[p] > 0, CreateCommitErr(p)
  PROVE  CreateOK(p)'
<1> DEFINE f == frame[p][1]
           n == Len(f.rows)
<1>1. /\ At(p, "commit") /\ Top(p).pc = "commit" /\ ReturnErr(p, "err") /\ frame' = frame
      /\ CommitTx(Top(p).tx) \/ RollbackTx(Top(p).tx)
  BY DEF CreateCommitErr, At
<1>2. Top(p).op = "create"
  BY <1>1 DEF BInv, IInv, FramesOK, FrameOK, Top, Depth
<1>3. CASE RollbackTx(Top(p).tx)
  BY <1>1, <1>3, CreateFailsOK DEF RollbackTx
<1>4. CASE CommitTx(Top(p).tx)
  <2>1. calls' = calls /\ depth'[p] = 0 /\ ret'[p] = "err"
    BY <1>1 DEF ReturnErr, BInv, IInv, TypeOK
  <2>2. f.rows = <<>> => f.i = 1
    BY <1>2, AtCreate
  <2>3. /\ OwnWrites(p, durable)' = UpTo(p, IF f.shared THEN n ELSE f.i)
        /\ ~f.shared => f.rows # <<>>
    BY <1>1, <1>4, <2>1, CommitStores
  <2>4. \A j : UpTo(p, j)' = UpTo(p, j)
    BY <1>1, <2>1, BatchesSame
  <2>5. Stored(p, IF f.shared THEN n ELSE f.i)'
    BY <1>1, <2>3, <2>4 DEF Stored
  <2>6. CreateOver(p, f)'
    BY <1>1, <2>1, <2>3, <2>5 DEF CreateOver
  <2> QED
    BY <1>1, <2>1, <2>2, <2>6 DEF CreateOK
<1> QED
  BY <1>1, <1>3, <1>4

\* The step from the relations of the document to the commit.
LEMMA RelatesDoneOK ==
  ASSUME BInv, NEW p \in Proc, depth[p] = 1, calls[p] > 0, RelatesDone(p), Top(p).op = "create"
  PROVE  CreateOK(p)'
<1> DEFINE f == frame[p][1]
           g == frame'[p][1]
<1>1. /\ Top(p) = f /\ CreateRuns(p, f) /\ f \in Frame /\ depth[p] \in Depth
      /\ f.rows = <<>> => f.i = 1
  BY AtCreate
<1>2. /\ Top(p).pc = "relates" /\ UNCHANGED <<durable, txWrites, calls, depth, ret>>
      /\ frame' = SetTop(p, [f EXCEPT !.pc = "commit"])
  BY <1>1 DEF RelatesDone, At, Goto, Stay, dbVars
<1>3. g = [f EXCEPT !.pc = "commit"]
  BY <1>1, <1>2, SetTopLemma DEF BInv, IInv, Depth
<1>4. /\ g.pc = "commit" /\ g.op = f.op /\ g.rows = f.rows /\ g.shared = f.shared
      /\ g.i = f.i /\ g.tx = f.tx
  BY <1>1, <1>3 DEF Frame
<1>5. \A j : BatchWrite(p, j)' = BatchWrite(p, j) /\ UpTo(p, j)' = UpTo(p, j)
  BY <1>2, <1>4, BatchesSame
<1>6. \A j : Stored(p, j)' <=> Stored(p, j)
  BY <1>2, <1>5 DEF Stored, OwnWrites
<1>7. CreateRuns(p, f)'
  <2>1. f.pc = "relates" /\ f.i \in Nat
    BY <1>1, <1>2 DEF Frame
  <2>2. txWrites[f.tx] = IF f.shared THEN UpTo(p, Len(f.rows)) ELSE {BatchWrite(p, f.i)}
    BY <1>1, <2>1 DEF CreateRuns
  <2>3. txWrites'[g.tx] = txWrites[f.tx] /\ g.shared = f.shared
    BY <1>2, <1>4
  <2>4. UpTo(p, Len(f.rows))' = UpTo(p, Len(f.rows)) /\ BatchWrite(p, f.i)' = BatchWrite(p, f.i)
    <3>1. f' = g /\ g.rows = f.rows /\ g.i = f.i
      BY <1>4
    <3> QED
      BY <1>5, <3>1
  <2>5. txWrites'[g.tx] = IF g.shared THEN UpTo(p, Len(f.rows))' ELSE {BatchWrite(p, f.i)'}
    BY <2>2, <2>3, <2>4
  <2>6. Stored(p, IF f.shared THEN 0 ELSE f.i - 1)'
    BY <1>1, <1>4, <1>6, <2>1 DEF CreateRuns
  <2>7. ~g.shared => g.rows # <<>>
    BY <1>1, <1>4, <2>1 DEF CreateRuns
  <2> QED
    BY <1>4, <2>5, <2>6, <2>7 DEF CreateRuns
<1> QED
  BY <1>1, <1>2, <1>4, <1>7 DEF CreateOK

LEMMA RelatesStmtOK ==
  ASSUME BInv, NEW p \in Proc, RelatesStmt(p)
  PROVE  CreateOK(p)'
<1>1. depth[p] = 1 /\ depth[p] \in Depth /\ depth' = [depth EXCEPT ![p] = 2]
      /\ UNCHANGED <<dbVars, calls, ret>>
      /\ frame'[p][1] = [frame[p][1] EXCEPT !.k = @ + 1]
  BY DEF RelatesStmt, Depth, Top, BInv, IInv, TypeOK
<1>2. frame[p][1] \in Frame
  BY DEF BInv, IInv, TypeOK, Depth
<1>3. SameFrame(p)
  BY <1>1, <1>2 DEF SameFrame, Frame
<1>4. SameCall(p) /\ Quiet(p)
  BY <1>1 DEF SameCall, Quiet, dbVars, BInv, IInv, TypeOK
<1> QED
  BY <1>3, <1>4, Undisturbed DEF BInv, IInv

----------------------------------------------------------------------------
\* Transactions that ended

LEMMA EndedStays ==
  ASSUME IInv, [Next]_vars, NEW t \in Handle, Ended(t) PROVE txState'[t] = txState[t]
<1>1. \A owner : Begin(owner) => txState'[t] = txState[t]
  <2> SUFFICES ASSUME NEW owner, Begin(owner) PROVE txState'[t] = txState[t]
    OBVIOUS
  <2>1. nextTx \in Handle /\ txState' = [txState EXCEPT ![nextTx] = "open"]
    BY DEF Begin
  <2>2. txState[nextTx] = "unused"
    BY <2>1, FreshHandle DEF IInv, HandlesOK
  <2> QED
    BY <2>1, <2>2 DEF Ended, IInv, TypeOK
<1>2. \A u : CommitTx(u) \/ RollbackTx(u) => txState'[t] = txState[t]
  BY DEF CommitTx, RollbackTx, OpenTx, Ended, IInv, TypeOK
<1>3. CASE ClientStep
  BY <1>1, <1>2, <1>3 DEF ClientStep, ClientBegin, ClientEnd, BindModel, dbVars
<1>4. ASSUME NEW p \in Proc, StartCall(p) PROVE txState' = txState
  BY <1>4 DEF StartCall, StartCreate, StartUpdate, StartDelete, Start, dbVars
<1>5. ASSUME NEW p \in Proc, Step(p) PROVE txState'[t] = txState[t]
  BY <1>1, <1>2, <1>5
     DEF Step, CreateStep, UpdateStep, DeleteStep, RelatesStep, CreateNothing, CreateBegin,
         CreateBeginErr, InsertPanics, InsertBatch, InsertErr, CreateCommit, CreateCommitErr, UpdateMapPanic,
         EnsureCheck, EnsureBegin, EnsureErr, UpdateExec, UpdateErr, DeleteRow, DeleteErr,
         RelatesDone, RelatesErr, RelatesPanic, RelatesStmt, ExecIn, ExecAuto, dbVars
<1> QED
  BY <1>3, <1>4, <1>5 DEF Next, vars

\* A place whose local variables a step leaves alone stays closed.
LEMMA ClosedStays ==
  ASSUME BInv, [Next]_vars, NEW q \in Proc,
         frame'[q][1].pc = "begin" => /\ frame[q][1].pc = "begin"
                                      /\ frame'[q][1].tx = frame[q][1].tx
  PROVE  frame'[q][1].pc = "begin" /\ frame'[q][1].tx # NoTx => Ended(frame[q][1].tx)'
<1>1. SUFFICES ASSUME frame'[q][1].pc = "begin", frame'[q][1].tx # NoTx
               PROVE  Ended(frame[q][1].tx)'
  OBVIOUS
<1>2. frame[q][1].pc = "begin" /\ frame'[q][1].tx = frame[q][1].tx
  BY <1>1
<1>3. Ended(frame[q][1].tx)
  BY <1>1, <1>2 DEF BInv, ClosedOK
<1>4. frame[q][1].tx \in 0 .. MaxTx
  BY SMTT(60) DEF BInv, IInv, TypeOK, Depth, Frame
<1>5. frame[q][1].tx \in Handle
  BY <1>1, <1>2, <1>4 DEF Handle, NoTx
<1> QED
  BY <1>2, <1>3, <1>5, EndedStays DEF Ended, BInv

LEMMA StepClosed == ASSUME BInv, NEW p \in Proc, Step(p) PROVE ClosedOK'
<1> SUFFICES ASSUME NEW q \in Proc
             PROVE  frame'[q][1].pc = "begin" /\ frame'[q][1].tx # NoTx => Ended(frame[q][1].tx)'
  BY DEF ClosedOK
<1>1. [Next]_vars
  BY DEF Next
<1>2. CASE frame'[q][1] = frame[q][1]
  BY <1>1, <1>2, ClosedStays
<1>3. CASE frame'[q][1] # frame[q][1]
  <2>1. q = p /\ depth[p] = 1
    BY <1>3, StepForms, StepLocal DEF BInv, Depth
  <2>2. CASE RelatesStmt(p)
    <3>1. frame'[p][1] = [frame[p][1] EXCEPT !.k = @ + 1] /\ frame[p][1] \in Frame
      BY <2>2 DEF RelatesStmt, Top, BInv, IInv, TypeOK, Depth
    <3>2. frame'[p][1].pc = frame[p][1].pc /\ frame'[p][1].tx = frame[p][1].tx
      BY <3>1 DEF Frame
    <3> QED
      BY <1>1, <2>1, <3>2, ClosedStays
  <2>3. CASE Stay /\ \E g : Later(Top(p), g) /\ frame' = SetTop(p, g)
    <3>1. PICK g : Later(Top(p), g) /\ frame' = SetTop(p, g)
      BY <2>3
    <3>2. frame'[p][1] = g
      BY <2>1, <3>1, SetTopLemma DEF BInv, IInv, Depth
    <3>3. CASE g.pc = "begin"
      <4>1. Top(p).pc = "commit" /\ g.tx = Top(p).tx
        BY <3>1, <3>3 DEF Later
      <4>2. CreateCommit(p)
        <5>1. ~CreateCommitErr(p)
          BY <2>1, <2>3 DEF CreateCommitErr, ReturnErr, Stay, BInv, IInv, TypeOK
        <5> QED
          BY <4>1, <5>1 DEF Step, CreateStep, UpdateStep, DeleteStep, RelatesStep, CreateNothing,
             CreateBegin, CreateBeginErr, InsertPanics, InsertBatch, InsertErr, UpdateMapPanic, EnsureCheck,
             EnsureBegin, EnsureErr, UpdateExec, UpdateErr, DeleteRow, DeleteErr, RelatesDone,
             RelatesErr, RelatesPanic, RelatesStmt, At
      <4>3. txState'[g.tx] = "committed"
        BY <4>1, <4>2 DEF CreateCommit, CommitTx, OpenTx, BInv, IInv, TypeOK
      <4> QED
        BY <2>1, <3>2, <4>3 DEF Ended
    <3>4. CASE g.pc # "begin"
      BY <2>1, <3>2, <3>4
    <3> QED
      BY <3>3, <3>4
  <2> QED
    BY <1>3, <2>1, <2>2, <2>3, StepForms DEF BInv
<1> QED
  BY <1>2, <1>3

----------------------------------------------------------------------------
\* The invariant

LEMMA StepCreates ==
  ASSUME BInv, NEW p \in Proc, Step(p) PROVE CreateOK(p)'
<1>1. depth[p] \in Depth /\ calls' = calls /\ p \in Proc
  BY StepForms DEF BInv
<1>2. CASE depth[p] = 2
  <2>1. SameFrame(p) /\ Quiet(p)
    BY <1>2, StepLocal, StepQuiet DEF BInv, SameFrame
  <2> QED
    BY <1>1, <1>2, <2>1, StepLocal, Undisturbed, GivesUp DEF BInv, IInv
<1>3. CASE depth[p] = 1 /\ (calls[p] = 0 \/ Top(p).op # "create")
  <2>1. CASE calls[p] = 0
    BY <1>1, <2>1 DEF CreateOK, Creates
  <2>2. CASE RelatesStmt(p)
    BY <2>2, RelatesStmtOK
  <2>3. CASE Top(p).op # "create" /\ ~RelatesStmt(p)
    <3>1. frame' = frame \/ \E g : Later(Top(p), g) /\ frame' = SetTop(p, g)
      BY <2>3, StepForms DEF BInv
    <3>2. frame'[p][1].op = Top(p).op
      <4>1. CASE frame' = frame
        BY <1>3, <4>1 DEF Top
      <4>2. ASSUME NEW g, Later(Top(p), g), frame' = SetTop(p, g) PROVE frame'[p][1].op = Top(p).op
        BY <1>1, <1>3, <4>2, SetTopLemma DEF BInv, IInv, Later
      <4> QED
        BY <3>1, <4>1, <4>2
    <3> QED
      BY <2>3, <3>2 DEF CreateOK, Creates
  <2> QED
    BY <1>3, <2>1, <2>2, <2>3
<1>4. CASE depth[p] = 1 /\ calls[p] > 0 /\ Top(p).op = "create"
  <2>1. CASE CreateNothing(p) \/ CreateBegin(p) \/ InsertBatch(p) \/ CreateCommit(p)
    BY <1>4, <2>1, CreateNothingOK, CreateBeginOK, InsertBatchOK, CreateCommitOK
  <2>2. CASE CreateBeginErr(p) \/ InsertErr(p) \/ InsertPanics(p) \/ RelatesErr(p) \/ RelatesPanic(p)
    BY <1>4, <2>2, CreateFailsOK
       DEF CreateBeginErr, InsertPanics, InsertErr, RelatesErr, RelatesPanic, At, RollbackTx, dbVars
  <2>3. CASE CreateCommitErr(p) \/ RelatesDone(p) \/ RelatesStmt(p)
    BY <1>4, <2>3, CreateCommitErrOK, RelatesDoneOK, RelatesStmtOK
  <2>4. ~UpdateStep(p) /\ ~DeleteStep(p)
    BY <1>1, <1>4 DEF UpdateStep, DeleteStep, UpdateMapPanic, EnsureCheck, EnsureBegin, EnsureErr,
       UpdateExec, UpdateErr, DeleteRow, DeleteErr, At, Top, BInv, IInv, FramesOK, FrameOK
  <2> QED
    BY <2>1, <2>2, <2>3, <2>4 DEF Step, CreateStep, RelatesStep
<1> QED
  <2>1. calls[p] \in Nat
    BY DEF BInv, IInv, TypeOK
  <2> QED
    BY <1>1, <1>2, <1>3, <1>4, <2>1 DEF Depth

LEMMA StepBInv ==
  ASSUME BInv, NEW p \in Proc, Step(p) PROVE BInv'
<1>1. IInv'
  BY StepKeeps DEF BInv
<1>2. NoFuture' /\ NestingOK'
  BY StepNoFuture, StepNesting DEF BInv
<1>c. ClosedOK'
  BY StepClosed
<1>3. ASSUME NEW q \in Proc, q # p PROVE CreateOK(q)'
  BY <1>3, StepLocal, StepQuiet, Undisturbed DEF BInv, IInv, SameFrame
<1> QED
  BY <1>1, <1>2, <1>c, <1>3, StepCreates DEF BInv

\* A new call: nothing of it is stored yet.
LEMMA StartBInv ==
  ASSUME BInv, NEW p \in Proc, NEW op \in Op, NEW m \in Model, NEW rows \in Seq(Row),
         NEW shared \in BOOLEAN, NEW doc \in DocKind, NEW pc \in Pc,
         Start(p, op, m, rows, shared, doc, pc),
         \/ op = "create" /\ pc = "begin"
         \/ op = "update" /\ pc = "ensure" /\ Len(rows) = 1
         \/ op = "delete" /\ pc = "delete" /\ Len(rows) = 1
  PROVE  NoFuture' /\ NestingOK' /\ ClosedOK' /\ \A q \in Proc : CreateOK(q)'
<1> DEFINE f == NewFrame(op, m, rows, shared, doc, pc)
<1>1. /\ \A q \in Proc : q # p => /\ frame'[q] = frame[q] /\ calls'[q] = calls[q]
                                  /\ depth'[q] = depth[q] /\ ret'[q] = ret[q]
      /\ frame'[p][1] = f /\ depth[p] = 0 /\ depth'[p] = 1
      /\ calls'[p] = calls[p] + 1 /\ calls[p] \in Nat
      /\ UNCHANGED <<durable, txWrites, txState>>
  BY DEF Start, BInv, IInv, TypeOK, Depth, dbVars
<1>2. /\ f.op = op /\ f.rows = rows /\ f.shared = shared /\ f.i = 1 /\ f.pc = pc
      /\ f.tx = NoTx
  BY DEF NewFrame
<1> HIDE DEF f
<1>3. \A q \in Proc : calls[q] \in Nat /\ calls'[q] \in Nat /\ calls[q] <= calls'[q]
  BY <1>1 DEF BInv, IInv, TypeOK
<1>4. NoFuture'
  <2>1. \A w \in Written : w.p \in Proc /\ w.n \in Nat
    BY DEF Written, BInv, IInv, TypeOK, Write
  <2>2. \A w \in Written : w.n <= calls[w.p]
    BY DEF Written, BInv, NoFuture
  <2>3. \A w \in Written : w.n <= calls'[w.p]
    BY <1>3, <2>1, <2>2
  <2> QED
    BY <1>1, <2>3 DEF NoFuture, Written
<1>5. NestingOK'
  BY <1>1, <1>2 DEF BInv, NestingOK
<1>6. ASSUME NEW q \in Proc, q # p PROVE CreateOK(q)'
  <2>1. SameCall(q) /\ SameFrame(q) /\ Quiet(q)
    BY <1>1, <1>6 DEF SameCall, SameFrame, Quiet, BInv, IInv, TypeOK
  <2> QED
    BY <2>1, Undisturbed DEF BInv, IInv
<1>7. CreateOK(p)'
  <2> SUFFICES ASSUME op = "create" PROVE CreateOK(p)'
    BY <1>1, <1>2 DEF CreateOK, Creates
  <2>1. OwnWrites(p, durable)' = {}
    <3>1. \A w \in durable : w.p = p => w.n <= calls[p] /\ w.n \in Nat
      BY DEF BInv, NoFuture, IInv, TypeOK, Write
    <3> QED
      BY <1>1, <3>1 DEF OwnWrites
  <2>2. Stored(p, 0)'
    BY <2>1 DEF Stored, UpTo
  <2>3. CreateRuns(p, frame[p][1])'
    BY <1>1, <1>2, <2>2 DEF CreateRuns
  <2> QED
    BY <1>1, <1>2, <2>3 DEF CreateOK
<1>8. ClosedOK'
  BY <1>1, <1>2 DEF BInv, ClosedOK, Ended
<1> QED
  BY <1>4, <1>5, <1>6, <1>7, <1>8

LEMMA StartCallBInv == ASSUME BInv, NEW p \in Proc, StartCall(p) PROVE BInv'
<1> USE DEF Op, Pc, DocKind
<1>1. Uses[p] \subseteq Model /\ Docs \subseteq DocKind
  BY ModelAssumption
<1>2. CASE StartCreate(p)
  <2>1. \A doc \in Docs : Batches(doc) \subseteq Nat
    BY BoundsAssumption DEF Batches
  <2>2. \A n \in Nat : [1 .. n -> Row] \subseteq Seq(Row)
    OBVIOUS
  <2>3. PICK m \in Uses[p], shared \in BOOLEAN, doc \in Docs, rows \in Seq(Row) :
          Start(p, "create", m, rows, shared, doc, "begin")
    BY <1>2, <2>1, <2>2 DEF StartCreate
  <2> QED
    BY <1>1, <2>3, StartBInv, StartCallKeeps DEF BInv
<1>3. CASE StartUpdate(p)
  <2>1. PICK m \in Uses[p], doc \in Docs, r \in Row :
          Start(p, "update", m, <<r>>, FALSE, doc, "ensure")
    BY <1>3 DEF StartUpdate
  <2>2. <<r>> \in Seq(Row) /\ Len(<<r>>) = 1
    OBVIOUS
  <2> QED
    BY ZenonT(60), <1>1, <2>1, <2>2, StartBInv, StartCallKeeps DEF BInv
<1>4. CASE StartDelete(p)
  <2>1. PICK m \in Uses[p], r \in Row :
          Start(p, "delete", m, <<r>>, FALSE, "list", "delete")
    BY <1>4 DEF StartDelete
  <2>2. <<r>> \in Seq(Row) /\ Len(<<r>>) = 1 /\ "list" \in DocKind /\ FALSE \in BOOLEAN
        /\ "delete" \in Op /\ "delete" \in Pc
    OBVIOUS
  <2> QED
    BY <1>1, <2>1, <2>2, StartBInv, StartCallKeeps DEF BInv
<1> QED
  BY <1>2, <1>3, <1>4 DEF StartCall

\* The user's own steps store updates only.
LEMMA ClientBInv == ASSUME BInv, ClientStep PROVE BInv'
<1>1. UNCHANGED callVars
  BY DEF ClientStep, ClientBegin, ClientEnd, BindModel, callVars
<1>2. txWrites' = txWrites
      /\ \/ durable' = durable
         \/ \E t \in Handle : txOwner[t] = "client" /\ durable' = durable \cup txWrites[t]
  BY DEF ClientStep, ClientBegin, ClientEnd, BindModel, dbVars, Begin, CommitTx, RollbackTx
<1>3. IInv'
  BY ClientBeginKeeps, ClientEndKeeps, BindModelKeeps DEF ClientStep, BInv
<1>4. NoFuture' /\ NestingOK'
  BY <1>1, <1>2 DEF BInv, NoFuture, NestingOK, callVars
<1>c. ClosedOK'
  BY <1>1, ClosedStays DEF ClosedOK, callVars, Next
<1>5. ASSUME NEW q \in Proc PROVE CreateOK(q)'
  <2>1. \A t \in Handle : txOwner[t] = "client" => \A w \in txWrites[t] : w.op = "update"
    BY DEF BInv, IInv, WritesOK
  <2>2. SameCall(q) /\ SameFrame(q) /\ Quiet(q)
    BY <1>1, <1>2, <2>1 DEF SameCall, SameFrame, Quiet, callVars, BInv, IInv, TypeOK
  <2> QED
    BY <2>2, Undisturbed DEF BInv, IInv
<1> QED
  BY <1>3, <1>4, <1>c, <1>5 DEF BInv

LEMMA InitBInv == Init => BInv
<1> SUFFICES ASSUME Init PROVE BInv
  OBVIOUS
<1>1. NoFuture
  BY DEF Init, NoFuture
<1>2. NestingOK /\ ClosedOK /\ \A p \in Proc : CreateOK(p)
  BY DEF Init, NestingOK, ClosedOK, CreateOK, Creates, NoFrame, NewFrame, Depth
<1> QED
  BY <1>1, <1>2, InitIInv DEF BInv

LEMMA NextBInv == BInv /\ [Next]_vars => BInv'
<1> SUFFICES ASSUME BInv, [Next]_vars PROVE BInv'
  OBVIOUS
<1>1. CASE UNCHANGED vars
  <2>1. IInv'
    BY <1>1, NextKeeps DEF BInv
  <2>2. NoFuture' /\ NestingOK' /\ ClosedOK'
    BY <1>1 DEF BInv, NoFuture, NestingOK, ClosedOK, Ended, vars
  <2>3. ASSUME NEW q \in Proc PROVE CreateOK(q)'
    <3>1. SameCall(q) /\ SameFrame(q) /\ Quiet(q)
      BY <1>1 DEF SameCall, SameFrame, Quiet, vars, BInv, IInv, TypeOK
    <3> QED
      BY <3>1, Undisturbed DEF BInv, IInv
  <2> QED
    BY <2>1, <2>2, <2>3 DEF BInv
<1>2. ASSUME NEW p \in Proc, StartCall(p) \/ Step(p) PROVE BInv'
  BY <1>2, StartCallBInv, StepBInv
<1> QED
  BY <1>1, <1>2, ClientBInv DEF Next

----------------------------------------------------------------------------
\* Theorems

\* Where every batch of a Create is, while it runs and after it ended, holds in
\* every reachable state.
THEOREM BatchInvariance == Spec => []BInv
BY InitBInv, NextBInv, PTL DEF Spec

\* The batches that are stored, by number.
LEMMA StoredNumbers ==
  ASSUME NEW p, NEW j, Stored(p, j) PROVE StoredBatches(p) = 1 .. j
<1>1. StoredBatches(p) = {w.i : w \in UpTo(p, j)}
  BY DEF Stored, StoredBatches
<1>2. \A i : BatchWrite(p, i).i = i
  BY DEF BatchWrite
<1> QED
  BY <1>1, <1>2 DEF UpTo

LEMMA CreateFrame ==
  ASSUME BInv, NEW p \in Proc, Creates(p)
  PROVE  LET f == frame[p][1]
         IN  /\ f.rows = <<>> => f.i = 1
             /\ f.rows # <<>> => f.i \in 1 .. Len(f.rows)
             /\ DOMAIN f.rows = 1 .. Len(f.rows) /\ Len(f.rows) \in Nat
             /\ f.rows = <<>> <=> Len(f.rows) = 0
             /\ depth[p] = 0 => CreateOver(p, f)
             /\ depth[p] # 0 => CreateRuns(p, f)
<1>1. frame[p][1] \in Frame /\ FrameOK(p, frame[p][1]) /\ CreateOK(p)
  BY DEF BInv, IInv, TypeOK, FramesOK, Depth
<1> QED
  BY <1>1 DEF FrameOK, Frame, CreateOK

\* A Create with SharedTx stores all of its batches or none.
THEOREM SharedIsAtomic == Spec => []SharedAllOrNothing
<1>1. ASSUME BInv PROVE SharedAllOrNothing
  <2> SUFFICES ASSUME NEW p \in Proc, Creates(p), frame[p][1].shared
               PROVE  StoredBatches(p) \in {{}, DOMAIN frame[p][1].rows}
    BY DEF SharedAllOrNothing
  <2>1. Stored(p, 0) \/ Stored(p, Len(frame[p][1].rows))
    BY <1>1, CreateFrame DEF CreateOver, CreateRuns
  <2>2. 1 .. 0 = {}
    OBVIOUS
  <2> QED
    BY <1>1, <2>1, <2>2, StoredNumbers, CreateFrame
<1> QED
  BY <1>1, BatchInvariance, PTL

\* A Create without SharedTx stores its batches in order.
THEOREM UnsharedIsPrefix == Spec => []BatchesInOrder
<1>1. ASSUME BInv PROVE BatchesInOrder
  <2> SUFFICES ASSUME NEW p \in Proc, Creates(p), ~frame[p][1].shared
               PROVE  \E j \in {frame[p][1].i - 1, frame[p][1].i} :
                        StoredBatches(p) = 1 .. j \cap DOMAIN frame[p][1].rows
    BY DEF BatchesInOrder
  <2> DEFINE f == frame[p][1]
  <2>1. Stored(p, f.i - 1) \/ (Stored(p, f.i) /\ f.rows # <<>>)
    BY <1>1, CreateFrame DEF CreateOver, CreateRuns
  <2>2. /\ DOMAIN f.rows = 1 .. Len(f.rows) /\ Len(f.rows) \in Nat
        /\ f.rows = <<>> => f.i = 1
        /\ f.rows # <<>> => f.i \in 1 .. Len(f.rows)
    BY <1>1, CreateFrame
  <2>3. CASE Stored(p, f.i - 1)
    <3>1. 1 .. f.i - 1 = 1 .. f.i - 1 \cap DOMAIN f.rows
      BY <2>2
    <3> QED
      BY <2>3, <3>1, StoredNumbers
  <2>4. CASE Stored(p, f.i) /\ f.rows # <<>>
    <3>1. 1 .. f.i = 1 .. f.i \cap DOMAIN f.rows
      BY <2>2, <2>4
    <3> QED
      BY <2>4, <3>1, StoredNumbers
  <2> QED
    BY <2>1, <2>3, <2>4
<1> QED
  BY <1>1, BatchInvariance, PTL

\* A Create that returned nil has stored every row it was given, and one that
\* panicked in the relations of its document has not stored the batch at hand.
THEOREM NilMeansStored == Spec => []CreateReturnsTruth
<1>1. ASSUME BInv PROVE CreateReturnsTruth
  <2> SUFFICES ASSUME NEW p \in Proc, Creates(p), depth[p] = 0
               PROVE  /\ ret[p] = "ok" => StoredBatches(p) = DOMAIN frame[p][1].rows
                      /\ ret[p] = "panic" => frame[p][1].i \notin StoredBatches(p)
    BY DEF CreateReturnsTruth
  <2> DEFINE f == frame[p][1]
             n == Len(f.rows)
  <2>1. CreateOver(p, f)
    BY <1>1, CreateFrame
  <2>2. ASSUME ret[p] = "ok" PROVE StoredBatches(p) = DOMAIN f.rows
    <3>1. Stored(p, n) \/ (Stored(p, f.i - 1) /\ f.rows = <<>>) \/ (Stored(p, f.i) /\ f.i = n)
      BY <2>1, <2>2 DEF CreateOver
    <3>2. f.rows = <<>> => f.i - 1 = n
      BY <1>1, CreateFrame
    <3> QED
      BY <1>1, <3>1, <3>2, StoredNumbers, CreateFrame
  <2>3. ASSUME ret[p] = "panic" PROVE f.i \notin StoredBatches(p)
    <3>1. Stored(p, 0) \/ Stored(p, f.i - 1)
      BY <2>1, <2>3 DEF CreateOver
    <3>2. f.i \in Nat
      BY <1>1, CreateFrame
    <3>3. f.i \notin 1 .. 0 /\ f.i \notin 1 .. f.i - 1
      BY <3>2
    <3> QED
      BY <3>1, <3>3, StoredNumbers
  <2> QED
    BY <2>2, <2>3
<1> QED
  BY <1>1, BatchInvariance, PTL

----------------------------------------------------------------------------
\* What a step may never do

\* A Delete takes effect only when no open transaction has written its row.
THEOREM DeleteWaits == Spec => DeleteNeedsUnlockedRow
<1> DEFINE A == \A w \in durable' \ durable : w.op = "delete" =>
                  \A t \in Handle : ~Holds(t, w.row)
<1>1. ASSUME IInv, [Next]_vars PROVE A
  <2> SUFFICES ASSUME NEW w \in durable' \ durable, w.op = "delete", NEW t \in Handle
               PROVE  ~Holds(t, w.row)
    OBVIOUS
  <2>1. \A u \in Handle : w \notin txWrites[u]
    BY <1>1 DEF IInv, WritesOK
  <2>2. ~ClientStep
    BY <1>1, <2>1 DEF ClientStep, ClientBegin, ClientEnd, BindModel, Begin, CommitTx, RollbackTx,
                      OpenTx, dbVars
  <2>3. \A p \in Proc : ~StartCall(p)
    BY ZenonT(60) DEF StartCall, StartCreate, StartUpdate, StartDelete, Start, dbVars
  <2>4. PICK p \in Proc : Step(p)
    BY <1>1, <2>2, <2>3 DEF Next, vars
  <2>5. DeleteRow(p)
    BY <2>1, <2>4 DEF Step, CreateStep, UpdateStep, DeleteStep, RelatesStep, CreateNothing,
       CreateBegin, CreateBeginErr, InsertPanics, InsertBatch, InsertErr, CreateCommit, CreateCommitErr,
       UpdateMapPanic, EnsureCheck, EnsureBegin, EnsureErr, UpdateExec, UpdateErr, DeleteErr,
       RelatesDone, RelatesErr, RelatesPanic, RelatesStmt, Begin, ExecIn, CommitTx, RollbackTx,
       OpenTx, dbVars
  <2>6. ~Locked(NoTx, w.row)
    BY <2>5 DEF DeleteRow, ExecAuto
  <2>7. t # NoTx
    BY DEF Handle, NoTx
  <2> QED
    BY <2>6, <2>7 DEF Locked
<1>2. [][A]_vars => DeleteNeedsUnlockedRow
  BY PTL DEF DeleteNeedsUnlockedRow
<1>3. IInv /\ [Next]_vars => [A]_vars
  BY <1>1
<1> QED
  BY <1>2, <1>3, Invariance, PTL DEF Spec

\* A caller's Create that ends leaves its transaction open only when the relations
\* of its document failed, or its first insert panicked and wrote nothing.
THEOREM LeavesOpen == Spec => LeftOpenByRelationsOrPanic
<1> DEFINE A == \A p \in Proc :
                  (depth[p] > 0 /\ depth'[p] = 0 /\ frame[p][1].op = "create"
                     /\ frame[p][1].tx \in Handle /\ txState'[frame[p][1].tx] = "open")
                    => \/ frame[p][1].pc = "relates"
                       \/ frame[p][1].pc = "insert" /\ ret'[p] = "panic"
                            /\ txWrites'[frame[p][1].tx] = {}
<1>1. ASSUME BInv, [Next]_vars PROVE A
  <2> SUFFICES ASSUME NEW p \in Proc, depth[p] > 0, depth'[p] = 0, frame[p][1].op = "create",
                      frame[p][1].tx \in Handle, txState'[frame[p][1].tx] = "open",
                      frame[p][1].pc # "relates"
               PROVE  frame[p][1].pc = "insert" /\ ret'[p] = "panic"
                        /\ txWrites'[frame[p][1].tx] = {}
    OBVIOUS
  <2> DEFINE f == frame[p][1]
  <2>1. depth[p] = 1 /\ f \in Frame /\ Top(p) = f
    BY <1>1 DEF BInv, NestingOK, IInv, TypeOK, Depth, Top
  <2>2. f.pc # "begin"
    <3>1. ~Ended(f.tx)
      BY <1>1, EndedStays DEF Ended, BInv
    <3>2. f.tx # NoTx
      BY DEF Handle, NoTx
    <3> QED
      BY <1>1, <3>1, <3>2 DEF BInv, ClosedOK
  <2>3. Step(p)
    <3>1. ~ClientStep
      BY DEF ClientStep, ClientBegin, ClientEnd, BindModel, callVars
    <3>2. ASSUME NEW q \in Proc, q # p, Step(q) PROVE FALSE
      BY <1>1, <3>2, StepLocal DEF BInv
    <3>3. ASSUME NEW q \in Proc, StartCall(q) PROVE FALSE
      <4>1. depth[q] = 0 /\ depth' = [depth EXCEPT ![q] = 1]
        BY <3>3 DEF StartCall, StartCreate, StartUpdate, StartDelete, Start
      <4> QED
        BY <1>1, <4>1 DEF BInv, IInv, TypeOK
    <3> QED
      BY <1>1, <3>1, <3>2, <3>3 DEF Next, vars
  <2>4. InsertPanics(p) \/ InsertErr(p) \/ CreateCommit(p) \/ CreateCommitErr(p)
    <3>1. FrameOK(p, f)
      BY <1>1 DEF BInv, IInv, FramesOK, Depth
    <3>2. f.pc \in {"insert", "commit"}
      <4>1. ~UpdateStep(p) /\ ~DeleteStep(p)
        BY <2>1, <3>1 DEF UpdateStep, DeleteStep, UpdateMapPanic, EnsureCheck, EnsureBegin,
           EnsureErr, UpdateExec, UpdateErr, DeleteRow, DeleteErr, At, FrameOK
      <4> QED
        BY <2>1, <2>2, <2>3, <4>1 DEF Step, CreateStep, RelatesStep, CreateNothing, CreateBegin,
           CreateBeginErr, InsertPanics, InsertBatch, InsertErr, CreateCommit, CreateCommitErr, RelatesDone,
           RelatesErr, RelatesPanic, RelatesStmt, At
    <3>3. ~InsertBatch(p)
      BY DEF InsertBatch, Stay
    <3> QED
      BY <2>1, <2>3, <3>2, <3>3 DEF Step, CreateStep, UpdateStep, DeleteStep, RelatesStep,
         CreateNothing, CreateBegin, CreateBeginErr, UpdateMapPanic, EnsureCheck, EnsureBegin,
         EnsureErr, UpdateExec, UpdateErr, DeleteRow, DeleteErr, RelatesDone, RelatesErr,
         RelatesPanic, RelatesStmt, At
  <2>5. CASE InsertErr(p) \/ CreateCommit(p) \/ CreateCommitErr(p)
    <3>1. CommitTx(f.tx) \/ RollbackTx(f.tx)
      BY <2>1, <2>5 DEF InsertErr, CreateCommit, CreateCommitErr
    <3>2. txState'[f.tx] # "open"
      BY <1>1, <3>1 DEF CommitTx, RollbackTx, BInv, IInv, TypeOK
    <3> QED
      BY <3>2
  <2>6. CASE InsertPanics(p)
    <3>1. f.pc = "insert" /\ f.i = 1 /\ ret' = [ret EXCEPT ![p] = "panic"] /\ txWrites' = txWrites
      BY <2>1, <2>6 DEF InsertPanics, At, ReturnErr, dbVars
    <3>2. ret'[p] = "panic"
      BY <1>1, <3>1 DEF BInv, IInv, TypeOK
    <3>3. txWrites[f.tx] = UpTo(p, 0)
      <4>1. calls[p] > 0
        BY <1>1, <2>1 DEF BInv, NestingOK
      <4>2. CreateRuns(p, f)
        BY <1>1, <2>1, <4>1 DEF BInv, CreateOK, Creates
      <4> QED
        BY <3>1, <4>2 DEF CreateRuns
    <3>4. UpTo(p, 0) = {}
      BY DEF UpTo
    <3> QED
      BY <3>1, <3>2, <3>3, <3>4
  <2> QED
    BY <2>4, <2>5, <2>6
<1>2. [][A]_vars => LeftOpenByRelationsOrPanic
  BY PTL DEF LeftOpenByRelationsOrPanic
<1>3. BInv /\ [Next]_vars => [A]_vars
  BY <1>1
<1> QED
  BY <1>2, <1>3, BatchInvariance, PTL DEF Spec

----------------------------------------------------------------------------
\* DataModels that one goroutine uses

\* No two goroutines share a DataModel.
OneUser == \A p, q \in Proc : p # q => Uses[p] \cap Uses[q] = {}

\* A call works on the DataModels of its goroutine.
OwnModels ==
  \A p \in Proc :
    /\ depth[p] # 0 => frame[p][1].m \in Uses[p]
    /\ depth[p] = 2 => frame[p][2].m \in {p, frame[p][1].m}

\* Between the check of ensureXtx and its Beginx nobody sets xtx.
CheckHolds == \A p \in Proc : At(p, "ebegin") => xtx[Top(p).m] = NoTx

ReachInv == BInv /\ OwnModels /\ CheckHolds /\ UpdatesStayReachable

LEMMA OwnTop ==
  ASSUME BInv, OwnModels, NEW p \in Proc, depth[p] \in Depth
  PROVE  /\ Top(p).m \in Uses[p] \cup {p} /\ Uses[p] \subseteq Model /\ p \notin Model
         /\ depth[p] = 1 => Top(p).m \in Uses[p]
BY ModelAssumption DEF OwnModels, Top, Depth

\* A new call, and a new related write, work on what their goroutine may use.
LEMMA StepOwn ==
  ASSUME BInv, OwnModels, NEW p \in Proc, Step(p) PROVE OwnModels'
<1> SUFFICES ASSUME NEW q \in Proc
             PROVE  /\ depth'[q] # 0 => frame'[q][1].m \in Uses[q]
                    /\ depth'[q] = 2 => frame'[q][2].m \in {q, frame'[q][1].m}
  BY DEF OwnModels
<1>1. depth[p] \in Depth /\ TypeOK
  BY StepForms DEF BInv, IInv
<1>2. CASE q # p
  BY <1>2, StepLocal DEF BInv, OwnModels
<1>3. CASE q = p /\ frame' = frame /\ (ReturnOk(p) \/ \E r \in {"err", "panic"} : ReturnErr(p, r))
  BY <1>1, <1>3 DEF OwnModels, ReturnOk, ReturnErr, TypeOK, Depth
<1>4. CASE q = p /\ Stay /\ \E g : Later(Top(p), g) /\ frame' = SetTop(p, g)
  <2>1. PICK g : g.m = Top(p).m /\ frame' = SetTop(p, g)
    BY <1>4 DEF Later
  <2>2. \A d \in Depth : frame'[p][d].m = frame[p][d].m
    BY <1>1, <2>1, SetTopLemma DEF Top
  <2> QED
    BY <1>4, <2>2 DEF OwnModels, Stay, Depth
<1>5. CASE q = p /\ RelatesStmt(p)
  <2>1. PICK r \in Row : \E f \in RelatedFrame(p, r) :
          frame' = [frame EXCEPT ![p] = <<[Top(p) EXCEPT !.k = @ + 1], f>>]
    BY <1>5 DEF RelatesStmt
  <2>2. PICK f \in RelatedFrame(p, r) :
          frame' = [frame EXCEPT ![p] = <<[Top(p) EXCEPT !.k = @ + 1], f>>]
    BY <2>1
  <2>3. depth[p] = 1 /\ depth'[p] = 2 /\ Top(p) \in Frame
    BY <1>1, <1>5, TopType DEF RelatesStmt, TypeOK
  <2>4. f.m \in {p, Top(p).m}
    BY DEF RelatedFrame, NewFrame
  <2>5. frame'[p][2] = f /\ frame'[p][1].m = Top(p).m
    BY <1>1, <2>2, <2>3 DEF TypeOK, Frame
  <2> QED
    BY <1>1, <1>5, <2>3, <2>4, <2>5, OwnTop
<1> QED
  BY <1>2, <1>3, <1>4, <1>5, StepForms DEF BInv

LEMMA StepXtx ==
  ASSUME NEW p \in Proc, Step(p)
  PROVE  xtx' = xtx \/ EnsureBegin(p) \/ RelatesStmt(p)
BY DEF Step, CreateStep, UpdateStep, DeleteStep, RelatesStep, CreateNothing, CreateBegin,
       CreateBeginErr, InsertPanics, InsertBatch, InsertErr, CreateCommit, CreateCommitErr, UpdateMapPanic,
       EnsureCheck, EnsureErr, UpdateExec, UpdateErr, DeleteRow, DeleteErr, RelatesDone,
       RelatesErr, RelatesPanic

\* Only the check leads to the Beginx of ensureXtx.
LEMMA ToEnsureBegin ==
  ASSUME BInv, NEW p \in Proc, Step(p), At(p, "ebegin")'
  PROVE  EnsureCheck(p)
<1>1. depth[p] \in Depth /\ TypeOK
  BY StepForms DEF BInv, IInv
<1>2. ~(frame' = frame /\ (ReturnOk(p) \/ \E r \in {"err", "panic"} : ReturnErr(p, r)))
  BY <1>1 DEF ReturnOk, ReturnErr, TypeOK, At, Top, Depth, BInv, NestingOK
<1>3. ~RelatesStmt(p)
  <2> SUFFICES ASSUME RelatesStmt(p) PROVE FALSE
    OBVIOUS
  <2>1. PICK r \in Row : \E f \in RelatedFrame(p, r) :
          frame' = [frame EXCEPT ![p] = <<[Top(p) EXCEPT !.k = @ + 1], f>>]
    BY DEF RelatesStmt
  <2>2. PICK f \in RelatedFrame(p, r) :
          frame' = [frame EXCEPT ![p] = <<[Top(p) EXCEPT !.k = @ + 1], f>>]
    BY <2>1
  <2>3. f.pc \in {"begin", "ensure", "delete"}
    BY DEF RelatedFrame, NewFrame
  <2>4. depth'[p] = 2 /\ frame'[p][2] = f
    BY <1>1, <2>2 DEF RelatesStmt, TypeOK
  <2> QED
    BY <2>3, <2>4 DEF At, Top
<1>4. Stay /\ \E g : Later(Top(p), g) /\ frame' = SetTop(p, g)
  BY <1>2, <1>3, StepForms DEF BInv
<1>5. PICK g : Later(Top(p), g) /\ frame' = SetTop(p, g)
  BY <1>4
<1>6. g.pc = "ebegin"
  BY <1>1, <1>4, <1>5, SetTopLemma DEF At, Top, Stay
<1>7. Top(p).pc = "ensure"
  BY <1>5, <1>6 DEF Later
<1>8. UpdateMapPanic(p) \/ EnsureCheck(p)
  BY <1>7 DEF Step, CreateStep, UpdateStep, DeleteStep, RelatesStep, CreateNothing, CreateBegin,
     CreateBeginErr, InsertPanics, InsertBatch, InsertErr, CreateCommit, CreateCommitErr, EnsureBegin,
     EnsureErr, UpdateExec, UpdateErr, DeleteRow, DeleteErr, RelatesDone, RelatesErr,
     RelatesPanic, RelatesStmt, At
<1> QED
  BY <1>2, <1>8 DEF UpdateMapPanic

\* Another goroutine does not set xtx of a DataModel that p uses.
LEMMA StepCheck ==
  ASSUME OneUser, BInv, OwnModels, CheckHolds, NEW p \in Proc, Step(p) PROVE CheckHolds'
<1> SUFFICES ASSUME NEW q \in Proc, At(q, "ebegin")' PROVE (xtx[Top(q).m] = NoTx)'
  BY DEF CheckHolds
<1>1. depth[p] \in Depth /\ TypeOK
  BY StepForms DEF BInv, IInv
<1>2. CASE q = p
  <2>1. EnsureCheck(p)
    BY <1>2, ToEnsureBegin
  <2> DEFINE pc == IF xtx[Top(p).m] = NoTx THEN "ebegin" ELSE "exec"
             g == [Top(p) EXCEPT !.pc = pc]
  <2>2. frame' = SetTop(p, g) /\ depth' = depth /\ xtx' = xtx
    BY <2>1 DEF EnsureCheck, Goto, Stay
  <2>3. g.pc = pc /\ g.m = Top(p).m
    BY <1>1, TopType DEF Frame
  <2> HIDE DEF g
  <2>4. frame'[p][depth[p]] = g
    BY <1>1, <2>2, SetTopLemma
  <2> QED
    BY <1>2, <2>2, <2>3, <2>4 DEF At, Top
<1>3. CASE q # p
  <2>1. depth'[q] = depth[q] /\ frame'[q] = frame[q]
    BY <1>3, StepLocal DEF BInv
  <2>2. At(q, "ebegin") /\ Top(q)' = Top(q) /\ xtx[Top(q).m] = NoTx
    BY <2>1 DEF At, Top, CheckHolds
  <2>3. Top(q).m \in Uses[q] \cup {q} /\ Uses[q] \subseteq Model /\ q \notin Model
    BY <2>2, OwnTop DEF At
  <2>4. Top(p).m \in Uses[p] \cup {p} /\ Uses[p] \subseteq Model /\ p \notin Model
    BY <1>1, OwnTop
  <2>5. Top(q).m # p /\ Top(q).m # Top(p).m
    BY <1>3, <2>3, <2>4 DEF OneUser
  <2>6. xtx'[Top(q).m] = xtx[Top(q).m]
    BY <1>1, <2>3, <2>5, StepXtx DEF EnsureBegin, RelatesStmt, TypeOK, DM
  <2> QED
    BY <2>2, <2>6
<1> QED
  BY <1>2, <1>3

\* A transaction of ensureXtx gets a caller's write by an Update in it, and no other way.
LEMMA EnsureWrites ==
  ASSUME BInv, NEW p \in Proc, Step(p), NEW t \in OpenTx', txOwner'[t] = "ensure",
         NEW w \in txWrites'[t], w.d = 1
  PROVE  \/ t \in OpenTx /\ txOwner[t] = "ensure" /\ w \in txWrites[t]
         \/ UpdateExec(p) /\ depth[p] = 1 /\ t = xtx[Top(p).m]
<1>1. depth[p] \in Depth /\ TypeOK /\ t \in Handle
  BY StepForms DEF BInv, IInv, OpenTx
<1>2. CASE CreateBegin(p) \/ EnsureBegin(p)
  <2>1. PICK o \in {"create", "ensure"} : Begin(o)
    BY <1>2 DEF CreateBegin, EnsureBegin
  <2>2. nextTx \in Handle /\ txWrites[nextTx] = {}
    BY <2>1 DEF Begin, BInv, IInv, HandlesOK, Handle, TypeOK
  <2>3. t # nextTx
    BY <2>1, <2>2 DEF Begin
  <2> QED
    BY <1>1, <2>1, <2>3 DEF Begin, OpenTx, TypeOK
<1>3. CASE InsertBatch(p)
  <2>1. Top(p).pc = "insert" /\ Top(p).op = "create"
    BY <1>1, <1>3 DEF InsertBatch, At, BInv, IInv, FramesOK, FrameOK, Top
  <2>2. txOwner[Top(p).tx] = "create"
    BY <1>1, <2>1, TopInTx DEF BInv, IInv
  <2>3. /\ txWrites' = [txWrites EXCEPT ![Top(p).tx] = @ \cup {WriteOf(p)}]
        /\ txOwner' = txOwner /\ txState' = txState
    BY <1>3 DEF InsertBatch, ExecIn
  <2> QED
    BY <1>1, <2>2, <2>3 DEF OpenTx, TypeOK
<1>4. CASE UpdateExec(p)
  <2>1. /\ txWrites' = [txWrites EXCEPT ![xtx[Top(p).m]] = @ \cup {WriteOf(p)}]
        /\ txOwner' = txOwner /\ txState' = txState
    BY <1>4 DEF UpdateExec, ExecIn
  <2>2. w \in txWrites[t] \/ (t = xtx[Top(p).m] /\ w = WriteOf(p))
    BY <1>1, <2>1 DEF TypeOK
  <2>3. WriteOf(p).d = depth[p]
    BY DEF WriteOf
  <2> QED
    BY <1>4, <2>1, <2>2, <2>3 DEF OpenTx
<1>5. CASE txWrites' = txWrites /\ txOwner' = txOwner /\ OpenTx' \subseteq OpenTx
  BY <1>5
<1>6. \/ CreateBegin(p) \/ EnsureBegin(p) \/ InsertBatch(p) \/ UpdateExec(p)
      \/ txWrites' = txWrites /\ txOwner' = txOwner /\ OpenTx' \subseteq OpenTx
  <2>1. CASE InsertErr(p) \/ CreateCommit(p) \/ CreateCommitErr(p)
    BY <1>1, <2>1 DEF InsertErr, CreateCommit, CreateCommitErr, CommitTx, RollbackTx, OpenTx, TypeOK
  <2>2. CASE DeleteRow(p)
    BY <2>2 DEF DeleteRow, ExecAuto, OpenTx
  <2>3. CASE UNCHANGED dbVars
    BY <2>3 DEF dbVars, OpenTx
  <2> QED
    BY <2>1, <2>2, <2>3 DEF Step, CreateStep, UpdateStep, DeleteStep, RelatesStep, CreateNothing,
       CreateBeginErr, InsertPanics, UpdateMapPanic, EnsureCheck, EnsureErr, UpdateErr, DeleteErr, RelatesDone,
       RelatesErr, RelatesPanic, RelatesStmt
<1> QED
  BY <1>2, <1>3, <1>4, <1>5, <1>6

LEMMA StepReach ==
  ASSUME ReachInv, NEW p \in Proc, Step(p) PROVE UpdatesStayReachable'
<1> SUFFICES ASSUME NEW t \in OpenTx', txOwner'[t] = "ensure", NEW w \in txWrites'[t], w.d = 1
             PROVE  \E m \in Model : xtx'[m] = t
  BY DEF UpdatesStayReachable
<1>1. depth[p] \in Depth /\ TypeOK /\ t \in Handle /\ BInv
  BY StepForms DEF ReachInv, BInv, IInv, OpenTx
<1>2. CASE t \in OpenTx /\ txOwner[t] = "ensure" /\ w \in txWrites[t]
  <2>1. PICK m \in Model : xtx[m] = t
    BY <1>2 DEF ReachInv, UpdatesStayReachable
  <2>2. EnsureBegin(p) => Top(p).m # m
    BY <1>1, <2>1 DEF EnsureBegin, ReachInv, CheckHolds, Handle, NoTx
  <2>3. p # m
    BY ModelAssumption
  <2>4. xtx'[m] = xtx[m]
    BY <1>1, <2>2, <2>3, StepXtx DEF EnsureBegin, RelatesStmt, TypeOK, DM
  <2> QED
    BY <2>1, <2>4
<1>3. CASE UpdateExec(p) /\ depth[p] = 1 /\ t = xtx[Top(p).m]
  <2>1. Top(p).m \in Model
    BY <1>1, <1>3, OwnTop DEF ReachInv
  <2> QED
    BY <1>3, <2>1 DEF UpdateExec
<1> QED
  BY <1>1, <1>2, <1>3, EnsureWrites

LEMMA StartCallReach ==
  ASSUME ReachInv, NEW p \in Proc, StartCall(p)
  PROVE  OwnModels' /\ CheckHolds' /\ UpdatesStayReachable'
<1>1. PICK op \in Op, m \in Uses[p], pc \in {"begin", "ensure", "delete"} :
        \E rows, shared, doc : Start(p, op, m, rows, shared, doc, pc)
  BY DEF StartCall, StartCreate, StartUpdate, StartDelete, Op
<1>2. /\ \A q \in Proc : q # p => frame'[q] = frame[q] /\ depth'[q] = depth[q]
      /\ frame'[p][1].m = m /\ frame'[p][1].pc = pc /\ depth'[p] = 1
      /\ UNCHANGED <<dbVars, xtx>>
  BY <1>1 DEF Start, NewFrame, ReachInv, BInv, IInv, TypeOK
<1>3. OwnModels'
  BY <1>2 DEF ReachInv, OwnModels
<1>4. CheckHolds'
  <2> SUFFICES ASSUME NEW q \in Proc, At(q, "ebegin")' PROVE (xtx[Top(q).m] = NoTx)'
    BY DEF CheckHolds
  <2>1. q # p
    BY <1>2 DEF At, Top
  <2> QED
    BY <1>2, <2>1 DEF ReachInv, CheckHolds, At, Top
<1>5. UpdatesStayReachable'
  BY <1>2 DEF ReachInv, UpdatesStayReachable, OpenTx, dbVars
<1> QED
  BY <1>3, <1>4, <1>5

\* The user of the library gives a transaction only to a DataModel that has none and
\* that no call is using.
LEMMA ClientReach ==
  ASSUME ReachInv, ClientStep
  PROVE  OwnModels' /\ CheckHolds' /\ UpdatesStayReachable'
<1>1. UNCHANGED callVars /\ txWrites' = txWrites /\ TypeOK
  BY DEF ClientStep, ClientBegin, ClientEnd, BindModel, callVars, dbVars, Begin, CommitTx,
         RollbackTx, ReachInv, BInv, IInv
<1>2. OwnModels'
  BY <1>1 DEF ReachInv, OwnModels, callVars
<1>3. \A t \in OpenTx' : txOwner'[t] = "ensure" => t \in OpenTx /\ txOwner[t] = "ensure"
  BY <1>1 DEF ClientStep, ClientBegin, ClientEnd, BindModel, dbVars, Begin, CommitTx,
              RollbackTx, OpenTx, TypeOK
<1>4. \/ xtx' = xtx
      \/ \E m \in Model, t \in Handle : BindModel(m, t)
  BY DEF ClientStep, ClientBegin, ClientEnd
<1>5. CASE xtx' = xtx
  BY <1>1, <1>2, <1>3, <1>5 DEF ReachInv, CheckHolds, UpdatesStayReachable, At, Top, callVars
<1>6. ASSUME NEW m \in Model, NEW t \in Handle, BindModel(m, t)
      PROVE  CheckHolds' /\ UpdatesStayReachable'
  <2>1. /\ xtx[m] = NoTx /\ xtx' = [xtx EXCEPT ![m] = t]
        /\ \A p \in Proc, d \in Depth : d <= depth[p] => frame[p][d].m # m
    BY <1>6 DEF BindModel
  <2>2. \A n \in DM : n # m => xtx'[n] = xtx[n]
    BY <1>1, <2>1 DEF TypeOK
  <2>3. CheckHolds'
    <3> SUFFICES ASSUME NEW p \in Proc, At(p, "ebegin")' PROVE (xtx[Top(p).m] = NoTx)'
      BY DEF CheckHolds
    <3>1. At(p, "ebegin") /\ Top(p)' = Top(p) /\ depth[p] \in Depth
      BY <1>1 DEF At, Top, callVars
    <3>2. Top(p).m # m
      BY <2>1, <3>1 DEF Top, Depth
    <3>3. Top(p).m \in DM
      BY <1>1, <3>1, TopType DEF Frame
    <3> QED
      BY <2>2, <3>1, <3>2, <3>3 DEF ReachInv, CheckHolds
  <2>4. \A u \in OpenTx : \A n \in Model : xtx[n] = u => xtx'[n] = u
    BY <2>1, <2>2 DEF OpenTx, Handle, NoTx, DM
  <2> QED
    BY <1>1, <1>3, <2>3, <2>4 DEF ReachInv, UpdatesStayReachable
<1> QED
  BY <1>2, <1>4, <1>5, <1>6

LEMMA InitReach == Init => ReachInv
<1> SUFFICES ASSUME Init PROVE ReachInv
  OBVIOUS
<1>1. OwnModels /\ CheckHolds /\ UpdatesStayReachable
  BY DEF Init, OwnModels, CheckHolds, UpdatesStayReachable, At, Depth, OpenTx
<1> QED
  BY <1>1, InitBInv DEF ReachInv

LEMMA NextReach == OneUser /\ ReachInv /\ [Next]_vars => ReachInv'
<1> SUFFICES ASSUME OneUser, ReachInv, [Next]_vars PROVE ReachInv'
  OBVIOUS
<1>1. BInv'
  BY NextBInv DEF ReachInv
<1>2. CASE UNCHANGED vars
  BY <1>1, <1>2 DEF vars, ReachInv, OwnModels, CheckHolds, UpdatesStayReachable, At, Top, OpenTx
<1>3. ASSUME NEW p \in Proc, Step(p) PROVE ReachInv'
  BY <1>1, <1>3, StepOwn, StepCheck, StepReach DEF ReachInv
<1> QED
  BY <1>1, <1>2, <1>3, StartCallReach, ClientReach DEF Next, ReachInv

\* When no two goroutines share a DataModel, though they share the database and its
\* rows: a call works on its goroutine's DataModels, and between the check of
\* ensureXtx and its Beginx nobody else sets xtx.
THEOREM ReachInvariance == ASSUME OneUser PROVE Spec => []ReachInv
<1>1. Init => ReachInv
  BY InitReach
<1>2. ReachInv /\ [Next]_vars => ReachInv'
  BY NextReach
<1> QED
  BY <1>1, <1>2, PTL DEF Spec

\* When no two goroutines share a DataModel, ensureXtx begins one transaction for it
\* and keeps it: no Update of a caller is left in an open transaction that no
\* DataModel holds any more.
THEOREM UpdatesReachable == ASSUME OneUser PROVE Spec => []UpdatesStayReachable
<1>1. Spec => []ReachInv
  BY ReachInvariance
<1>2. ReachInv => UpdatesStayReachable
  BY DEF ReachInv
<1> QED
  BY <1>1, <1>2, PTL

----------------------------------------------------------------------------
\* What a caller sees of its call

LEMMA CalledIs ==
  ASSUME NEW p \in Proc
  PROVE  /\ Called[p].n = calls[p] /\ Called[p].op = frame[p][1].op
         /\ Called[p].rows = frame[p][1].rows /\ Called[p].shared = frame[p][1].shared
         /\ Called[p].ret = IF depth[p] = 0 THEN ret[p] ELSE "running"
BY DEF Called

\* The batches of the abstract Create are those of the code.
LEMMA AllIs ==
  ASSUME IInv, NEW p \in Proc, frame[p][1].op = "create"
  PROVE  /\ \A i : P!Batch(p, i) = BatchWrite(p, i)
         /\ P!All(p) = UpTo(p, Len(frame[p][1].rows))
<1>1. \A i : P!Batch(p, i) = BatchWrite(p, i)
  BY CalledIs DEF P!Batch, BatchWrite
<1>2. DOMAIN Called[p].rows = 1 .. Len(frame[p][1].rows)
  BY SMTT(60), CalledIs DEF IInv, TypeOK, Depth, Frame
<1> QED
  BY <1>1, <1>2 DEF P!All, UpTo

\* The call that a step of p belongs to is running; it goes on, or it returns.
LEMMA StepCalled ==
  ASSUME IInv, NEW p \in Proc, Step(p)
  PROVE  /\ P!Running(p)
         /\ \A q \in Proc : q # p => Called'[q] = Called[q]
         /\ \/ Called'[p] = Called[p]
            \/ /\ depth'[p] = 0 /\ ret'[p] \in {"ok", "err", "panic"}
               /\ Called'[p] = [Called[p] EXCEPT !.ret = ret'[p]]
               /\ ret'[p] = "ok" => depth[p] = 1 /\ ReturnOk(p) /\ frame' = frame
<1>1. depth[p] \in Depth /\ calls' = calls
  BY StepForms
<1>2. P!Running(p)
  BY <1>1, CalledIs DEF P!Running, Depth
<1>3. ASSUME NEW q \in Proc, q # p PROVE Called'[q] = Called[q]
  BY <1>3, StepLocal DEF Called, SameCall
<1>4. CASE frame' = frame /\ ReturnOk(p)
  <2>1. depth'[p] = depth[p] - 1
    BY <1>4 DEF ReturnOk, IInv, TypeOK
  <2>2. CASE depth[p] = 1
    <3>1. depth'[p] = 0 /\ ret'[p] = "ok"
      BY <1>4, <2>1, <2>2 DEF ReturnOk, IInv, TypeOK
    <3>2. Called'[p] = [Called[p] EXCEPT !.ret = ret'[p]]
      BY <1>1, <1>4, <2>2, <3>1 DEF Called
    <3> QED
      BY <1>2, <1>3, <1>4, <2>2, <3>1, <3>2
  <2>3. CASE depth[p] = 2
    <3>1. depth'[p] = 1
      BY <2>1, <2>3
    <3>2. Called'[p] = Called[p]
      BY <1>1, <1>4, <2>3, <3>1 DEF Called
    <3> QED
      BY <1>2, <1>3, <3>2
  <2> QED
    BY <1>1, <1>2, <1>3, <2>2, <2>3 DEF Depth
<1>5. CASE frame' = frame /\ \E r \in {"err", "panic"} : ReturnErr(p, r)
  <2>1. depth'[p] = 0 /\ ret'[p] \in {"err", "panic"}
    BY <1>5 DEF ReturnErr, IInv, TypeOK
  <2> QED
    BY <1>1, <1>2, <1>3, <1>5, <2>1 DEF Called
<1>6. ASSUME frame'[p][1].op = frame[p][1].op, frame'[p][1].rows = frame[p][1].rows,
             frame'[p][1].shared = frame[p][1].shared, depth'[p] # 0
      PROVE  Called'[p] = Called[p]
  BY <1>1, <1>6 DEF Called, Depth
<1>7. CASE Stay /\ \E g : Later(Top(p), g) /\ frame' = SetTop(p, g)
  <2>1. PICK g : Later(Top(p), g) /\ frame' = SetTop(p, g)
    BY <1>7
  <2>2. frame'[p][1] = IF depth[p] = 1 THEN g ELSE frame[p][1]
    BY <1>1, <2>1, SetTopLemma DEF IInv, Depth
  <2> QED
    BY <1>1, <1>2, <1>3, <1>6, <1>7, <2>1, <2>2 DEF Later, Top, Stay, Depth
<1>8. CASE RelatesStmt(p)
  <2>1. frame'[p][1] = [frame[p][1] EXCEPT !.k = @ + 1] /\ depth'[p] = 2
    BY <1>8 DEF RelatesStmt, Top, IInv, TypeOK
  <2>2. frame[p][1] \in Frame
    BY DEF IInv, TypeOK, Depth
  <2> QED
    BY <1>2, <1>3, <1>6, <2>1, <2>2 DEF Frame
<1> QED
  BY <1>4, <1>5, <1>7, <1>8, StepForms

----------------------------------------------------------------------------
\* What waits in the user's transactions

LEMMA StagedBegin ==
  ASSUME IInv, NEW owner \in {"client", "create", "ensure"}, Begin(owner)
  PROVE  Staged' = Staged
<1>1. nextTx \in Handle /\ txWrites' = txWrites /\ txWrites[nextTx] = {}
  BY BeginKeeps, FreshHandle DEF Begin
<1>2. \A t \in Handle : t # nextTx => txState'[t] = txState[t] /\ txOwner'[t] = txOwner[t]
  BY BeginKeeps
<1> QED
  BY <1>1, <1>2 DEF Staged

LEMMA StagedEnd ==
  ASSUME IInv, NEW t \in Handle, txOwner[t] # "client", CommitTx(t) \/ RollbackTx(t)
  PROVE  Staged' = Staged
<1>1. txOwner' = txOwner /\ txWrites' = txWrites
      /\ \A u \in Handle : u # t => txState'[u] = txState[u]
  BY DEF CommitTx, RollbackTx, IInv, TypeOK
<1> QED
  BY <1>1 DEF Staged

LEMMA StagedExec ==
  ASSUME IInv, NEW t \in Handle, NEW w, ExecIn(t, w)
  PROVE  /\ durable' = durable
         /\ txOwner[t] # "client" => Staged' = Staged
         /\ \A u \in Handle : u # t => Staged'[u] = Staged[u]
         /\ Staged[t] \subseteq Staged'[t]
         /\ \A v \in Staged'[t] \ Staged[t] : v = w
<1>1. UNCHANGED <<txState, txOwner, durable>> /\ txState[t] = "open"
      /\ txWrites'[t] = txWrites[t] \cup {w}
      /\ \A u \in Handle : u # t => txWrites'[u] = txWrites[u]
  BY DEF ExecIn, OpenTx, IInv, TypeOK
<1> QED
  BY <1>1 DEF Staged

----------------------------------------------------------------------------
\* What a step stores

\* A commit of a caller's Create stores all of its batches or the next one.
LEMMA CommitIsStore ==
  ASSUME BInv, NEW p \in Proc, depth[p] = 1, CreateCommit(p) \/ CreateCommitErr(p),
         CommitTx(Top(p).tx)
  PROVE  P!StoreBatches(p)
<1> DEFINE f == frame[p][1]
           n == Len(f.rows)
<1>1. Top(p).pc = "commit" /\ durable' = durable \cup txWrites[Top(p).tx] /\ calls[p] > 0
  BY DEF CreateCommit, CreateCommitErr, At, CommitTx, BInv, NestingOK
<1>2. Top(p).op = "create" /\ Top(p) = f
  BY <1>1 DEF BInv, IInv, FramesOK, FrameOK, Top, Depth
<1>3. /\ CreateRuns(p, f) /\ f.pc = "commit" /\ n \in Nat
      /\ f.rows # <<>> => f.i \in 1 .. n
  BY <1>1, <1>2, AtCreate
<1>4. Staged' = Staged
  <2>1. Top(p).tx \in Handle /\ txOwner[Top(p).tx] = "create"
    BY <1>1, <1>2, TopInTx DEF Depth, BInv
  <2> QED
    BY <2>1, StagedEnd DEF BInv
<1>5. \A i : P!Batch(p, i) = BatchWrite(p, i)
  BY <1>2, AllIs DEF BInv
<1>6. P!All(p) = UpTo(p, n)
  BY <1>2, AllIs DEF BInv
<1>7. Called[p].op = "create" /\ Called[p].shared = f.shared /\ DOMAIN Called[p].rows = 1 .. n
  <2>1. f \in Frame
    BY DEF BInv, IInv, TypeOK, Depth
  <2> QED
    BY <1>2, <2>1, CalledIs DEF Frame
<1>8. CASE f.shared
  <2>1. txWrites[f.tx] = UpTo(p, n)
    BY <1>3, <1>8 DEF CreateRuns
  <2>2. durable' = durable \cup P!All(p)
    BY <1>1, <1>2, <1>6, <2>1
  <2> QED
    BY <1>4, <1>7, <1>8, <2>2 DEF P!StoreBatches
<1>9. CASE ~f.shared
  <2>1. f.i \in 1 .. n /\ durable' = durable \cup {BatchWrite(p, f.i)} /\ Stored(p, f.i - 1)
    <3>1. f.i \in 1 .. n /\ txWrites[f.tx] = {BatchWrite(p, f.i)} /\ Stored(p, f.i - 1)
      BY <1>3, <1>9 DEF CreateRuns
    <3> QED
      BY <1>1, <1>2, <3>1
  <2>2. \A j \in 1 .. f.i - 1 : BatchWrite(p, j) \in durable
    BY <2>1 DEF Stored, UpTo, OwnWrites
  <2>3. BatchWrite(p, f.i) \notin durable
    <3>1. SUFFICES ASSUME BatchWrite(p, f.i) \in durable PROVE FALSE
      OBVIOUS
    <3>2. BatchWrite(p, f.i) \in OwnWrites(p, durable)
      BY <3>1 DEF OwnWrites, BatchWrite
    <3>3. PICK j \in 1 .. f.i - 1 : BatchWrite(p, f.i) = BatchWrite(p, j)
      BY <2>1, <3>2 DEF Stored, UpTo
    <3>4. j = f.i
      BY <3>3 DEF BatchWrite
    <3> QED
      BY <2>1, <3>4
  <2> QED
    BY <1>4, <1>5, <1>7, <1>9, <2>1, <2>2, <2>3 DEF P!StoreBatches
<1> QED
  BY <1>8, <1>9

\* A related Create that commits stores related rows.
LEMMA RelatedCommitIsStore ==
  ASSUME BInv, NEW p \in Proc, depth[p] = 2, At(p, "commit"), CommitTx(Top(p).tx)
  PROVE  P!StoreRelated(p)
<1>1. Top(p).pc = "commit" /\ durable' = durable \cup txWrites[Top(p).tx]
  BY DEF At, CommitTx
<1>2. Top(p).op = "create"
  BY <1>1 DEF BInv, IInv, FramesOK, FrameOK, Top, Depth
<1>3. /\ Top(p).tx \in Handle /\ txOwner[Top(p).tx] = "create" /\ InTx(p, 2)
      /\ Top(p) = frame[p][2]
  BY <1>1, <1>2, TopInTx DEF Depth, BInv
<1>4. \A w \in txWrites[Top(p).tx] : w.p = p /\ w.n = calls[p] /\ w.d = 2 /\ w.op = "create"
  BY <1>3 DEF BInv, IInv, OwnWritesOK, WritesOK, Depth
<1>5. Staged' = Staged
  BY <1>3, StagedEnd DEF BInv
<1>6. Called[p].op # "delete" /\ Called[p].n = calls[p]
  BY CalledIs DEF BInv, NestingOK, IInv, FramesOK, FrameOK, Depth
<1> QED
  BY <1>1, <1>4, <1>5, <1>6 DEF P!StoreRelated

\* A Delete, or a related one.
LEMMA DeleteIsStore ==
  ASSUME BInv, NEW p \in Proc, DeleteRow(p)
  PROVE  IF depth[p] = 1 THEN P!StoreDelete(p) /\ P!All(p) \subseteq durable'
                         ELSE P!StoreRelated(p)
<1> DEFINE f == frame[p][1]
           w == WriteOf(p)
<1>1. /\ depth[p] \in Depth /\ Top(p).pc = "delete" /\ durable' = durable \cup {w}
      /\ UNCHANGED <<txState, txOwner, txWrites>>
  BY DEF DeleteRow, At, ExecAuto
<1>2. Staged' = Staged
  BY <1>1 DEF Staged
<1>3. Top(p).op = "delete"
  BY <1>1 DEF BInv, IInv, FramesOK, FrameOK, Top
<1>4. CASE depth[p] = 1
  <2>1. Top(p) = f /\ Len(f.rows) = 1 /\ f.i = 1
    <3>1. Top(p) = f /\ f.pc = "delete" /\ f \in Frame /\ FrameOK(p, f)
      BY <1>1, <1>4 DEF Top, BInv, IInv, TypeOK, FramesOK, Depth
    <3>2. Len(f.rows) = 1 /\ f.rows # <<>>
      BY <3>1 DEF BInv, NestingOK, FrameOK
    <3>3. f.i \in 1 .. 1
      BY <3>1, <3>2 DEF FrameOK
    <3> QED
      BY <3>1, <3>2, <3>3
  <2>2. DOMAIN Called[p].rows = {1}
    <3>1. f \in Frame
      BY DEF BInv, IInv, TypeOK, Depth
    <3>2. DOMAIN f.rows = 1 .. 1
      BY <2>1, <3>1 DEF Frame
    <3> QED
      BY <3>2, CalledIs
  <2>3. P!Batch(p, 1) = w
    BY <1>3, <1>4, <2>1, CalledIs DEF P!Batch, WriteOf
  <2>4. P!All(p) = {w}
    BY <2>2, <2>3 DEF P!All
  <2>5. Called[p].op = "delete"
    BY <1>3, <2>1, CalledIs
  <2> QED
    BY <1>1, <1>2, <1>4, <2>4, <2>5 DEF P!StoreDelete
<1>5. CASE depth[p] = 2
  <2>1. w.p = p /\ w.n = calls[p] /\ w.d = 2 /\ w.op = "delete"
    BY <1>3, <1>5 DEF WriteOf
  <2>2. Called[p].op # "delete" /\ Called[p].n = calls[p]
    BY <1>5, CalledIs DEF BInv, NestingOK, IInv, FramesOK, FrameOK, Depth
  <2> QED
    BY <1>1, <1>2, <1>5, <2>1, <2>2 DEF P!StoreRelated
<1> QED
  BY <1>1, <1>4, <1>5 DEF Depth

\* An Update waits in the user's transaction, or in one that nobody commits.
LEMMA ExecIsStage ==
  ASSUME BInv, NEW p \in Proc, UpdateExec(p)
  PROVE  P!Stage(p) \/ UNCHANGED <<durable, Staged>>
<1> DEFINE t == xtx[Top(p).m]
           w == WriteOf(p)
<1>1. depth[p] \in Depth /\ Top(p).pc = "exec" /\ ExecIn(t, w) /\ t \in Handle
  BY DEF UpdateExec, At, ExecIn, OpenTx
<1>2. Top(p).op = "update"
  BY <1>1 DEF BInv, IInv, FramesOK, FrameOK, Top
<1>3. w.op = "update" /\ w.p = p /\ w.n = calls[p]
  BY <1>2 DEF WriteOf
<1>4. Called[p].op # "delete" /\ Called[p].n = calls[p]
  <2>1. depth[p] = 1 => Called[p].op = "update"
    BY <1>2, CalledIs DEF Top
  <2>2. depth[p] = 2 => Called[p].op # "delete"
    BY CalledIs DEF BInv, NestingOK, IInv, FramesOK, FrameOK, Depth
  <2> QED
    BY <1>1, <2>1, <2>2, CalledIs DEF Depth
<1>5. /\ durable' = durable
      /\ \A u \in Handle : u # t => Staged'[u] = Staged[u]
      /\ Staged[t] \subseteq Staged'[t]
      /\ \A v \in Staged'[t] \ Staged[t] : v = w
  BY <1>1, StagedExec DEF BInv
<1> QED
  BY <1>1, <1>3, <1>4, <1>5 DEF P!Stage

----------------------------------------------------------------------------
\* Every step is promised

\* nil: the rows of a Create or Delete are in the database.
LEMMA OkMeansStored ==
  ASSUME BInv, BInv', NEW p \in Proc, Step(p), depth[p] = 1, depth'[p] = 0, ret'[p] = "ok",
         ReturnOk(p), frame' = frame, Called[p].op # "update"
  PROVE  P!All(p) \subseteq durable'
<1> DEFINE f == frame[p][1]
<1>1. Top(p) = f /\ f.op \in Op /\ f \in Frame /\ FrameOK(p, f) /\ calls' = calls
  <2>1. calls' = calls
    BY StepForms DEF BInv
  <2>2. Top(p) = f /\ f \in Frame /\ FrameOK(p, f)
    BY DEF Top, BInv, IInv, TypeOK, FramesOK, Depth
  <2> QED
    BY <2>1, <2>2 DEF Frame
<1>2. CASE DeleteRow(p)
  BY <1>2, DeleteIsStore
<1>3. CASE ~DeleteRow(p)
  <2>1. f.op = "create"
    <3>1. f.op # "update"
      BY CalledIs
    <3>2. f.op # "delete"
      <4>1. ~DeleteErr(p)
        BY DEF DeleteErr, ReturnErr, BInv, IInv, TypeOK
      <4>2. f.pc \in {"begin", "insert", "commit", "ensure", "ebegin", "exec", "relates"}
        BY <1>1, <1>3, <4>1 DEF Step, CreateStep, UpdateStep, DeleteStep, RelatesStep, CreateNothing,
           CreateBegin, CreateBeginErr, InsertPanics, InsertBatch, InsertErr, CreateCommit, CreateCommitErr,
           UpdateMapPanic, EnsureCheck, EnsureBegin, EnsureErr, UpdateExec, UpdateErr,
           RelatesDone, RelatesErr, RelatesPanic, RelatesStmt, At
      <4> QED
        BY <1>1, <4>2 DEF FrameOK
    <3> QED
      BY <1>1, <3>1, <3>2 DEF Op
  <2>2. Creates(p)'
    BY <1>1, <2>1 DEF Creates, BInv, NestingOK
  <2>3. CreateOver(p, f)' /\ (f.rows = <<>> => f.i = 1)
    BY <2>2 DEF BInv, CreateOK
  <2>4. \A j : UpTo(p, j)' = UpTo(p, j)
    BY <1>1, BatchesSame
  <2>5. \/ OwnWrites(p, durable)' = UpTo(p, Len(f.rows))
        \/ f.rows = <<>>
    BY <2>3, <2>4 DEF CreateOver, Stored
  <2>6. P!All(p) = UpTo(p, Len(f.rows))
    BY <2>1, AllIs DEF BInv
  <2>7. f.rows = <<>> => UpTo(p, Len(f.rows)) = {}
    BY UpToZero
  <2> QED
    BY <2>5, <2>6, <2>7 DEF OwnWrites
<1> QED
  BY <1>2, <1>3

LEMMA StepEffect == ASSUME BInv, NEW p \in Proc, Step(p) PROVE P!Effect(p)
<1>1. depth[p] \in Depth
  BY StepForms DEF BInv
<1>2. CASE CreateCommit(p) \/ CreateCommitErr(p)
  <2>1. CASE RollbackTx(Top(p).tx)
    <3>1. Top(p).pc = "commit"
      BY <1>2 DEF CreateCommit, CreateCommitErr, At
    <3>2. Top(p).op = "create"
      BY <1>1, <3>1 DEF BInv, IInv, FramesOK, FrameOK, Top
    <3>3. Top(p).tx \in Handle /\ txOwner[Top(p).tx] = "create"
      BY <1>1, <3>1, <3>2, TopInTx DEF BInv
    <3>4. Staged' = Staged /\ durable' = durable
      BY <2>1, <3>3, StagedEnd DEF BInv, RollbackTx
    <3> QED
      BY <3>4 DEF P!Effect
  <2>2. CASE CommitTx(Top(p).tx)
    BY <1>1, <1>2, <2>2, CommitIsStore, RelatedCommitIsStore
       DEF P!Effect, CreateCommit, CreateCommitErr, Depth
  <2> QED
    BY <1>2, <2>1, <2>2 DEF CreateCommit, CreateCommitErr
<1>3. CASE UpdateExec(p)
  BY <1>3, ExecIsStage DEF P!Effect
<1>4. CASE DeleteRow(p)
  BY <1>1, <1>4, DeleteIsStore DEF P!Effect
<1>5. CASE InsertBatch(p)
  <2>1. Top(p).pc = "insert" /\ ExecIn(Top(p).tx, WriteOf(p))
    BY <1>5 DEF InsertBatch, At
  <2>2. Top(p).op = "create"
    BY <1>1, <2>1 DEF BInv, IInv, FramesOK, FrameOK, Top
  <2>3. Top(p).tx \in Handle /\ txOwner[Top(p).tx] = "create"
    BY <1>1, <2>1, <2>2, TopInTx DEF BInv
  <2> QED
    BY <2>1, <2>3, StagedExec DEF BInv, P!Effect
<1>6. CASE InsertErr(p)
  <2>1. Top(p).pc = "insert" /\ RollbackTx(Top(p).tx)
    BY <1>6 DEF InsertErr, At
  <2>2. Top(p).op = "create"
    BY <1>1, <2>1 DEF BInv, IInv, FramesOK, FrameOK, Top
  <2>3. Top(p).tx \in Handle /\ txOwner[Top(p).tx] = "create"
    BY <1>1, <2>1, <2>2, TopInTx DEF BInv
  <2>4. Staged' = Staged /\ durable' = durable
    BY <2>1, <2>3, StagedEnd DEF BInv, RollbackTx
  <2> QED
    BY <2>4 DEF P!Effect
<1>7. CASE CreateBegin(p) \/ EnsureBegin(p)
  BY <1>7, StagedBegin DEF CreateBegin, EnsureBegin, Begin, BInv, P!Effect
<1>8. CASE UNCHANGED dbVars
  BY <1>8 DEF dbVars, Staged, P!Effect
<1>9. \/ UNCHANGED dbVars
      \/ CreateCommit(p) \/ CreateCommitErr(p) \/ UpdateExec(p) \/ DeleteRow(p)
      \/ InsertBatch(p) \/ InsertErr(p) \/ CreateBegin(p) \/ EnsureBegin(p)
  BY DEF Step, CreateStep, UpdateStep, DeleteStep, RelatesStep, CreateNothing, CreateBeginErr, InsertPanics,
         UpdateMapPanic, EnsureCheck, EnsureErr, UpdateErr, DeleteErr, RelatesDone, RelatesErr,
         RelatesPanic, RelatesStmt
<1> QED
  BY <1>2, <1>3, <1>4, <1>5, <1>6, <1>7, <1>8, <1>9

LEMMA StepIsPromised ==
  ASSUME BInv, BInv', NEW p \in Proc, Step(p) PROVE P!Act(p)
<1>1. P!Running(p) /\ P!Effect(p)
  BY StepCalled, StepEffect DEF BInv
<1>3. CASE Called'[p] = Called[p]
  <2>1. \A q \in Proc : Called'[q] = Called[q]
    BY <1>3, StepCalled DEF BInv
  <2>2. Called' = Called
    BY <2>1 DEF Called
  <2> QED
    BY <1>1, <2>2 DEF P!Act, P!Progress
<1>4. CASE Called'[p] # Called[p]
  <2>1. /\ depth'[p] = 0 /\ ret'[p] \in {"ok", "err", "panic"}
        /\ Called'[p] = [Called[p] EXCEPT !.ret = ret'[p]]
        /\ ret'[p] = "ok" => depth[p] = 1 /\ ReturnOk(p) /\ frame' = frame
        /\ \A q \in Proc : q # p => Called'[q] = Called[q]
    BY <1>4, StepCalled DEF BInv
  <2>2. Called'[p].ret = ret'[p]
    BY <2>1, CalledIs DEF Called
  <2>3. (Called'[p].ret = "ok" /\ Called[p].op # "update") => P!All(p) \subseteq durable'
    BY <2>1, <2>2, OkMeansStored
  <2>4. P!Progress(p)
    BY <2>1, <2>3 DEF P!Progress
  <2> QED
    BY <1>1, <2>4 DEF P!Act
<1> QED
  BY <1>3, <1>4

LEMMA StartIsPromised ==
  ASSUME BInv, NEW p \in Proc, NEW op, NEW m, NEW rows, NEW shared, NEW doc, NEW pc,
         Start(p, op, m, rows, shared, doc, pc)
  PROVE  P!Start(p)
<1>1. /\ depth[p] = 0 /\ depth'[p] = 1 /\ calls'[p] = calls[p] + 1
      /\ \A q \in Proc : q # p => /\ frame'[q] = frame[q] /\ calls'[q] = calls[q]
                                  /\ depth'[q] = depth[q] /\ ret'[q] = ret[q]
      /\ UNCHANGED dbVars
  BY DEF Start, BInv, IInv, TypeOK
<1>2. ~P!Running(p)
  <2>1. ret[p] # "running"
    BY DEF BInv, IInv, TypeOK
  <2> QED
    BY <1>1, <2>1, CalledIs DEF P!Running
<1>3. Staged' = Staged /\ durable' = durable
  BY <1>1 DEF Staged, dbVars
<1>4. \A q \in Proc : IF q = p THEN Called'[q].n = Called[q].n + 1 /\ Called'[q].ret = "running"
                               ELSE Called'[q] = Called[q]
  BY <1>1 DEF Called
<1> QED
  BY <1>2, <1>3, <1>4 DEF P!Start

\* The user's steps: the end of one of its transactions, or nothing that is seen.
LEMMA ClientIsPromised ==
  ASSUME BInv, ClientStep
  PROVE  (\E t \in Handle : P!End(t)) \/ UNCHANGED P!vars
<1>1. Called' = Called
  BY DEF ClientStep, ClientBegin, ClientEnd, BindModel, callVars, Called
<1>2. CASE ClientBegin
  BY <1>1, <1>2, StagedBegin DEF ClientBegin, Begin, BInv, P!vars
<1>3. ASSUME NEW t \in Handle, ClientEnd(t) PROVE P!End(t)
  <2>1. /\ txOwner[t] = "client" /\ txState[t] = "open" /\ txState'[t] # "open"
        /\ \A u \in Handle : u # t => txState'[u] = txState[u]
        /\ UNCHANGED <<txOwner, txWrites>>
        /\ durable' = durable \/ durable' = durable \cup txWrites[t]
    BY <1>3 DEF ClientEnd, CommitTx, RollbackTx, OpenTx, BInv, IInv, TypeOK
  <2>2. Staged[t] = txWrites[t]
    BY <2>1 DEF Staged
  <2>3. \A u \in Handle : Staged'[u] = IF u = t THEN {} ELSE Staged[u]
    BY <2>1 DEF Staged
  <2> QED
    BY <1>1, <2>1, <2>2, <2>3 DEF P!End
<1>4. CASE \E t \in Handle, m \in Model : BindModel(m, t)
  BY <1>1, <1>4 DEF BindModel, dbVars, Staged, P!vars
<1> QED
  BY <1>2, <1>3, <1>4 DEF ClientStep

LEMMA NextIsPromised == BInv /\ BInv' /\ [Next]_vars => [P!Next]_(P!vars)
<1> SUFFICES ASSUME BInv, BInv', [Next]_vars PROVE P!Next \/ UNCHANGED P!vars
  OBVIOUS
<1>1. CASE ClientStep
  BY <1>1, ClientIsPromised DEF P!Next
<1>2. ASSUME NEW p \in Proc, StartCall(p) PROVE P!Start(p)
  BY <1>2, StartIsPromised DEF StartCall, StartCreate, StartUpdate, StartDelete
<1>3. ASSUME NEW p \in Proc, Step(p) PROVE P!Act(p)
  BY <1>3, StepIsPromised
<1>4. CASE UNCHANGED vars
  BY <1>4 DEF vars, P!vars, Staged, Called
<1> QED
  BY <1>1, <1>2, <1>3, <1>4 DEF Next, P!Next

LEMMA InitIsPromised == Init => P!Init
<1> SUFFICES ASSUME Init PROVE P!Init
  OBVIOUS
<1>1. durable = {} /\ Staged = [t \in Handle |-> {}]
  BY DEF Init, Staged
<1>2. \A p \in Proc : Called[p].n = 0 /\ Called[p].ret = "none"
  BY DEF Init, Called
<1> QED
  BY <1>1, <1>2 DEF P!Init

\* Create, Update and Delete implement the promise to their callers, whatever
\* goroutines share, wherever calls fail and whenever the user ends transactions.
THEOREM Refinement == Spec => KeepsPromise
<1>1. Init /\ [][Next]_vars /\ []BInv => P!Init /\ [][P!Next]_(P!vars)
  BY InitIsPromised, NextIsPromised, PTL
<1> QED
  BY <1>1, BatchInvariance, PTL DEF Spec, KeepsPromise, P!Spec
=============================================================================
