------------------------- MODULE DataModelProofs -------------------------
(***************************************************************************)
(* Theorems about DataModel, for any goroutines, DataModels, rows and      *)
(* bounds.                                                                 *)
(***************************************************************************)
EXTENDS DataModel, TLAPS

----------------------------------------------------------------------------
\* Lemmas about the operators of DataModel

LEMMA TopType ==
  ASSUME TypeOK, NEW p \in Proc, depth[p] \in Depth
  PROVE  Top(p) \in Frame
BY DEF TypeOK, Top

\* SetTop replaces one operation's local variables and no other's.
LEMMA SetTopLemma ==
  ASSUME TypeOK, NEW p \in Proc, depth[p] \in Depth, NEW f, frame' = SetTop(p, f)
  PROVE  /\ \A q \in Proc, d \in Depth :
              frame'[q][d] = IF q = p /\ d = depth[p] THEN f ELSE frame[q][d]
         /\ f \in Frame => frame' \in [Proc -> [Depth -> Frame]]
BY DEF TypeOK, SetTop

LEMMA NewFrameType ==
  ASSUME NEW op \in Op, NEW m \in DM, NEW rows \in Seq(Row), NEW shared \in BOOLEAN,
         NEW doc \in DocKind, NEW pc \in Pc
  PROVE  NewFrame(op, m, rows, shared, doc, pc) \in Frame
BY BoundsAssumption DEF NewFrame, Frame, NoTx

\* The write of an operation on a row is well typed.
LEMMA WriteOfType ==
  ASSUME TypeOK, NEW p \in Proc, depth[p] \in Depth, FrameOK(p, Top(p)), Top(p).rows # <<>>
  PROVE  /\ WriteOf(p) \in Write
         /\ WriteOf(p).op = Top(p).op /\ WriteOf(p).p = p
         /\ WriteOf(p).n = calls[p] /\ WriteOf(p).d = depth[p]
<1>1. Top(p) \in Frame
  BY TopType
<1>2. Top(p).rows \in Seq(Row) /\ Top(p).i \in 1 .. Len(Top(p).rows)
  BY <1>1 DEF FrameOK, Frame
<1>3. Top(p).rows[Top(p).i] \in Row
  BY <1>2
<1> QED
  BY <1>1, <1>3 DEF TypeOK, WriteOf, Write, Frame

\* Entering relatesWrite keeps the local variables well formed.
LEMMA ToRelatesOK ==
  ASSUME TypeOK, HandlesOK, NEW p \in Proc, NEW f \in Frame, FrameOK(p, f), f.op # "delete"
  PROVE  /\ ToRelates(f) \in Frame /\ FrameOK(p, ToRelates(f))
         /\ ToRelates(f).tx = f.tx /\ ToRelates(f).op = f.op /\ ToRelates(f).m = f.m
         /\ ToRelates(f).pc = "relates"
<1>1. f.m \in DM /\ xtx[f.m] \in 0 .. MaxTx
  BY DEF TypeOK, Frame
<1>2. ToRelates(f) = [f EXCEPT !.pc = "relates", !.cap = xtx[f.m], !.k = 0]
  BY DEF ToRelates
<1> QED
  <2>1. ToRelates(f) \in Frame
    <3>1. \A c \in 0 .. MaxTx : [f EXCEPT !.pc = "relates", !.cap = c, !.k = 0] \in Frame
      BY DEF Frame, Pc
    <3> QED
      BY <1>1, <1>2, <3>1
  <2>2. ToRelates(f).cap = xtx[f.m] /\ ToRelates(f).i = f.i /\ ToRelates(f).rows = f.rows
        /\ ToRelates(f).tx = f.tx /\ ToRelates(f).op = f.op /\ ToRelates(f).m = f.m
        /\ ToRelates(f).pc = "relates"
    BY <1>2 DEF Frame
  <2>3. FrameOK(p, ToRelates(f))
    BY <1>1, <2>2 DEF FrameOK, HandlesOK
  <2> QED
    BY <2>1, <2>2, <2>3
----------------------------------------------------------------------------
\* The invariant

LEMMA InitIInv == Init => IInv
<1> SUFFICES ASSUME Init PROVE IInv
  OBVIOUS
<1>1. ASSUME NEW p \in Proc PROVE NoFrame(p) \in Frame
  <2>1. "delete" \in Op /\ "list" \in DocKind /\ "idle" \in Pc /\ p \in DM /\ <<>> \in Seq(Row)
    BY DEF Op, DocKind, Pc, DM
  <2> QED
    BY <2>1, NewFrameType DEF NoFrame
<1>2. TypeOK
  <2>1. frame \in [Proc -> [Depth -> Frame]]
    BY <1>1 DEF Init
  <2> QED
    BY <2>1, BoundsAssumption DEF Init, TypeOK, NoTx
<1>3. HandlesOK /\ WritesOK
  BY DEF Init, HandlesOK, WritesOK, Handle, NoTx
<1>4. FramesOK /\ CreateTxIsPrivate /\ OwnWritesOK /\ OneCallPerTx
  BY DEF Init, FramesOK, FrameOK, NoFrame, NewFrame, CreateTxIsPrivate, OwnWritesOK, InTx,
         OneCallPerTx, Depth, NoTx
<1> QED
  BY <1>2, <1>3, <1>4 DEF IInv

LEMMA InsertBatchKeeps ==
  ASSUME IInv, NEW p \in Proc, InsertBatch(p) PROVE IInv'
<1> DEFINE f == Top(p)
           w == WriteOf(p)
           d == depth[p]
<1>1. d \in Depth /\ f.pc = "insert" /\ f \in Frame /\ f = frame[p][d]
  BY TopType DEF IInv, InsertBatch, At, Top
<1>2. FrameOK(p, f) /\ f.rows # <<>> /\ f.op = "create"
  BY <1>1 DEF IInv, FramesOK, FrameOK
<1>3. w \in Write /\ w.op = "create" /\ w.p = p /\ w.n = calls[p] /\ w.d = d
  BY <1>1, <1>2, WriteOfType DEF IInv
<1>4. InTx(p, d)
  BY <1>1, <1>2 DEF InTx, IInv, TypeOK, Depth
<1>5. PICK id \in BOOLEAN : frame' = SetTop(p, AfterInsert(f, id))
  BY DEF InsertBatch
<1> DEFINE g == AfterInsert(f, id)
<1>6. /\ g \in Frame /\ FrameOK(p, g)
      /\ g.tx = f.tx /\ g.op = f.op /\ g.m = f.m /\ g.pc \in {"insert", "relates", "spin"}
  <2>1. CASE g = ToRelates(f)
    BY <1>1, <1>2, <2>1, ToRelatesOK DEF IInv
  <2>2. CASE g = [f EXCEPT !.pc = "spin"]
    BY <1>1, <1>2, <2>2 DEF Frame, FrameOK, Pc
  <2>3. CASE g = [f EXCEPT !.i = @ + 1] /\ f.i < Len(f.rows)
    <3>1. f.i \in Nat /\ Len(f.rows) \in Nat
      BY SMTT(60), <1>1 DEF Frame
    <3>2. f.i + 1 \in Nat /\ f.i + 1 \in 1 .. Len(f.rows)
      BY <2>3, <3>1
    <3>3. g \in Frame
      BY <1>1, <2>3, <3>2 DEF Frame
    <3>4. /\ g.i = f.i + 1 /\ g.m = f.m /\ g.rows = f.rows /\ g.pc = f.pc
          /\ g.op = f.op /\ g.cap = f.cap /\ g.tx = f.tx
      BY <1>1, <2>3 DEF Frame
    <3> QED
      BY <1>1, <1>2, <3>2, <3>3, <3>4 DEF FrameOK
  <2> QED
    BY <2>1, <2>2, <2>3 DEF AfterInsert
<1>7. \A q \in Proc, e \in Depth : frame'[q][e] = IF q = p /\ e = d THEN g ELSE frame[q][e]
  BY <1>1, <1>5, SetTopLemma DEF IInv
<1>8. f.tx \in OpenTx /\ txOwner[f.tx] = "create"
  BY <1>1, <1>4 DEF IInv, CreateTxIsPrivate
<1>9. TypeOK'
  BY <1>1, <1>3, <1>5, <1>6, <1>8, SetTopLemma DEF IInv, TypeOK, InsertBatch, ExecIn, Stay, OpenTx
<1>10. HandlesOK'
  BY <1>8 DEF IInv, HandlesOK, TypeOK, InsertBatch, ExecIn, OpenTx
<1>11. WritesOK'
  BY <1>3, <1>8 DEF IInv, WritesOK, TypeOK, InsertBatch, ExecIn, OpenTx
<1>12. FramesOK'
  BY SMTT(60), <1>6, <1>7 DEF IInv, FramesOK, FrameOK, InsertBatch, ExecIn
<1>13. CreateTxIsPrivate'
  <2>1. depth' = depth /\ OpenTx' = OpenTx /\ txOwner' = txOwner
    BY DEF InsertBatch, ExecIn, Stay, OpenTx
  <2>2. \A q \in Proc, e \in Depth :
          InTx(q, e)' => InTx(q, e) /\ frame'[q][e].tx = frame[q][e].tx
    BY SMTT(60), <1>1, <1>4, <1>6, <1>7, <2>1 DEF InTx
  <2> QED
    BY <2>1, <2>2 DEF IInv, CreateTxIsPrivate
<1>14. OwnWritesOK'
  BY <1>1, <1>3, <1>4, <1>6, <1>7, <1>8
     DEF IInv, CreateTxIsPrivate, OwnWritesOK, InTx, InsertBatch, ExecIn, Stay, OpenTx, TypeOK
<1>15. OneCallPerTx'
  BY <1>1, <1>3, <1>4, <1>8 DEF IInv, OwnWritesOK, OneCallPerTx, InsertBatch, ExecIn, OpenTx, TypeOK
<1> QED
  BY <1>9, <1>10, <1>11, <1>12, <1>13, <1>14, <1>15 DEF IInv

\* An operation returns and changes nothing else.
LEMMA LeaveKeeps ==
  ASSUME IInv, NEW p \in Proc, depth[p] \in Depth,
         ReturnOk(p) \/ \E r \in {"err", "panic"} : ReturnErr(p, r),
         UNCHANGED <<dbVars, xtx, frame>>
  PROVE  IInv'
<1>1. depth' \in [Proc -> 0 .. 2] /\ \A q \in Proc : depth'[q] <= depth[q]
  <2>1. PICK n \in {0, depth[p] - 1} : depth' = [depth EXCEPT ![p] = n]
    BY DEF ReturnOk, ReturnErr
  <2>2. n \in 0 .. 2 /\ n <= depth[p] /\ depth \in [Proc -> 0 .. 2]
    BY DEF IInv, TypeOK, Depth
  <2> QED
    BY <2>1, <2>2
<1>2. calls' = calls /\ ret' \in [Proc -> {"none", "ok", "err", "panic"}]
  BY DEF IInv, TypeOK, ReturnOk, ReturnErr
<1>3. TypeOK'
  BY <1>1, <1>2 DEF IInv, TypeOK, dbVars
<1>4. HandlesOK' /\ WritesOK' /\ OneCallPerTx'
  BY DEF IInv, HandlesOK, WritesOK, OneCallPerTx, dbVars
<1>5. FramesOK'
  BY DEF IInv, FramesOK, FrameOK, dbVars
<1>6. \A q \in Proc, d \in Depth : InTx(q, d)' => InTx(q, d)
  BY <1>1 DEF InTx, IInv, TypeOK, Depth
<1>7. CreateTxIsPrivate' /\ OwnWritesOK'
  BY <1>2, <1>6 DEF IInv, CreateTxIsPrivate, OwnWritesOK, OpenTx, dbVars
<1> QED
  BY <1>3, <1>4, <1>5, <1>7 DEF IInv

\* An operation moves on and changes nothing but its own local variables.
LEMMA MoveKeeps ==
  ASSUME IInv, NEW p \in Proc, depth[p] \in Depth, NEW g \in Frame, frame' = SetTop(p, g),
         FrameOK(p, g), g.tx = Top(p).tx, g.op = Top(p).op,
         g.pc \in {"insert", "relates", "commit"} => Top(p).pc \in {"insert", "relates", "commit"},
         UNCHANGED <<dbVars, xtx, calls, depth, ret>>
  PROVE  IInv'
<1> DEFINE d == depth[p]
<1>1. \A q \in Proc, e \in Depth : frame'[q][e] = IF q = p /\ e = d THEN g ELSE frame[q][e]
  BY SetTopLemma DEF IInv
<1>2. TypeOK'
  BY SetTopLemma DEF IInv, TypeOK, dbVars
<1>3. HandlesOK' /\ WritesOK' /\ OneCallPerTx'
  BY DEF IInv, HandlesOK, WritesOK, OneCallPerTx, dbVars
<1>4. FramesOK'
  BY SMTT(60), <1>1 DEF IInv, FramesOK, FrameOK, dbVars
<1>5. \A q \in Proc, e \in Depth : InTx(q, e)' => InTx(q, e) /\ frame'[q][e].tx = frame[q][e].tx
  BY <1>1 DEF InTx, Top
<1>6. CreateTxIsPrivate' /\ OwnWritesOK'
  BY <1>5 DEF IInv, CreateTxIsPrivate, OwnWritesOK, OpenTx, dbVars
<1> QED
  BY <1>2, <1>3, <1>4, <1>6 DEF IInv

----------------------------------------------------------------------------
\* Transactions begin and end

\* A new handle belongs to nobody yet.
LEMMA FreshHandle ==
  ASSUME IInv, nextTx \in Handle
  PROVE  /\ txOwner[nextTx] = "none" /\ txWrites[nextTx] = {} /\ nextTx # NoTx
         /\ \A m \in DM : xtx[m] # nextTx
         /\ \A p \in Proc, d \in Depth : frame[p][d].cap # nextTx
         /\ \A p \in Proc, d \in Depth : InTx(p, d) => frame[p][d].tx # nextTx
<1>1. txOwner[nextTx] = "none" /\ txWrites[nextTx] = {} /\ nextTx # NoTx
  BY DEF IInv, TypeOK, HandlesOK, Handle, NoTx
<1> QED
  BY <1>1 DEF IInv, HandlesOK, FramesOK, FrameOK, CreateTxIsPrivate

\* Beginx keeps what the invariant says of the database.
LEMMA BeginKeeps ==
  ASSUME IInv, NEW owner \in {"client", "create", "ensure"}, Begin(owner)
  PROVE  /\ nextTx \in Handle
         /\ txState' \in [Handle -> {"unused", "open", "committed", "rolledback"}]
         /\ txOwner' \in [Handle -> {"none", "client", "create", "ensure"}]
         /\ nextTx' \in 1 .. MaxTx + 1
         /\ txState'[nextTx] = "open" /\ txOwner'[nextTx] = owner
         /\ \A t \in Handle : t # nextTx => txState'[t] = txState[t] /\ txOwner'[t] = txOwner[t]
         /\ \A t \in Handle : t >= nextTx' <=> txOwner'[t] = "none"
         /\ \A t \in Handle : txOwner'[t] = "none" => txState'[t] = "unused" /\ txWrites'[t] = {}
         /\ \A t \in Handle : txOwner'[t] = "ensure" => txState'[t] = "open"
         /\ WritesOK' /\ OneCallPerTx'
<1>1. nextTx \in Handle /\ nextTx' = nextTx + 1 /\ txWrites' = txWrites /\ durable' = durable
  BY DEF Begin
<1>2. txOwner[nextTx] = "none" /\ txWrites[nextTx] = {} /\ txState[nextTx] = "unused"
  BY <1>1, FreshHandle DEF IInv, HandlesOK
<1>3. /\ txState' \in [Handle -> {"unused", "open", "committed", "rolledback"}]
      /\ txOwner' \in [Handle -> {"none", "client", "create", "ensure"}]
      /\ txState'[nextTx] = "open" /\ txOwner'[nextTx] = owner
      /\ \A t \in Handle : t # nextTx => txState'[t] = txState[t] /\ txOwner'[t] = txOwner[t]
  BY <1>1 DEF Begin, IInv, TypeOK
<1>4. nextTx' \in 1 .. MaxTx + 1
  BY <1>1, BoundsAssumption DEF Handle
<1>5. \A t \in Handle : t >= nextTx' <=> txOwner'[t] = "none"
  BY <1>1, <1>3 DEF IInv, HandlesOK, Handle
<1>6. /\ \A t \in Handle : txOwner'[t] = "none" => txState'[t] = "unused" /\ txWrites'[t] = {}
      /\ \A t \in Handle : txOwner'[t] = "ensure" => txState'[t] = "open"
  BY <1>1, <1>3 DEF IInv, HandlesOK
<1>7. WritesOK'
  BY <1>1, <1>2, <1>3 DEF IInv, WritesOK
<1>8. OneCallPerTx'
  BY <1>1, <1>2, <1>3 DEF IInv, OneCallPerTx
<1> QED
  BY <1>1, <1>3, <1>4, <1>5, <1>6, <1>7, <1>8

\* Ending a transaction that is not ensureXtx's keeps it, too.
LEMMA EndKeeps ==
  ASSUME IInv, NEW t \in Handle, txOwner[t] # "ensure", CommitTx(t) \/ RollbackTx(t), xtx' = xtx
  PROVE  /\ txState' \in [Handle -> {"unused", "open", "committed", "rolledback"}]
         /\ durable' \in SUBSET Write
         /\ txOwner' = txOwner /\ txWrites' = txWrites /\ nextTx' = nextTx
         /\ \A u \in Handle : u # t => txState'[u] = txState[u]
         /\ HandlesOK' /\ WritesOK' /\ OneCallPerTx'
<1>1. /\ txState' \in [Handle -> {"unused", "open", "committed", "rolledback"}]
      /\ txOwner' = txOwner /\ txWrites' = txWrites /\ nextTx' = nextTx
      /\ \A u \in Handle : u # t => txState'[u] = txState[u]
      /\ txState[t] = "open"
  BY DEF CommitTx, RollbackTx, OpenTx, IInv, TypeOK
<1>2. \/ durable' = durable
      \/ durable' = durable \cup txWrites[t] /\ txState'[t] = "committed"
  BY DEF CommitTx, RollbackTx, IInv, TypeOK
<1>3. durable' \in SUBSET Write
  BY <1>2 DEF IInv, TypeOK
<1>4. HandlesOK'
  BY <1>1 DEF IInv, HandlesOK
<1>5. WritesOK'
  BY <1>1, <1>2 DEF IInv, WritesOK
<1>6. OneCallPerTx'
  BY <1>1 DEF IInv, OneCallPerTx
<1> QED
  BY <1>1, <1>3, <1>4, <1>5, <1>6

----------------------------------------------------------------------------
\* The user's actions

LEMMA ClientBeginKeeps == ASSUME IInv, ClientBegin PROVE IInv'
<1>1. Begin("client") /\ UNCHANGED <<xtx, calls, depth, frame, ret>>
  BY DEF ClientBegin
<1>2. TypeOK'
  BY <1>1, BeginKeeps DEF IInv, TypeOK, Begin
<1>3. HandlesOK'
  BY <1>1, BeginKeeps, FreshHandle DEF IInv, TypeOK, HandlesOK, Handle, NoTx
<1>4. FramesOK'
  <2> SUFFICES ASSUME NEW q \in Proc, NEW e \in Depth PROVE FrameOK(q, frame[q][e])'
    BY DEF FramesOK
  <2>1. FrameOK(q, frame[q][e]) /\ frame' = frame /\ xtx' = xtx
    BY <1>1 DEF IInv, FramesOK
  <2>2. frame[q][e].cap \in 0 .. MaxTx
    BY DEF IInv, TypeOK, Frame
  <2>3. frame[q][e].cap # NoTx => txOwner'[frame[q][e].cap] \in {"client", "ensure"}
    BY <1>1, <2>1, <2>2, BeginKeeps DEF FrameOK, Handle, NoTx
  <2> QED
    BY <2>1, <2>3 DEF FrameOK
<1>5. CreateTxIsPrivate' /\ OwnWritesOK'
  BY <1>1, BeginKeeps, FreshHandle
     DEF IInv, CreateTxIsPrivate, OwnWritesOK, InTx, OpenTx, Begin
<1> QED
  BY <1>1, <1>2, <1>3, <1>4, <1>5, BeginKeeps DEF IInv

LEMMA ClientEndKeeps == ASSUME IInv, NEW t \in Handle, ClientEnd(t) PROVE IInv'
<1>1. /\ txOwner[t] = "client" /\ (CommitTx(t) \/ RollbackTx(t))
      /\ UNCHANGED <<xtx, calls, depth, frame, ret>>
  BY DEF ClientEnd
<1>2. TypeOK'
  BY <1>1, EndKeeps DEF IInv, TypeOK
<1>3. FramesOK'
  BY <1>1, EndKeeps DEF IInv, FramesOK, FrameOK
<1>4. CreateTxIsPrivate' /\ OwnWritesOK'
  BY <1>1, EndKeeps DEF IInv, CreateTxIsPrivate, OwnWritesOK, InTx, OpenTx
<1> QED
  BY <1>1, <1>2, <1>3, <1>4, EndKeeps DEF IInv

LEMMA BindModelKeeps ==
  ASSUME IInv, NEW m \in Model, NEW t \in Handle, BindModel(m, t) PROVE IInv'
<1>1. /\ txOwner[t] = "client" /\ xtx' = [xtx EXCEPT ![m] = t]
      /\ UNCHANGED <<dbVars, callVars>> /\ t \in 0 .. MaxTx /\ t # NoTx /\ m \in DM
  BY DEF BindModel, Handle, NoTx, DM
<1>2. TypeOK'
  BY <1>1 DEF IInv, TypeOK, dbVars, callVars
<1>3. HandlesOK'
  BY <1>1 DEF IInv, TypeOK, HandlesOK, dbVars
<1>4. WritesOK' /\ OneCallPerTx' /\ CreateTxIsPrivate' /\ OwnWritesOK'
  BY <1>1 DEF IInv, WritesOK, OneCallPerTx, CreateTxIsPrivate, OwnWritesOK, InTx, OpenTx,
              dbVars, callVars
<1>5. FramesOK'
  <2>1. \A n \in DM : xtx'[n] = NoTx => xtx[n] = NoTx
    BY <1>1 DEF IInv, TypeOK
  <2>2. \A p \in Proc, d \in Depth : frame[p][d].m \in DM
    BY DEF IInv, TypeOK, Frame
  <2> QED
    BY <1>1, <2>1, <2>2 DEF IInv, FramesOK, FrameOK, dbVars, callVars
<1> QED
  BY <1>2, <1>3, <1>4, <1>5 DEF IInv

\* A new call takes the place of a finished one.
LEMMA StartKeeps ==
  ASSUME IInv, NEW p \in Proc, NEW op \in Op, NEW m \in Model, NEW rows \in Seq(Row),
         NEW shared \in BOOLEAN, NEW doc \in DocKind, NEW pc \in Pc,
         Start(p, op, m, rows, shared, doc, pc),
         \/ op = "create" /\ pc = "begin"
         \/ op = "update" /\ pc = "ensure" /\ rows # <<>>
         \/ op = "delete" /\ pc = "delete" /\ rows # <<>>
  PROVE  IInv'
<1> DEFINE f == NewFrame(op, m, rows, shared, doc, pc)
<1>1. f \in Frame /\ NoFrame(p) \in Frame
  <2>1. "delete" \in Op /\ "list" \in DocKind /\ "idle" \in Pc /\ p \in DM /\ m \in DM
        /\ <<>> \in Seq(Row)
    BY DEF Op, DocKind, Pc, DM
  <2> QED
    BY <2>1, NewFrameType DEF NoFrame
<1>2. /\ frame' \in [Proc -> [Depth -> Frame]]
      /\ \A q \in Proc, e \in Depth :
           frame'[q][e] = IF q = p THEN IF e = 1 THEN f ELSE NoFrame(p) ELSE frame[q][e]
  <2>1. <<f, NoFrame(p)>> \in [Depth -> Frame]
    BY <1>1 DEF Depth
  <2>2. frame' = [frame EXCEPT ![p] = <<f, NoFrame(p)>>]
    BY DEF Start
  <2> QED
    BY <2>1, <2>2 DEF IInv, TypeOK, Depth
<1>3. FrameOK(p, f) /\ FrameOK(p, NoFrame(p))
  BY DEF FrameOK, NewFrame, NoFrame, NoTx
<1>4. TypeOK'
  <2>1. calls' \in [Proc -> 0 .. MaxCalls]
    BY BoundsAssumption DEF Start, IInv, TypeOK
  <2>2. depth' \in [Proc -> 0 .. 2] /\ ret' \in [Proc -> {"none", "ok", "err", "panic"}]
    BY DEF Start, IInv, TypeOK
  <2> QED
    BY <1>2, <2>1, <2>2 DEF IInv, TypeOK, Start, dbVars
<1>5. HandlesOK' /\ WritesOK' /\ OneCallPerTx'
  BY DEF IInv, HandlesOK, WritesOK, OneCallPerTx, Start, dbVars
<1>6. FramesOK'
  BY <1>2, <1>3 DEF IInv, FramesOK, FrameOK, Start, dbVars
<1>7. \A q \in Proc, e \in Depth :
        InTx(q, e)' => q # p /\ InTx(q, e) /\ frame'[q][e] = frame[q][e]
  BY <1>2 DEF InTx, NewFrame, NoFrame, Start, IInv, TypeOK
<1>8. \A q \in Proc : q # p => calls'[q] = calls[q]
  BY DEF Start, IInv, TypeOK
<1>9. CreateTxIsPrivate' /\ OwnWritesOK'
  BY <1>7, <1>8 DEF IInv, CreateTxIsPrivate, OwnWritesOK, OpenTx, Start, dbVars
<1> QED
  BY <1>4, <1>5, <1>6, <1>9 DEF IInv

LEMMA StartCallKeeps == ASSUME IInv, NEW p \in Proc, StartCall(p) PROVE IInv'
<1> USE DEF Op, Pc, DocKind
<1>1. Uses[p] \subseteq Model /\ Docs \subseteq DocKind
  BY ModelAssumption
<1>2. CASE StartCreate(p)
  <2>1. \A doc \in Docs : Batches(doc) \subseteq Nat
    BY BoundsAssumption DEF Batches
  <2>2. \A n \in Nat : [1 .. n -> Row] \subseteq Seq(Row)
    OBVIOUS
  <2>3. PICK m \in Uses[p], shared \in BOOLEAN, doc \in Docs, rows \in Seq(Row) :
          Start(p, "create", m, rows, shared, doc, "begin")
    BY <1>2, <2>1, <2>2 DEF StartCreate
  <2> QED
    BY <1>1, <2>3, StartKeeps
<1>3. CASE StartUpdate(p)
  <2>1. PICK m \in Uses[p], doc \in Docs, r \in Row :
          Start(p, "update", m, <<r>>, FALSE, doc, "ensure")
    BY <1>3 DEF StartUpdate
  <2>2. <<r>> \in Seq(Row) /\ <<r>> # <<>>
    OBVIOUS
  <2> QED
    BY <1>1, <2>1, <2>2, StartKeeps
<1>4. CASE StartDelete(p)
  <2>1. PICK m \in Uses[p], r \in Row :
          Start(p, "delete", m, <<r>>, FALSE, "list", "delete")
    BY <1>4 DEF StartDelete
  <2>2. <<r>> \in Seq(Row) /\ <<r>> # <<>> /\ "delete" \in Op /\ "delete" \in Pc
        /\ "list" \in DocKind /\ FALSE \in BOOLEAN
    OBVIOUS
  <2> QED
    BY <1>1, <2>1, <2>2, StartKeeps
<1> QED
  BY <1>2, <1>3, <1>4 DEF StartCall

----------------------------------------------------------------------------
\* The steps of Create

\* A Create that is inside its transaction is InTx.
LEMMA TopInTx ==
  ASSUME IInv, NEW p \in Proc, depth[p] \in Depth, Top(p).op = "create",
         Top(p).pc \in {"insert", "relates", "commit"}
  PROVE  /\ InTx(p, depth[p]) /\ Top(p) = frame[p][depth[p]]
         /\ Top(p).tx \in Handle /\ Top(p).tx \in OpenTx /\ txOwner[Top(p).tx] = "create"
         /\ \A q \in Proc, e \in Depth :
              InTx(q, e) /\ frame[q][e].tx = Top(p).tx => q = p /\ e = depth[p]
<1>1. InTx(p, depth[p]) /\ Top(p) = frame[p][depth[p]]
  BY DEF InTx, Top, IInv, TypeOK
<1> QED
  BY <1>1 DEF IInv, CreateTxIsPrivate, OpenTx

LEMMA CreateBeginKeeps == ASSUME IInv, NEW p \in Proc, CreateBegin(p) PROVE IInv'
<1> DEFINE d == depth[p]
           f == [Top(p) EXCEPT !.tx = nextTx]
           g == IF f.rows = <<>> THEN ToRelates(f) ELSE [f EXCEPT !.pc = "insert"]
<1>1. d \in Depth /\ Top(p).pc = "begin" /\ Top(p) \in Frame /\ Top(p) = frame[p][d]
  BY TopType DEF IInv, CreateBegin, At, Top
<1>2. Begin("create") /\ frame' = SetTop(p, g) /\ UNCHANGED <<xtx, calls, depth, ret>>
  BY DEF CreateBegin, Stay
<1>3. nextTx \in Handle /\ nextTx \in 0 .. MaxTx
  BY <1>2, BeginKeeps DEF Handle
<1>4. FrameOK(p, Top(p)) /\ Top(p).op = "create"
  BY <1>1 DEF IInv, FramesOK, FrameOK
<1>5. f \in Frame /\ FrameOK(p, f) /\ f.tx = nextTx /\ f.op = "create" /\ f.pc = "begin"
  BY <1>1, <1>3, <1>4 DEF Frame, FrameOK
<1>6. g \in Frame /\ FrameOK(p, g) /\ g.tx = nextTx /\ g.op = "create" /\ g.cap # nextTx
  <2>1. CASE f.rows = <<>>
    <3>1. g = ToRelates(f) /\ f.m \in DM
      BY <2>1, <1>5 DEF Frame
    <3>2. g.cap = xtx[f.m]
      BY <3>1, <1>5 DEF ToRelates, Frame
    <3> QED
      BY ZenonT(60), <3>1, <3>2, <1>3, <1>5, ToRelatesOK, FreshHandle DEF IInv
  <2>2. CASE f.rows # <<>>
    <3>1. g = [f EXCEPT !.pc = "insert"]
      BY <2>2
    <3>2. f.cap # nextTx
      BY <1>1, <1>3, FreshHandle DEF Frame
    <3> QED
      BY <2>2, <3>1, <3>2, <1>5 DEF Frame, FrameOK, Pc
  <2> QED
    BY <2>1, <2>2
<1> HIDE DEF f, g
<1>7. \A q \in Proc, e \in Depth : frame'[q][e] = IF q = p /\ e = d THEN g ELSE frame[q][e]
  BY <1>1, <1>2, SetTopLemma DEF IInv
<1>8. TypeOK'
  BY <1>1, <1>2, <1>6, BeginKeeps, SetTopLemma DEF IInv, TypeOK, Begin
<1>9. HandlesOK'
  <2>1. \A m \in DM : xtx'[m] # NoTx => txOwner'[xtx'[m]] = txOwner[xtx[m]]
    BY <1>2, <1>3, BeginKeeps, FreshHandle DEF IInv, TypeOK, Handle, NoTx
  <2> QED
    BY <1>2, <2>1, BeginKeeps DEF IInv, HandlesOK
<1>10. FramesOK'
  <2>1. \A h \in Frame : h.cap # NoTx /\ h.cap # nextTx => txOwner'[h.cap] = txOwner[h.cap]
    BY <1>2, BeginKeeps DEF Frame, Handle, NoTx
  <2>2. ASSUME NEW q \in Proc, NEW h \in Frame, FrameOK(q, h), h.cap # nextTx
        PROVE  FrameOK(q, h)'
    BY <1>2, <2>1, <2>2 DEF FrameOK
  <2>3. ASSUME NEW q \in Proc, NEW e \in Depth
        PROVE  frame[q][e] \in Frame /\ FrameOK(q, frame[q][e]) /\ frame[q][e].cap # nextTx
    BY <1>3, FreshHandle DEF IInv, TypeOK, FramesOK
  <2>4. ASSUME NEW q \in Proc, NEW e \in Depth
        PROVE  /\ frame'[q][e] \in Frame /\ FrameOK(q, frame'[q][e])
               /\ frame'[q][e].cap # nextTx
    BY <1>6, <1>7, <2>3
  <2> QED
    BY <1>2, <2>1, <2>4 DEF FramesOK, FrameOK
<1>11. \A q \in Proc, e \in Depth : InTx(q, e)' =>
         \/ InTx(q, e) /\ frame'[q][e] = frame[q][e] /\ ~(q = p /\ e = d)
         \/ q = p /\ e = d
  BY <1>2, <1>7 DEF InTx
<1>12. CreateTxIsPrivate'
  <2>1. \A q \in Proc, e \in Depth : InTx(q, e)' =>
          frame'[q][e].tx = nextTx <=> q = p /\ e = d
    BY <1>3, <1>6, <1>7, <1>11, FreshHandle
  <2>2. \A q \in Proc, e \in Depth : InTx(q, e)' =>
          txState'[frame'[q][e].tx] = "open" /\ txOwner'[frame'[q][e].tx] = "create"
            /\ frame'[q][e].tx \in Handle
    <3> SUFFICES ASSUME NEW q \in Proc, NEW e \in Depth, InTx(q, e)'
                 PROVE  txState'[frame'[q][e].tx] = "open" /\ txOwner'[frame'[q][e].tx] = "create"
                        /\ frame'[q][e].tx \in Handle
      OBVIOUS
    <3>1. CASE q = p /\ e = d
      BY <1>2, <1>3, <2>1, <3>1, BeginKeeps
    <3>2. CASE ~(q = p /\ e = d)
      <4>1. InTx(q, e) /\ frame'[q][e] = frame[q][e] /\ frame'[q][e].tx # nextTx
        BY <1>11, <2>1, <3>2
      <4>2. frame[q][e].tx \in OpenTx /\ txOwner[frame[q][e].tx] = "create"
        BY <4>1 DEF IInv, CreateTxIsPrivate
      <4> QED
        BY <1>2, <4>1, <4>2, BeginKeeps DEF OpenTx
    <3> QED
      BY <3>1, <3>2
  <2>3. ASSUME NEW q \in Proc, NEW e \in Depth, NEW r \in Proc, NEW c \in Depth,
               InTx(q, e)', InTx(r, c)', frame'[r][c].tx = frame'[q][e].tx
        PROVE  r = q /\ c = e
    <3>1. CASE q = p /\ e = d
      BY <2>1, <2>3, <3>1
    <3>2. CASE r = p /\ c = d
      BY <2>1, <2>3, <3>2
    <3>3. CASE ~(q = p /\ e = d) /\ ~(r = p /\ c = d)
      <4>1. /\ InTx(q, e) /\ frame'[q][e] = frame[q][e]
            /\ InTx(r, c) /\ frame'[r][c] = frame[r][c]
        BY <1>11, <2>3, <3>3
      <4>2. CreateTxIsPrivate
        BY DEF IInv
      <4> QED
        BY <2>3, <4>1, <4>2 DEF CreateTxIsPrivate
    <3> QED
      BY <3>1, <3>2, <3>3
  <2> QED
    BY <2>2, <2>3 DEF CreateTxIsPrivate, OpenTx
<1>13. OwnWritesOK'
  BY <1>2, <1>3, <1>6, <1>7, <1>11, FreshHandle DEF IInv, OwnWritesOK, Begin
<1> QED
  BY <1>2, <1>8, <1>9, <1>10, <1>12, <1>13, BeginKeeps DEF IInv

LEMMA InsertErrKeeps == ASSUME IInv, NEW p \in Proc, InsertErr(p) PROVE IInv'
<1> DEFINE t == Top(p).tx
<1>1. /\ depth[p] \in Depth /\ Top(p).pc = "insert" /\ RollbackTx(t) /\ UNCHANGED <<xtx, frame>>
      /\ depth' = [depth EXCEPT ![p] = 0] /\ ret' = [ret EXCEPT ![p] = "err"] /\ calls' = calls
  BY DEF InsertErr, At, ReturnErr
<1>2. Top(p).op = "create"
  BY <1>1 DEF IInv, FramesOK, FrameOK, Top
<1>3. t \in Handle /\ txOwner[t] = "create"
      /\ \A q \in Proc, e \in Depth : InTx(q, e) /\ frame[q][e].tx = t => q = p
  BY <1>1, <1>2, TopInTx
<1>4. TypeOK'
  BY <1>1, <1>3, EndKeeps DEF IInv, TypeOK
<1>5. FramesOK'
  BY <1>1, <1>3, EndKeeps DEF IInv, FramesOK, FrameOK
<1>6. \A q \in Proc, e \in Depth : InTx(q, e)' => InTx(q, e) /\ q # p
  BY <1>1 DEF InTx, IInv, TypeOK, Depth
<1>7. CreateTxIsPrivate' /\ OwnWritesOK'
  BY <1>1, <1>3, <1>6, EndKeeps DEF IInv, CreateTxIsPrivate, OwnWritesOK, OpenTx
<1> QED
  BY <1>1, <1>3, <1>4, <1>5, <1>7, EndKeeps DEF IInv

\* Going on to the next batch keeps the local variables well formed.
LEMMA NextBatchOK ==
  ASSUME NEW p \in Proc, NEW f \in Frame, FrameOK(p, f), f.op = "create", f.i < Len(f.rows)
  PROVE  LET g == [f EXCEPT !.i = @ + 1, !.pc = "begin"]
         IN  g \in Frame /\ FrameOK(p, g) /\ g.pc = "begin"
<1> DEFINE g == [f EXCEPT !.i = @ + 1, !.pc = "begin"]
<1>1. g \in Frame
  <2>1. \A n \in Nat : [f EXCEPT !.i = n, !.pc = "begin"] \in Frame
    BY DEF Frame, Pc
  <2>2. f.i + 1 \in Nat
    BY DEF Frame
  <2> QED
    BY <2>1, <2>2
<1>2. /\ g.i = f.i + 1 /\ g.pc = "begin" /\ g.rows = f.rows /\ g.op = f.op /\ g.m = f.m
      /\ g.cap = f.cap
  BY DEF Frame
<1>3. g.rows # <<>> => g.i \in 1 .. Len(g.rows)
  BY <1>2 DEF FrameOK, Frame
<1> QED
  BY <1>1, <1>2, <1>3 DEF FrameOK

\* Create commits: it moves on to the next batch, loops, or returns.
LEMMA CommitKeeps ==
  ASSUME IInv, NEW p \in Proc, At(p, "commit"),
         CommitTx(Top(p).tx) \/ RollbackTx(Top(p).tx), xtx' = xtx,
         \/ \E id \in BOOLEAN : AfterCommit(p, id)
         \/ ReturnErr(p, "err") /\ frame' = frame
  PROVE  IInv'
<1> DEFINE t == Top(p).tx
           d == depth[p]
<1>1. d \in Depth /\ Top(p).pc = "commit" /\ Top(p) \in Frame /\ Top(p) = frame[p][d]
  BY TopType DEF IInv, At, Top
<1>2. Top(p).op = "create" /\ FrameOK(p, Top(p))
  BY <1>1 DEF IInv, FramesOK, FrameOK
<1>3. t \in Handle /\ txOwner[t] = "create"
      /\ \A q \in Proc, e \in Depth : InTx(q, e) /\ frame[q][e].tx = t => q = p /\ e = d
  BY <1>1, <1>2, TopInTx
<1>4. CASE /\ frame' = frame /\ calls' = calls
           /\ depth' \in [Proc -> 0 .. 2] /\ ret' \in [Proc -> {"none", "ok", "err", "panic"}]
           /\ depth'[p] < d /\ \A q \in Proc : q # p => depth'[q] = depth[q]
  <2>1. TypeOK'
    BY <1>3, <1>4, EndKeeps DEF IInv, TypeOK
  <2>2. FramesOK'
    BY <1>3, <1>4, EndKeeps DEF IInv, FramesOK, FrameOK
  <2>3. \A q \in Proc, e \in Depth : InTx(q, e)' => InTx(q, e) /\ ~(q = p /\ e = d)
    BY <1>1, <1>4 DEF InTx, IInv, TypeOK, Depth
  <2>4. CreateTxIsPrivate' /\ OwnWritesOK'
    BY <1>3, <1>4, <2>3, EndKeeps DEF IInv, CreateTxIsPrivate, OwnWritesOK, OpenTx
  <2> QED
    BY <1>3, <2>1, <2>2, <2>4, EndKeeps DEF IInv
<1>5. ASSUME NEW g \in Frame, frame' = SetTop(p, g), FrameOK(p, g), g.pc \in {"spin", "begin"},
             UNCHANGED <<calls, depth, ret>>
      PROVE  IInv'
  <2>1. \A q \in Proc, e \in Depth : frame'[q][e] = IF q = p /\ e = d THEN g ELSE frame[q][e]
    BY <1>1, <1>5, SetTopLemma DEF IInv
  <2>2. TypeOK'
    BY <1>1, <1>3, <1>5, EndKeeps, SetTopLemma DEF IInv, TypeOK
  <2>3. FramesOK'
    BY SMTT(60), <1>3, <1>5, <2>1, EndKeeps DEF IInv, FramesOK, FrameOK
  <2>4. \A q \in Proc, e \in Depth :
          InTx(q, e)' => InTx(q, e) /\ ~(q = p /\ e = d) /\ frame'[q][e] = frame[q][e]
    BY <1>5, <2>1 DEF InTx
  <2>5. CreateTxIsPrivate' /\ OwnWritesOK'
    BY <1>3, <1>5, <2>4, EndKeeps DEF IInv, CreateTxIsPrivate, OwnWritesOK, OpenTx
  <2> QED
    BY <1>3, <2>2, <2>3, <2>5, EndKeeps DEF IInv
<1>6. CASE ReturnErr(p, "err") /\ frame' = frame
  BY <1>1, <1>4, <1>6 DEF ReturnErr, IInv, TypeOK, Depth
<1>7. CASE \E id \in BOOLEAN : AfterCommit(p, id)
  <2>1. CASE frame' = frame /\ ReturnOk(p)
    BY <1>1, <1>4, <2>1 DEF ReturnOk, IInv, TypeOK, Depth
  <2>2. CASE frame' = Goto(p, "spin") /\ Stay
    <3> DEFINE g == [Top(p) EXCEPT !.pc = "spin"]
    <3>1. g \in Frame /\ FrameOK(p, g) /\ g.pc = "spin"
      BY <1>1, <1>2 DEF Frame, FrameOK, Pc
    <3> QED
      BY <1>5, <2>2, <3>1 DEF Goto, Stay
  <2>3. CASE /\ Top(p).i < Len(Top(p).rows) /\ Stay
             /\ frame' = SetTop(p, [Top(p) EXCEPT !.i = @ + 1, !.pc = "begin"])
    <3> DEFINE g == [Top(p) EXCEPT !.i = @ + 1, !.pc = "begin"]
    <3>1. g \in Frame /\ FrameOK(p, g) /\ g.pc = "begin"
      BY <1>1, <1>2, <2>3, NextBatchOK
    <3>2. frame' = SetTop(p, g) /\ UNCHANGED <<calls, depth, ret>>
      BY <2>3 DEF Stay
    <3> HIDE DEF g
    <3> QED
      BY <1>5, <3>1, <3>2
  <2> QED
    BY <1>7, <2>1, <2>2, <2>3 DEF AfterCommit
<1> QED
  BY <1>6, <1>7

----------------------------------------------------------------------------
\* The steps of Update and Delete

LEMMA EnsureCheckKeeps == ASSUME IInv, NEW p \in Proc, EnsureCheck(p) PROVE IInv'
<1> DEFINE pc == IF xtx[Top(p).m] = NoTx THEN "ebegin" ELSE "exec"
           g == [Top(p) EXCEPT !.pc = pc]
<1>1. depth[p] \in Depth /\ Top(p).pc = "ensure" /\ Top(p) \in Frame
  BY TopType DEF IInv, EnsureCheck, At
<1>2. FrameOK(p, Top(p))
  BY <1>1 DEF IInv, FramesOK, Top
<1>3. g \in Frame /\ FrameOK(p, g) /\ g.tx = Top(p).tx /\ g.op = Top(p).op
      /\ g.pc \in {"ebegin", "exec"}
  BY <1>1, <1>2 DEF Frame, FrameOK, Pc
<1>4. frame' = SetTop(p, g) /\ UNCHANGED <<dbVars, xtx, calls, depth, ret>>
  BY DEF EnsureCheck, Goto, Stay
<1> HIDE DEF g
<1> QED
  BY <1>1, <1>3, <1>4, MoveKeeps

LEMMA EnsureBeginKeeps == ASSUME IInv, NEW p \in Proc, EnsureBegin(p) PROVE IInv'
<1> DEFINE d == depth[p]
           m == Top(p).m
           g == [Top(p) EXCEPT !.pc = "exec"]
<1>1. d \in Depth /\ Top(p).pc = "ebegin" /\ Top(p) \in Frame /\ Top(p) = frame[p][d]
  BY TopType DEF IInv, EnsureBegin, At, Top
<1>2. /\ Begin("ensure") /\ xtx' = [xtx EXCEPT ![m] = nextTx] /\ frame' = SetTop(p, g)
      /\ UNCHANGED <<calls, depth, ret>>
  BY DEF EnsureBegin, Goto, Stay
<1>3. nextTx \in Handle /\ nextTx \in 0 .. MaxTx /\ nextTx # NoTx /\ m \in DM
  BY <1>1, <1>2, BeginKeeps DEF Handle, Frame, NoTx
<1>4. FrameOK(p, Top(p)) /\ Top(p).op = "update" /\ Top(p).cap # nextTx
  BY <1>1, <1>3, FreshHandle DEF IInv, FramesOK, FrameOK
<1>5. xtx' \in [DM -> 0 .. MaxTx] /\ xtx'[m] = nextTx /\ \A n \in DM : n # m => xtx'[n] = xtx[n]
  BY <1>2, <1>3 DEF IInv, TypeOK
<1>6. g \in Frame /\ g.op = "update" /\ g.pc = "exec" /\ g.m = m /\ g.cap = Top(p).cap
      /\ g.rows = Top(p).rows /\ g.i = Top(p).i
  BY <1>1, <1>4 DEF Frame, Pc
<1> HIDE DEF g
<1>7. \A q \in Proc, e \in Depth : frame'[q][e] = IF q = p /\ e = d THEN g ELSE frame[q][e]
  BY <1>1, <1>2, SetTopLemma DEF IInv
<1>8. TypeOK'
  BY <1>1, <1>2, <1>5, <1>6, BeginKeeps, SetTopLemma DEF IInv, TypeOK, Begin
<1>9. HandlesOK'
  <2>1. \A n \in DM : xtx'[n] # NoTx => txOwner'[xtx'[n]] \in {"client", "ensure"}
    <3> SUFFICES ASSUME NEW n \in DM, xtx'[n] # NoTx
                 PROVE  txOwner'[xtx'[n]] \in {"client", "ensure"}
      OBVIOUS
    <3>1. CASE n = m
      BY <1>2, <1>5, <3>1, BeginKeeps
    <3>2. CASE n # m
      <4>1. xtx'[n] = xtx[n] /\ xtx[n] \in Handle /\ xtx[n] # nextTx
        BY <1>3, <1>5, <3>2, FreshHandle DEF IInv, TypeOK, Handle, NoTx
      <4> QED
        BY <1>2, <4>1, BeginKeeps DEF IInv, HandlesOK
    <3> QED
      BY <3>1, <3>2
  <2> QED
    BY <1>2, <2>1, BeginKeeps DEF HandlesOK
<1>10. FramesOK'
  <2>1. \A h \in Frame : h.cap # NoTx /\ h.cap # nextTx => txOwner'[h.cap] = txOwner[h.cap]
    BY <1>2, BeginKeeps DEF Frame, Handle, NoTx
  <2>2. \A h \in Frame : xtx[h.m] # NoTx => xtx'[h.m] # NoTx
    BY <1>3, <1>5 DEF Frame
  <2>3. ASSUME NEW q \in Proc, NEW e \in Depth
        PROVE  /\ frame[q][e] \in Frame /\ FrameOK(q, frame[q][e])
               /\ frame[q][e].cap # nextTx
    BY <1>3, FreshHandle DEF IInv, TypeOK, FramesOK
  <2>4. ASSUME NEW q \in Proc, NEW h \in Frame, FrameOK(q, h), h.cap # nextTx
        PROVE  FrameOK(q, h)'
    BY <2>1, <2>2, <2>4 DEF FrameOK
  <2>5. ASSUME NEW h \in Frame, h = g PROVE FrameOK(p, h)'
    <3>1. h.cap # NoTx => txOwner'[h.cap] \in {"client", "ensure"}
      BY <1>4, <1>6, <2>1, <2>5 DEF FrameOK
    <3> QED
      BY <1>1, <1>3, <1>4, <1>5, <1>6, <2>5, <3>1 DEF FrameOK
  <2>6. ASSUME NEW q \in Proc, NEW e \in Depth PROVE FrameOK(q, frame[q][e])'
    <3>1. CASE q = p /\ e = d
      <4>1. frame'[q][e] = g /\ frame'[q][e] \in Frame
        BY <1>6, <1>7, <3>1
      <4> QED
        BY <2>5, <3>1, <4>1 DEF FrameOK
    <3>2. CASE ~(q = p /\ e = d)
      <4>1. frame'[q][e] = frame[q][e] /\ frame'[q][e] \in Frame
        BY <1>7, <2>3, <3>2
      <4> QED
        BY <2>3, <2>4, <4>1 DEF FrameOK
    <3> QED
      BY <3>1, <3>2
  <2> QED
    BY <2>6 DEF FramesOK
<1>11. \A q \in Proc, e \in Depth : InTx(q, e)' => InTx(q, e) /\ frame'[q][e] = frame[q][e]
  BY <1>2, <1>6, <1>7 DEF InTx
<1>12. CreateTxIsPrivate' /\ OwnWritesOK'
  <2>1. ASSUME NEW q \in Proc, NEW e \in Depth, InTx(q, e)'
        PROVE  /\ frame'[q][e].tx \in Handle /\ txState'[frame'[q][e].tx] = "open"
               /\ txOwner'[frame'[q][e].tx] = "create"
    <3>1. InTx(q, e) /\ frame'[q][e] = frame[q][e] /\ frame[q][e].tx # nextTx
      BY <1>3, <1>11, <2>1, FreshHandle
    <3>2. frame[q][e].tx \in OpenTx /\ txOwner[frame[q][e].tx] = "create"
      BY <3>1 DEF IInv, CreateTxIsPrivate
    <3> QED
      BY <1>2, <3>1, <3>2, BeginKeeps DEF OpenTx
  <2>2. CreateTxIsPrivate'
    BY <1>11, <2>1 DEF IInv, CreateTxIsPrivate, OpenTx
  <2>3. OwnWritesOK'
    BY <1>2, <1>11 DEF IInv, OwnWritesOK, Begin
  <2> QED
    BY <2>2, <2>3
<1> QED
  BY <1>2, <1>8, <1>9, <1>10, <1>12, BeginKeeps DEF IInv

LEMMA UpdateExecKeeps == ASSUME IInv, NEW p \in Proc, UpdateExec(p) PROVE IInv'
<1> DEFINE d == depth[p]
           t == xtx[Top(p).m]
           w == WriteOf(p)
           g == ToRelates(Top(p))
<1>1. d \in Depth /\ Top(p).pc = "exec" /\ Top(p) \in Frame /\ Top(p) = frame[p][d]
  BY TopType DEF IInv, UpdateExec, At, Top
<1>2. FrameOK(p, Top(p)) /\ Top(p).rows # <<>> /\ Top(p).op = "update"
  BY <1>1 DEF IInv, FramesOK, FrameOK
<1>3. w \in Write /\ w.op = "update"
  BY <1>1, <1>2, WriteOfType DEF IInv
<1>4. /\ frame' = SetTop(p, g) /\ UNCHANGED <<xtx, calls, depth, ret>>
      /\ txWrites' = [txWrites EXCEPT ![t] = @ \cup {w}] /\ t \in Handle /\ txState[t] = "open"
      /\ UNCHANGED <<txState, txOwner, nextTx, durable>>
  BY SMTT(60) DEF UpdateExec, ExecIn, Stay, OpenTx
<1>5. txOwner[t] \in {"client", "ensure"}
  BY <1>1, <1>4 DEF IInv, HandlesOK, Frame, Handle, NoTx
<1>6. g \in Frame /\ FrameOK(p, g) /\ g.op = "update"
  BY <1>1, <1>2, ToRelatesOK DEF IInv
<1> HIDE DEF g
<1>7. \A q \in Proc, e \in Depth : frame'[q][e] = IF q = p /\ e = d THEN g ELSE frame[q][e]
  BY <1>1, <1>4, SetTopLemma DEF IInv
<1>8. TypeOK'
  BY <1>1, <1>3, <1>4, <1>6, SetTopLemma DEF IInv, TypeOK
<1>9. HandlesOK' /\ WritesOK' /\ OneCallPerTx'
  BY <1>3, <1>4, <1>5 DEF IInv, TypeOK, HandlesOK, WritesOK, OneCallPerTx
<1>10. FramesOK'
  BY <1>4, <1>6, <1>7 DEF IInv, FramesOK, FrameOK
<1>11. \A q \in Proc, e \in Depth : InTx(q, e)' => InTx(q, e) /\ frame'[q][e] = frame[q][e]
  BY <1>4, <1>6, <1>7 DEF InTx
<1>12. CreateTxIsPrivate'
  BY <1>4, <1>11 DEF IInv, CreateTxIsPrivate, OpenTx
<1>13. OwnWritesOK'
  BY <1>4, <1>5, <1>11 DEF IInv, TypeOK, CreateTxIsPrivate, OwnWritesOK, OpenTx
<1> QED
  BY <1>8, <1>9, <1>10, <1>12, <1>13 DEF IInv

LEMMA DeleteRowKeeps == ASSUME IInv, NEW p \in Proc, DeleteRow(p) PROVE IInv'
<1> DEFINE w == WriteOf(p)
<1>1. /\ depth[p] \in Depth /\ Top(p).pc = "delete" /\ (ReturnOk(p) \/ ReturnErr(p, "err"))
      /\ durable' = durable \cup {w}
      /\ UNCHANGED <<txState, txOwner, txWrites, nextTx, xtx, frame>>
  BY DEF DeleteRow, At, ExecAuto
<1>2. w \in Write /\ w.op = "delete"
  <2>1. FrameOK(p, Top(p)) /\ Top(p).rows # <<>> /\ Top(p).op = "delete"
    BY <1>1 DEF IInv, FramesOK, FrameOK, Top
  <2> QED
    BY <1>1, <2>1, WriteOfType DEF IInv
<1>3. depth' \in [Proc -> 0 .. 2] /\ \A q \in Proc : depth'[q] <= depth[q]
  <2>1. PICK n \in {0, depth[p] - 1} : depth' = [depth EXCEPT ![p] = n]
    BY <1>1 DEF ReturnOk, ReturnErr
  <2>2. n \in 0 .. 2 /\ n <= depth[p] /\ depth \in [Proc -> 0 .. 2]
    BY <1>1 DEF IInv, TypeOK, Depth
  <2> QED
    BY <2>1, <2>2
<1>4. calls' = calls /\ ret' \in [Proc -> {"none", "ok", "err", "panic"}]
  BY <1>1 DEF IInv, TypeOK, ReturnOk, ReturnErr
<1>5. TypeOK'
  BY <1>1, <1>2, <1>3, <1>4 DEF IInv, TypeOK
<1>6. HandlesOK' /\ WritesOK' /\ OneCallPerTx'
  BY <1>1, <1>2 DEF IInv, HandlesOK, WritesOK, OneCallPerTx
<1>7. FramesOK'
  BY <1>1 DEF IInv, FramesOK, FrameOK
<1>8. \A q \in Proc, e \in Depth : InTx(q, e)' => InTx(q, e)
  BY <1>1, <1>3 DEF InTx, IInv, TypeOK, Depth
<1>9. CreateTxIsPrivate' /\ OwnWritesOK'
  BY <1>1, <1>4, <1>8 DEF IInv, CreateTxIsPrivate, OwnWritesOK, OpenTx
<1> QED
  BY <1>5, <1>6, <1>7, <1>9 DEF IInv

----------------------------------------------------------------------------
\* The steps of relatesWrite

LEMMA RelatesDoneKeeps == ASSUME IInv, NEW p \in Proc, RelatesDone(p) PROVE IInv'
<1> DEFINE g == [Top(p) EXCEPT !.pc = "commit"]
<1>1. depth[p] \in Depth /\ Top(p).pc = "relates" /\ Top(p) \in Frame /\ FrameOK(p, Top(p))
  BY TopType DEF IInv, RelatesDone, At, FramesOK, Top
<1>2. CASE Top(p).op = "create"
  <2>1. g \in Frame /\ FrameOK(p, g) /\ g.tx = Top(p).tx /\ g.op = Top(p).op
    BY <1>1, <1>2 DEF Frame, FrameOK, Pc
  <2>2. frame' = SetTop(p, g) /\ UNCHANGED <<dbVars, xtx, calls, depth, ret>>
    BY <1>2 DEF RelatesDone, Goto, Stay
  <2> HIDE DEF g
  <2> QED
    BY <1>1, <2>1, <2>2, MoveKeeps
<1>3. CASE Top(p).op # "create"
  BY <1>1, <1>3, LeaveKeeps DEF RelatesDone
<1> QED
  BY <1>2, <1>3

\* The related writes are well formed operations on the DstModel or the source.
LEMMA RelatedFrameOK ==
  ASSUME IInv, NEW p \in Proc, depth[p] \in Depth, NEW r \in Row, NEW f \in RelatedFrame(p, r)
  PROVE  /\ f \in Frame /\ f.cap = NoTx /\ f.rows = <<r>> /\ f.i = 1 /\ f.m \in Model \cup {p}
         /\ <<f.op, f.pc>> \in {<<"create", "begin">>, <<"update", "ensure">>, <<"delete", "delete">>}
<1>1. Top(p) \in Frame /\ Top(p).m \in Model \cup {p}
  BY TopType DEF IInv, FramesOK, FrameOK, Top
<1>2. PICK op \in Op, m \in {p, Top(p).m}, doc \in DocKind, pc \in Pc :
        /\ f = NewFrame(op, m, <<r>>, FALSE, doc, pc)
        /\ <<op, pc>> \in {<<"create", "begin">>, <<"update", "ensure">>, <<"delete", "delete">>}
  BY DEF RelatedFrame, Op, DocKind, Pc
<1>3. m \in DM /\ m \in Model \cup {p} /\ <<r>> \in Seq(Row)
  BY <1>1 DEF DM
<1> QED
  BY <1>2, <1>3, NewFrameType DEF NewFrame

LEMMA RelatesStmtKeeps == ASSUME IInv, NEW p \in Proc, RelatesStmt(p) PROVE IInv'
<1> DEFINE g == [Top(p) EXCEPT !.k = @ + 1]
<1>1. depth[p] = 1 /\ Top(p).pc = "relates" /\ Top(p) \in Frame /\ FrameOK(p, Top(p))
      /\ Top(p) = frame[p][1]
  BY TopType DEF IInv, RelatesStmt, At, FramesOK, Top
<1>2. PICK r \in Row : \E f \in RelatedFrame(p, r) : frame' = [frame EXCEPT ![p] = <<g, f>>]
  BY DEF RelatesStmt
<1>f. PICK f \in RelatedFrame(p, r) : frame' = [frame EXCEPT ![p] = <<g, f>>]
  BY <1>2
<1>3. /\ f \in Frame /\ f.cap = NoTx /\ f.rows = <<r>> /\ f.i = 1 /\ f.m \in Model \cup {p}
      /\ <<f.op, f.pc>> \in {<<"create", "begin">>, <<"update", "ensure">>, <<"delete", "delete">>}
  BY <1>1, RelatedFrameOK DEF Depth
<1>4. /\ g \in Frame /\ g.pc = "relates" /\ g.tx = Top(p).tx /\ g.op = Top(p).op
      /\ g.cap = Top(p).cap /\ FrameOK(p, g)
  <2>1. \A n \in Nat : [Top(p) EXCEPT !.k = n] \in Frame
    BY <1>1 DEF Frame
  <2>2. Top(p).k + 1 \in Nat
    BY <1>1 DEF Frame
  <2>3. g \in Frame
    BY <2>1, <2>2
  <2> QED
    BY <1>1, <2>3 DEF Frame, FrameOK
<1> HIDE DEF g
<1>5. /\ frame' \in [Proc -> [Depth -> Frame]]
      /\ \A q \in Proc, e \in Depth :
           frame'[q][e] = IF q = p THEN IF e = 1 THEN g ELSE f ELSE frame[q][e]
  <2>1. <<g, f>> \in [Depth -> Frame]
    BY <1>3, <1>4 DEF Depth
  <2> QED
    BY <1>f, <2>1 DEF IInv, TypeOK, Depth
<1>6. /\ xtx' = [xtx EXCEPT ![p] = Top(p).cap] /\ depth' = [depth EXCEPT ![p] = 2]
      /\ UNCHANGED <<dbVars, calls, ret>> /\ p \in DM /\ Top(p).cap \in 0 .. MaxTx
  BY <1>1 DEF RelatesStmt, DM, Frame
<1>7. TypeOK'
  BY <1>5, <1>6 DEF IInv, TypeOK, dbVars
<1>8. HandlesOK'
  BY <1>1, <1>6 DEF IInv, TypeOK, HandlesOK, FrameOK, dbVars
<1>9. WritesOK' /\ OneCallPerTx'
  BY <1>6 DEF IInv, WritesOK, OneCallPerTx, dbVars
<1>10. FramesOK'
  <2>1. \A q \in Proc, e \in Depth : q # p => xtx'[frame[q][e].m] = xtx[frame[q][e].m]
    <3>1. \A q \in Proc, e \in Depth : frame[q][e].m \in Model \cup {q} /\ frame[q][e].m \in DM
      BY DEF IInv, TypeOK, FramesOK, FrameOK, Frame
    <3> QED
      BY <1>6, <3>1, ModelAssumption DEF IInv, TypeOK
  <2>2. FrameOK(p, f)
    BY <1>3 DEF FrameOK
  <2>3. ASSUME NEW q \in Proc, NEW e \in Depth PROVE FrameOK(q, frame[q][e])'
    <3>1. CASE q = p /\ e = 1
      BY <1>4, <1>5, <1>6, <3>1 DEF FrameOK, dbVars
    <3>2. CASE q = p /\ e = 2
      <4>1. frame'[q][e] = f /\ f.pc # "exec" /\ f.cap = NoTx
        BY <1>3, <1>5, <3>2
      <4> QED
        BY <2>2, <3>2, <4>1 DEF FrameOK
    <3>3. CASE q # p
      BY <1>5, <1>6, <2>1, <3>3 DEF IInv, FramesOK, FrameOK, dbVars
    <3> QED
      BY <3>1, <3>2, <3>3 DEF Depth
  <2> QED
    BY <2>3 DEF FramesOK
<1>11. \A q \in Proc, e \in Depth :
         InTx(q, e)' => InTx(q, e) /\ frame'[q][e].tx = frame[q][e].tx
  <2>1. ASSUME NEW q \in Proc, NEW e \in Depth, InTx(q, e)'
        PROVE  InTx(q, e) /\ frame'[q][e].tx = frame[q][e].tx
    <3>1. CASE q = p /\ e = 1
      BY <1>1, <1>4, <1>5, <2>1, <3>1 DEF InTx
    <3>2. CASE q = p /\ e = 2
      <4>1. frame'[q][e] = f /\ f.pc \notin {"insert", "relates", "commit"}
        BY <1>3, <1>5, <3>2
      <4> QED
        BY <2>1, <4>1 DEF InTx
    <3>3. CASE q # p
      BY <1>5, <1>6, <2>1, <3>3 DEF InTx, IInv, TypeOK
    <3> QED
      BY <3>1, <3>2, <3>3 DEF Depth
  <2> QED
    BY <2>1
<1>12. CreateTxIsPrivate' /\ OwnWritesOK'
  BY <1>6, <1>11 DEF IInv, CreateTxIsPrivate, OwnWritesOK, OpenTx, dbVars
<1> QED
  BY <1>7, <1>8, <1>9, <1>10, <1>12 DEF IInv

----------------------------------------------------------------------------
\* Theorems

LEMMA StepKeeps == ASSUME IInv, NEW p \in Proc, Step(p) PROVE IInv'
<1>1. CASE CreateNothing(p) \/ CreateBeginErr(p) \/ InsertPanics(p)
  BY <1>1, LeaveKeeps DEF CreateNothing, CreateBeginErr, InsertPanics, At
<1>2. CASE CreateBegin(p) \/ InsertBatch(p) \/ InsertErr(p)
  BY <1>2, CreateBeginKeeps, InsertBatchKeeps, InsertErrKeeps
<1>3. CASE CreateCommit(p) \/ CreateCommitErr(p)
  BY <1>3, CommitKeeps DEF CreateCommit, CreateCommitErr
<1>4. CASE UpdateMapPanic(p) \/ EnsureErr(p) \/ UpdateErr(p)
  BY <1>4, LeaveKeeps DEF UpdateMapPanic, EnsureErr, UpdateErr, At
<1>5. CASE EnsureCheck(p) \/ EnsureBegin(p) \/ UpdateExec(p)
  BY <1>5, EnsureCheckKeeps, EnsureBeginKeeps, UpdateExecKeeps
<1>6. CASE DeleteRow(p)
  BY <1>6, DeleteRowKeeps
<1>7. CASE DeleteErr(p) \/ RelatesErr(p) \/ RelatesPanic(p)
  BY <1>7, LeaveKeeps DEF DeleteErr, RelatesErr, RelatesPanic, At
<1>8. CASE RelatesDone(p) \/ RelatesStmt(p)
  BY <1>8, RelatesDoneKeeps, RelatesStmtKeeps
<1> QED
  BY <1>1, <1>2, <1>3, <1>4, <1>5, <1>6, <1>7, <1>8
     DEF Step, CreateStep, UpdateStep, DeleteStep, RelatesStep

LEMMA NextKeeps == IInv /\ [Next]_vars => IInv'
<1> SUFFICES ASSUME IInv, [Next]_vars PROVE IInv'
  OBVIOUS
<1>1. CASE ClientStep
  BY <1>1, ClientBeginKeeps, ClientEndKeeps, BindModelKeeps DEF ClientStep
<1>2. ASSUME NEW p \in Proc, StartCall(p) \/ Step(p) PROVE IInv'
  BY <1>2, StartCallKeeps, StepKeeps
<1>3. CASE UNCHANGED vars
  BY <1>3 DEF vars, IInv, TypeOK, HandlesOK, WritesOK, FramesOK, FrameOK, CreateTxIsPrivate,
              OwnWritesOK, OneCallPerTx, InTx, OpenTx
<1> QED
  BY <1>1, <1>2, <1>3 DEF Next

\* The inductive invariant holds in every reachable state.
THEOREM Invariance == Spec => []IInv
BY InitIInv, NextKeeps, PTL DEF Spec

\* Every variable keeps its type: in particular no transaction handle, row or
\* batch index is ever out of range.
THEOREM TypeCorrect == Spec => []TypeOK
<1>1. IInv => TypeOK
  BY DEF IInv
<1> QED
  BY <1>1, Invariance, PTL

\* An Update becomes durable only through a transaction that the user began and
\* committed (ensureXtx's transactions are never committed).
THEOREM UpdatesDurable == Spec => []UpdatesDurableOnlyByClient
<1>1. IInv => UpdatesDurableOnlyByClient
  <2> SUFFICES ASSUME IInv, NEW w \in durable, w.op = "update"
               PROVE  \E t \in Handle : txOwner[t] = "client" /\ txState[t] = "committed"
                                        /\ w \in txWrites[t]
    BY DEF UpdatesDurableOnlyByClient
  <2>1. PICK t \in Handle : txState[t] = "committed" /\ w \in txWrites[t]
    BY DEF IInv, WritesOK
  <2>2. txOwner[t] \notin {"create", "ensure", "none"}
    BY <2>1 DEF IInv, WritesOK, HandlesOK
  <2> QED
    BY <2>1, <2>2 DEF IInv, TypeOK
<1> QED
  BY <1>1, Invariance, PTL

\* A transaction holds the updates of any calls or the inserts of one Create.
THEOREM TransactionsSeparate == Spec => []TxHoldsOneKind
<1>1. IInv => TxHoldsOneKind
  BY DEF IInv, WritesOK, OneCallPerTx, TxHoldsOneKind
<1> QED
  BY <1>1, Invariance, PTL

\* The transaction of a running Create is open and its own alone.
THEOREM CreatePrivate == Spec => []CreateTxIsPrivate
<1>1. IInv => CreateTxIsPrivate
  BY DEF IInv
<1> QED
  BY <1>1, Invariance, PTL

\* No Update runs on a nil transaction, also when goroutines share a DataModel.
THEOREM ExecHasTx == Spec => []NoNilExec
<1>1. IInv => NoNilExec
  BY DEF IInv, FramesOK, FrameOK, NoNilExec, At, Top
<1> QED
  BY <1>1, Invariance, PTL
=============================================================================
