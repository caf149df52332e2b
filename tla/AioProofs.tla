----------------------------- MODULE AioProofs -----------------------------
(***************************************************************************)
(* Theorems about Aio, for any clients, addresses and bounds.              *)
(***************************************************************************)
EXTENDS Aio, TLAPS

----------------------------------------------------------------------------
\* Lemmas about the operators of Aio

LEMMA WriteOfType ==
  ASSUME TypeOK, NEW c \in Client
  PROVE  WriteOf(c) \in Write /\ WriteOf(c).kind = req[c].kind
BY DEF TypeOK, WriteOf, Write

\* An outcome changes where the request is and nothing else.
LEMMA OutcomeType ==
  ASSUME TypeOK, NEW c \in Client, NEW r \in {"ok", "err"}, Outcome(c, r)
  PROVE  /\ pc' \in [Client -> {"idle", "load", "act", "panic", "ok", "err"}]
         /\ UNCHANGED <<up, runs, req, sent, reply, acked, ended, given>>
         /\ pc'[c] = r /\ \A d \in Client \ {c} : pc'[d] = pc[d]
BY DEF TypeOK, Outcome

\* Only c's request is at another place, and it claims nothing that it did not.
Claims == LoneKind \cup EndKind \cup {"tx_begin"}
OnlyAt(c) ==
  /\ \A d \in Client \ {c} : pc'[d] = pc[d] /\ req'[d] = req[d] /\ sent'[d] = sent[d]
  /\ up' = up /\ (pc'[c] # "idle" => up)
  /\ ~Succeeds(c, Claims)'

LEMMA OnlyAtKeeps ==
  ASSUME IInv, NEW c \in Client, OnlyAt(c), UNCHANGED <<txStore, born, ended>>, runs' = runs,
         durable \subseteq durable',
         \A t \in Handle : /\ tx[t] # "unused" => tx'[t] # "unused"
                           /\ tx[t] \in {"committed", "rolledback"} => tx'[t] = tx[t]
  PROVE  NoneWhenDown' /\ WritesOK' /\ EndingsOK' /\ BegunOK'
<1>1. \A d \in Client : Succeeds(d, Claims)' => /\ d # c /\ Succeeds(d, Claims) /\ req'[d] = req[d]
                                               /\ WriteOf(d)' = WriteOf(d)
  BY DEF OnlyAt, Succeeds, WriteOf
<1>2. \A d \in Client, K \in {LoneKind, EndKind, {"tx_begin"}} :
        /\ Succeeds(d, K) => Succeeds(d, Claims)
        /\ Succeeds(d, K)' => /\ d # c /\ Succeeds(d, K) /\ req'[d] = req[d]
                              /\ WriteOf(d)' = WriteOf(d)
  BY <1>1 DEF Succeeds, Claims
<1>3. \A d \in Client : req[d].tx # NoTx => req[d].tx \in Handle
  BY DEF IInv, TypeOK, Handle, NoTx
<1>4. WritesOK'
  BY <1>2 DEF IInv, WritesOK
<1>5. BegunOK'
  BY <1>2, <1>3 DEF IInv, BegunOK
<1>6. EndingsOK'
  BY <1>2, <1>3 DEF IInv, EndingsOK
<1>7. NoneWhenDown'
  BY DEF OnlyAt, IInv, NoneWhenDown
<1> QED
  BY <1>4, <1>5, <1>6, <1>7

\* The transactions, the store and what clients know of them stay as they are.
StoreFrame == UNCHANGED <<up, runs, txStore, dbVars, acked, ended, given>>

\* A step that leaves these alone can only break a type.
LEMMA StoreFrameKeeps ==
  ASSUME IInv, StoreFrame, TypeOK', NEW c \in Client, OnlyAt(c)
  PROVE  IInv'
<1>1. NoneWhenDown' /\ WritesOK' /\ EndingsOK' /\ BegunOK'
  BY OnlyAtKeeps DEF StoreFrame, dbVars
<1> QED
  BY <1>1 DEF IInv, StoreFrame, dbVars, GivenOK, HandlesOK, AckedIsDurable, UpdatesNeedCommit,
     EndedOnce, OpenTxInStore

----------------------------------------------------------------------------
\* The invariant

LEMMA InitIInv == Init => IInv
<1> SUFFICES ASSUME Init PROVE IInv
  OBVIOUS
<1>1. TypeOK
  <2>1. NoRequest \in [kind : Kind, id : Addr \cup {NoId}, tx : 0 .. MaxTx]
    BY AioAssumption DEF NoRequest, Kind, NoTx
  <2> QED
    BY <2>1, AioAssumption DEF Init, TypeOK, NoTx, Handle
<1>2. GivenOK /\ HandlesOK /\ AckedIsDurable /\ UpdatesNeedCommit /\ EndedOnce /\ OpenTxInStore
  BY AioAssumption DEF Init, GivenOK, HandlesOK, AckedIsDurable, UpdatesNeedCommit, EndedOnce,
     OpenTxInStore, NoTx
<1>3. NoneWhenDown /\ WritesOK /\ EndingsOK /\ BegunOK
  BY DEF Init, NoneWhenDown, WritesOK, EndingsOK, BegunOK, Succeeds
<1> QED
  BY <1>1, <1>2, <1>3 DEF IInv

\* A crash closes what was open; what was durable, acknowledged or ended stays so.
LEMMA CrashIInv == IInv /\ Crash => IInv'
<1> SUFFICES ASSUME IInv, Crash PROVE IInv'
  OBVIOUS
<1>1. TypeOK'
  <2>1. txStore' \in [Addr -> 0 .. MaxTx]
    BY AioAssumption DEF Crash, NoTx
  <2>2. tx' \in [Handle -> {"unused", "open", "committed", "rolledback"}]
    BY DEF IInv, Crash, TypeOK
  <2>3. /\ pc' \in [Client -> {"idle", "load", "act", "panic", "ok", "err"}]
        /\ reply' \in [Client -> {"none", "ok", "err", "lost"}]
    BY DEF IInv, Crash, TypeOK
  <2>4. NoRequest \in [kind : Kind, id : Addr \cup {NoId}, tx : 0 .. MaxTx]
    BY AioAssumption DEF NoRequest, Kind, NoTx
  <2> QED
    BY <2>1, <2>2, <2>3, <2>4 DEF IInv, Crash, TypeOK
<1>2. GivenOK' /\ HandlesOK'
  <2>1. \A t \in Handle : /\ tx[t] # "unused" => tx'[t] # "unused"
                          /\ tx'[t] \in {"unused", "open"} => tx[t] = "unused"
    BY DEF Crash
  <2>2. HandlesOK'
    BY <2>1 DEF IInv, Crash, HandlesOK
  <2>3. \A c \in Client, a \in Addr : given[c][a] # NoTx => given[c][a] \in Handle
    BY DEF IInv, TypeOK, Handle, NoTx
  <2>4. GivenOK'
    BY <2>1, <2>3 DEF IInv, Crash, GivenOK
  <2> QED
    BY <2>2, <2>4
<1>3. AckedIsDurable' /\ EndedOnce' /\ OpenTxInStore'
  BY DEF IInv, Crash, TypeOK, AckedIsDurable, EndedOnce, OpenTxInStore
<1>4. UpdatesNeedCommit'
  BY DEF IInv, Crash, TypeOK, UpdatesNeedCommit
<1>5. NoneWhenDown' /\ WritesOK' /\ EndingsOK' /\ BegunOK'
  BY DEF Crash, NoneWhenDown, WritesOK, EndingsOK, BegunOK, Succeeds
<1> QED
  BY <1>1, <1>2, <1>3, <1>4, <1>5 DEF IInv

\* Every transaction is from a run before the one that starts; no request waits.
LEMMA RestartIInv == IInv /\ Restart => IInv'
<1> SUFFICES ASSUME IInv, Restart PROVE IInv'
  OBVIOUS
<1>1. TypeOK'
  BY AioAssumption DEF IInv, Restart, dbVars, TypeOK
<1>2. \A t \in Handle : born'[t] < runs' /\ born'[t] \in Nat
  BY AioAssumption DEF IInv, Restart, dbVars, TypeOK, HandlesOK
<1>3. HandlesOK'
  BY <1>2 DEF IInv, Restart, dbVars, TypeOK, HandlesOK
<1>4. GivenOK'
  <2>1. ASSUME NEW c \in Client, NEW a \in Addr, given[c][a] # NoTx
        PROVE  tx[given[c][a]] # "unused" /\ born[given[c][a]] # runs'
    <3>1. given[c][a] \in Handle
      BY <2>1 DEF IInv, TypeOK, Handle, NoTx
    <3> QED
      BY <1>2, <2>1, <3>1 DEF IInv, GivenOK, Restart, dbVars
  <2> QED
    BY <2>1 DEF Restart, dbVars, GivenOK
<1>5. AckedIsDurable' /\ UpdatesNeedCommit' /\ EndedOnce' /\ OpenTxInStore'
  BY DEF IInv, Restart, dbVars, AckedIsDurable, UpdatesNeedCommit, EndedOnce, OpenTxInStore
<1>6. NoneWhenDown' /\ WritesOK' /\ EndingsOK' /\ BegunOK'
  BY DEF IInv, NoneWhenDown, Restart, WritesOK, EndingsOK, BegunOK, Succeeds
<1> QED
  BY <1>1, <1>3, <1>4, <1>5, <1>6 DEF IInv

\* Requests, lookups and outcomes that touch neither store nor transactions
LEMMA RequestIInv ==
  ASSUME IInv, NEW c \in Client,
         \/ Request(c) \/ ConvertErr(c) \/ LoadTx(c) \/ Connect(c) \/ DisconnectAll(c)
         \/ Query(c) \/ Fails(c)
  PROVE  IInv'
<1>1. StoreFrame
  BY DEF StoreFrame, dbVars, Request, ConvertErr, LoadTx, Connect, DisconnectAll, Query, Fails,
     Outcome
<1>2. CASE Request(c)
  <2>1. sent' = [sent EXCEPT ![c] = @ + 1] /\ sent' \in [Client -> 0 .. MaxReqs]
    BY <1>2, AioAssumption DEF Request, IInv, TypeOK
  <2>2. PICK k \in Kind, a \in Addr \cup {NoId} :
          req' = [req EXCEPT ![c] = [kind |-> k, id |-> a, tx |-> NoTx]]
    BY <1>2 DEF Request
  <2>3. [kind |-> k, id |-> a, tx |-> NoTx] \in [kind : Kind, id : Addr \cup {NoId}, tx : 0 .. MaxTx]
    BY AioAssumption DEF NoTx
  <2>4. req' \in [Client -> [kind : Kind, id : Addr \cup {NoId}, tx : 0 .. MaxTx]]
    BY <2>2, <2>3 DEF IInv, TypeOK
  <2>5. pc' = [pc EXCEPT ![c] = "load"]
    BY <1>2 DEF Request
  <2>6. OnlyAt(c)
    BY <1>1, <1>2, <2>1, <2>2, <2>5 DEF OnlyAt, Succeeds, IInv, TypeOK, NoneWhenDown, StoreFrame, Request, LoadTx
  <2>7. TypeOK'
    BY <1>2, <2>1, <2>4, <2>5 DEF Request, dbVars, IInv, TypeOK
  <2> QED
    BY <1>1, <2>6, <2>7, StoreFrameKeeps
<1>3. CASE LoadTx(c)
  <2>1. (IF req[c].id = NoId THEN NoTx ELSE txStore[req[c].id]) \in 0 .. MaxTx
    BY AioAssumption DEF IInv, TypeOK, NoTx
  <2>2. \A u \in 0 .. MaxTx : [req[c] EXCEPT !.tx = u] \in
          [kind : Kind, id : Addr \cup {NoId}, tx : 0 .. MaxTx]
    <3>1. req[c] \in [kind : Kind, id : Addr \cup {NoId}, tx : 0 .. MaxTx]
      BY DEF IInv, TypeOK
    <3> QED
      BY <3>1
  <2>3. PICK u \in 0 .. MaxTx : req' = [req EXCEPT ![c] = [req[c] EXCEPT !.tx = u]]
    BY <1>3, <2>1 DEF LoadTx
  <2>4. req' \in [Client -> [kind : Kind, id : Addr \cup {NoId}, tx : 0 .. MaxTx]]
    BY <2>2, <2>3 DEF IInv, TypeOK
  <2>5. pc' = [pc EXCEPT ![c] = "act"] /\ sent' = sent
    BY <1>3 DEF LoadTx
  <2>6. OnlyAt(c)
    BY <1>1, <1>3, <2>3, <2>5 DEF OnlyAt, Succeeds, IInv, TypeOK, NoneWhenDown, StoreFrame, Request, LoadTx
  <2>7. TypeOK'
    BY <1>3, <2>4, <2>5 DEF LoadTx, dbVars, IInv, TypeOK
  <2> QED
    BY <1>1, <2>6, <2>7, StoreFrameKeeps
<1>4. CASE ConvertErr(c) \/ Connect(c) \/ DisconnectAll(c) \/ Query(c) \/ Fails(c)
  <2>1. PICK r \in {"ok", "err"} : Outcome(c, r) /\ (r = "ok" => req[c].kind \notin Claims)
    BY <1>4 DEF ConvertErr, Connect, DisconnectAll, Query, Fails, Works, Claims, LoneKind, EndKind
  <2>2. connected' \in BOOLEAN
    BY <1>4 DEF ConvertErr, Connect, DisconnectAll, Query, Fails, IInv, TypeOK
  <2>3. TypeOK'
    BY <1>1, <2>1, <2>2, OutcomeType DEF StoreFrame, dbVars, IInv, TypeOK
  <2>4. OnlyAt(c)
    BY <1>4, <2>1, OutcomeType DEF OnlyAt, Succeeds, IInv, NoneWhenDown, ConvertErr, Connect,
       DisconnectAll, Query, Fails, Works
  <2> QED
    BY <1>1, <2>3, <2>4, StoreFrameKeeps
<1> QED
  BY <1>2, <1>3, <1>4

\* A write of another kind than model_update, made outside the transactions, can
\* get durable, and a request that makes a lone one succeeds only when it does.
LEMMA StatementIInv ==
  ASSUME IInv, NEW c \in Client, Exec(c) \/ BatchExec(c) \/ CreateList(c)
  PROVE  IInv'
<1>1. PICK r \in {"ok", "err"} : Outcome(c, r)
  BY DEF Exec, BatchExec, CreateList
<1>2. /\ req[c].kind \notin EndKind \cup {"model_update", "tx_begin"}
      /\ UNCHANGED <<connected, txStore, tx, born, writes>>
      /\ durable' \in {durable, durable \cup {WriteOf(c)}}
      /\ req[c].kind \in LoneKind => durable' = durable \cup {WriteOf(c)}
  BY DEF Exec, BatchExec, CreateList, Works, LoneKind, EndKind
<1>3. UNCHANGED <<up, runs, req, sent, reply, acked, ended, given>>
  BY <1>1 DEF Outcome
<1>4. TypeOK'
  BY <1>1, <1>2, <1>3, OutcomeType, WriteOfType DEF IInv, TypeOK
<1>5. WriteOf(c).kind # "model_update"
  BY <1>2, WriteOfType DEF IInv
<1>6. GivenOK' /\ HandlesOK' /\ EndedOnce' /\ OpenTxInStore' /\ AckedIsDurable'
  BY <1>2, <1>3 DEF IInv, GivenOK, HandlesOK, EndedOnce, OpenTxInStore, AckedIsDurable
<1>7. UpdatesNeedCommit'
  BY <1>2, <1>5 DEF IInv, UpdatesNeedCommit
<1>8. \A d \in Client : /\ WriteOf(d)' = WriteOf(d)
                        /\ \A K : d # c => (Succeeds(d, K)' <=> Succeeds(d, K))
  BY <1>1, <1>3, OutcomeType DEF IInv, WriteOf, Succeeds
<1>9. ~Succeeds(c, EndKind)' /\ ~Succeeds(c, {"tx_begin"})'
      /\ (Succeeds(c, LoneKind)' => req[c].kind \in LoneKind)
  BY <1>2, <1>3 DEF Succeeds
<1>10. WritesOK'
  BY <1>2, <1>8, <1>9 DEF IInv, WritesOK
<1>11. EndingsOK' /\ BegunOK'
  BY <1>2, <1>3, <1>8, <1>9 DEF IInv, EndingsOK, BegunOK
<1>12. NoneWhenDown'
  BY <1>1, <1>3, OutcomeType DEF IInv, NoneWhenDown, Exec, BatchExec, CreateList, Works
<1> QED
  BY <1>4, <1>6, <1>7, <1>10, <1>11, <1>12 DEF IInv

\* An update adds its write to a transaction that is open.
LEMMA UpdateIInv ==
  ASSUME IInv, NEW c \in Client, Update(c)
  PROVE  IInv'
<1> DEFINE t == req[c].tx
<1>1. /\ pc' = [pc EXCEPT ![c] = "panic"]
      /\ writes' = IF t = NoTx THEN writes ELSE [writes EXCEPT ![t] = @ \cup {WriteOf(c)}]
      /\ UNCHANGED <<up, runs, req, sent, reply, connected, txStore, tx, born, durable,
                     acked, ended, given>>
  BY DEF Update
<1>2. writes' \in [Handle -> SUBSET Write] /\ \A u \in Handle : writes[u] \subseteq writes'[u]
  BY <1>1, WriteOfType DEF IInv, TypeOK
<1>3. TypeOK'
  BY <1>1, <1>2 DEF IInv, TypeOK
<1>4. GivenOK' /\ HandlesOK' /\ AckedIsDurable' /\ EndedOnce' /\ OpenTxInStore'
  BY <1>1 DEF IInv, GivenOK, HandlesOK, AckedIsDurable, EndedOnce, OpenTxInStore
<1>5. UpdatesNeedCommit'
  BY <1>1, <1>2 DEF IInv, UpdatesNeedCommit
<1>6. OnlyAt(c)
  BY <1>1 DEF OnlyAt, Succeeds, IInv, TypeOK, NoneWhenDown, Update, Works
<1>7. NoneWhenDown' /\ WritesOK' /\ EndingsOK' /\ BegunOK'
  BY <1>1, <1>6, OnlyAtKeeps
<1> QED
  BY <1>3, <1>4, <1>5, <1>7 DEF IInv

\* A new transaction gets an address that nothing in the store has.
LEMMA BeginIInv ==
  ASSUME IInv, NEW c \in Client, Begin(c)
  PROVE  IInv'
<1>1. PICK t \in Handle, a \in Addr :
        /\ tx[t] = "unused" /\ txStore[a] = NoTx
        /\ tx' = [tx EXCEPT ![t] = "open"] /\ born' = [born EXCEPT ![t] = runs]
        /\ txStore' = [txStore EXCEPT ![a] = t]
        /\ req' = [req EXCEPT ![c].id = a, ![c].tx = t]
        /\ pc' = [pc EXCEPT ![c] = "ok"]
        /\ UNCHANGED <<up, runs, connected, writes, durable, sent, reply, acked, ended, given>>
  BY DEF Begin, BeginAt
<1>2. t \in 0 .. MaxTx /\ t # NoTx
  BY AioAssumption DEF Handle, NoTx
<1>3. /\ req'[c] = [req[c] EXCEPT !.id = a, !.tx = t]
      /\ \A d \in Client \ {c} : req'[d] = req[d] /\ pc'[d] = pc[d]
  BY <1>1 DEF IInv, TypeOK
<1>4. /\ req'[c] \in [kind : Kind, id : Addr \cup {NoId}, tx : 0 .. MaxTx]
      /\ req'[c].kind = req[c].kind /\ req'[c].id = a /\ req'[c].tx = t
  <2>1. req[c] \in [kind : Kind, id : Addr \cup {NoId}, tx : 0 .. MaxTx]
    BY DEF IInv, TypeOK
  <2> QED
    BY <1>2, <1>3, <2>1
<1>5. TypeOK'
  <2>1. req' \in [Client -> [kind : Kind, id : Addr \cup {NoId}, tx : 0 .. MaxTx]]
    BY <1>1, <1>4 DEF IInv, TypeOK
  <2>2. /\ txStore' \in [Addr -> 0 .. MaxTx]
        /\ tx' \in [Handle -> {"unused", "open", "committed", "rolledback"}]
        /\ pc' \in [Client -> {"idle", "load", "act", "panic", "ok", "err"}]
    BY <1>1, <1>2 DEF IInv, TypeOK
  <2>3. born' \in [Handle -> 0 .. MaxRuns]
    BY <1>1, AioAssumption DEF IInv, TypeOK
  <2> QED
    BY <1>1, <2>1, <2>2, <2>3 DEF IInv, TypeOK
<1>6. \A u \in Handle : u # t => tx'[u] = tx[u] /\ born'[u] = born[u]
  BY <1>1 DEF IInv, TypeOK
<1>7. tx'[t] = "open" /\ born'[t] = runs /\ txStore'[a] = t
      /\ \A b \in Addr : txStore[b] # NoTx => b # a /\ txStore'[b] = txStore[b]
  BY <1>1 DEF IInv, TypeOK
<1>8. GivenOK'
  <2> SUFFICES ASSUME NEW d \in Client, NEW b \in Addr, given[d][b] # NoTx
               PROVE  /\ tx'[given[d][b]] # "unused"
                      /\ (up /\ born'[given[d][b]] = runs) => txStore'[b] = given[d][b]
    BY <1>1 DEF GivenOK
  <2>1. given[d][b] \in Handle /\ tx[given[d][b]] # "unused"
    BY DEF IInv, TypeOK, GivenOK, Handle, NoTx
  <2> QED
    BY <1>1, <1>6, <1>7, <2>1 DEF IInv, GivenOK
<1>9. HandlesOK'
  BY <1>1, <1>6, <1>7, AioAssumption DEF IInv, TypeOK, HandlesOK
<1>10. AckedIsDurable' /\ EndedOnce'
  BY <1>1 DEF IInv, AckedIsDurable, EndedOnce
<1>11. UpdatesNeedCommit'
  BY <1>1, <1>6 DEF IInv, TypeOK, UpdatesNeedCommit
<1>12. OpenTxInStore'
  <2> SUFFICES ASSUME NEW u \in Handle, tx'[u] = "open"
               PROVE  \E b \in Addr : txStore'[b] = u
    BY DEF OpenTxInStore
  <2>1. CASE u = t
    BY <1>7, <2>1
  <2>2. CASE u # t
    <3>1. tx[u] = "open" /\ u # NoTx
      BY <1>6, <2>2 DEF Handle, NoTx
    <3>2. PICK b \in Addr : txStore[b] = u
      BY <3>1 DEF IInv, OpenTxInStore
    <3> QED
      BY <1>7, <3>1, <3>2
  <2> QED
    BY <2>1, <2>2
<1>13. req[c].kind = "tx_begin"
  BY DEF Begin, BeginAt, Works
<1>14. \A d \in Client, K \in {LoneKind, EndKind, {"tx_begin"}} :
         Succeeds(d, K)' => \/ d = c /\ K = {"tx_begin"}
                            \/ /\ d # c /\ Succeeds(d, K) /\ req'[d] = req[d]
                               /\ WriteOf(d)' = WriteOf(d)
  BY <1>1, <1>3, <1>4, <1>13 DEF Succeeds, LoneKind, EndKind, WriteOf
<1>15. \A d \in Client : req[d].tx # NoTx => req[d].tx \in Handle
  BY DEF IInv, TypeOK, Handle, NoTx
<1>16. LoneKind # {"tx_begin"} /\ EndKind # {"tx_begin"}
  BY DEF LoneKind, EndKind
<1>17. WritesOK'
  BY <1>1, <1>14, <1>16 DEF IInv, WritesOK
<1>18. EndingsOK'
  <2>1. \A d \in Client : Succeeds(d, EndKind)' => Succeeds(d, EndKind) /\ req'[d] = req[d]
    BY <1>14, <1>16
  <2>2. \A d \in Client : Succeeds(d, EndKind) =>
          /\ req[d].tx # NoTx /\ ended[req[d].tx] = 0
          /\ tx'[req[d].tx] \in {"committed", "rolledback"}
    BY <1>1, <1>6, <1>15 DEF IInv, EndingsOK
  <2>3. ASSUME NEW d \in Client, NEW e \in Client \ {d}, Succeeds(d, EndKind), Succeeds(e, EndKind)
        PROVE  req[e].tx # req[d].tx
    BY <2>3 DEF IInv, EndingsOK
  <2>4. \A d \in Client : Succeeds(d, EndKind)' =>
          /\ req'[d].tx # NoTx /\ ended'[req'[d].tx] = 0
          /\ tx'[req'[d].tx] \in {"committed", "rolledback"}
    BY ZenonT(60), <1>1, <2>1, <2>2
  <2> QED
    BY <2>1, <2>3, <2>4 DEF EndingsOK
<1>19. BegunOK'
  <2> SUFFICES ASSUME NEW d \in Client, Succeeds(d, {"tx_begin"})'
               PROVE  /\ req'[d].id \in Addr /\ req'[d].tx # NoTx /\ tx'[req'[d].tx] # "unused"
                      /\ txStore'[req'[d].id] = req'[d].tx /\ born'[req'[d].tx] = runs'
    BY DEF BegunOK
  <2>1. CASE d = c
    BY <1>1, <1>2, <1>4, <1>7, <2>1
  <2>2. CASE d # c
    <3>1. Succeeds(d, {"tx_begin"}) /\ req'[d] = req[d]
      BY <1>14, <2>2
    <3>2. /\ req[d].id \in Addr /\ req[d].tx \in Handle /\ tx[req[d].tx] # "unused"
          /\ txStore[req[d].id] = req[d].tx /\ born[req[d].tx] = runs /\ req[d].tx # NoTx
      BY <1>15, <3>1 DEF IInv, BegunOK
    <3>3. req[d].tx # t
      BY <1>1, <3>2
    <3> QED
      BY ZenonT(60), <1>1, <1>6, <1>7, <3>1, <3>2, <3>3
  <2> QED
    BY <2>1, <2>2
<1>20. NoneWhenDown'
  BY <1>1 DEF IInv, TypeOK, NoneWhenDown, Begin, BeginAt, Works
<1> QED
  BY <1>5, <1>8, <1>9, <1>10, <1>11, <1>12, <1>17, <1>18, <1>19, <1>20 DEF IInv

\* Only the first to end a transaction succeeds, and a commit makes all of its
\* writes durable.
LEMMA EndIInv ==
  ASSUME IInv, NEW c \in Client, End(c)
  PROVE  IInv'
<1> DEFINE t == req[c].tx
<1>1. t \in Handle /\ req[c].kind \in EndKind
  BY DEF End, Ending, IInv, TypeOK, Handle, NoTx
<1>2. PICK r \in {"ok", "err"} : Outcome(c, r) /\ (tx[t] # "open" => r = "err")
  BY DEF End
<1>3. UNCHANGED <<up, runs, connected, txStore, born, writes, req, sent, reply, acked, ended, given>>
  BY <1>2 DEF End, Outcome
<1>4. pc'[c] = r /\ \A d \in Client \ {c} : pc'[d] = pc[d]
  BY <1>2, OutcomeType DEF IInv
<1>5. CASE tx[t] # "open"
  <2>1. UNCHANGED <<tx, durable>>
    BY <1>5 DEF End
  <2>2. StoreFrame
    BY <1>3, <2>1 DEF StoreFrame, dbVars
  <2>3. TypeOK'
    BY <1>2, <1>3, <2>1, OutcomeType DEF IInv, TypeOK
  <2>4. OnlyAt(c)
    BY <1>2, <1>3, <1>4, <1>5 DEF OnlyAt, Succeeds, IInv, NoneWhenDown, End, Ending
  <2> QED
    BY <2>2, <2>3, <2>4, StoreFrameKeeps
<1>6. CASE tx[t] = "open"
  <2>1. PICK s \in {"committed", "rolledback"} :
          /\ tx' = [tx EXCEPT ![t] = s]
          /\ durable' = IF s = "committed" THEN durable \cup writes[t] ELSE durable
    BY <1>6 DEF End
  <2>2. ended[t] = 0
    BY <1>1, <1>6 DEF IInv, HandlesOK
  <2>3. TypeOK'
    <3>1. durable' \in SUBSET Write
      BY <1>1, <2>1 DEF IInv, TypeOK
    <3>2. tx' \in [Handle -> {"unused", "open", "committed", "rolledback"}]
      BY <1>1, <2>1 DEF IInv, TypeOK
    <3> QED
      BY <1>2, <1>3, <3>1, <3>2, OutcomeType DEF IInv, TypeOK
  <2>4. \A u \in Handle : tx'[u] = IF u = t THEN s ELSE tx[u]
    BY <2>1 DEF IInv, TypeOK
  <2>5. GivenOK'
    <3>1. \A d \in Client, a \in Addr : given[d][a] # NoTx => given[d][a] \in Handle
      BY DEF IInv, TypeOK, Handle, NoTx
    <3> QED
      BY <1>3, <2>4, <3>1 DEF IInv, GivenOK
  <2>6. HandlesOK' /\ EndedOnce'
    BY <1>3, <2>4 DEF IInv, HandlesOK, EndedOnce
  <2>7. AckedIsDurable'
    BY <1>3, <2>1 DEF IInv, AckedIsDurable
  <2>8. UpdatesNeedCommit'
    BY <1>1, <1>3, <1>6, <2>1, <2>4 DEF IInv, UpdatesNeedCommit
  <2>9. OpenTxInStore'
    BY <1>3, <2>4 DEF IInv, OpenTxInStore
  <2>10. \A d \in Client, K \in {LoneKind, EndKind, {"tx_begin"}} :
           Succeeds(d, K)' => (d = c /\ K = EndKind) \/ (d # c /\ Succeeds(d, K))
    BY <1>1, <1>3, <1>4 DEF Succeeds, LoneKind, EndKind
  <2>11. \A d \in Client : req[d].tx # NoTx => req[d].tx \in Handle
    BY DEF IInv, TypeOK, Handle, NoTx
  <2>12. EndKind # LoneKind /\ EndKind # {"tx_begin"}
    BY DEF LoneKind, EndKind
  <2>13. WritesOK' /\ BegunOK'
    BY <1>3, <2>1, <2>4, <2>10, <2>11, <2>12 DEF IInv, WritesOK, BegunOK, WriteOf
  <2>14. \A d \in Client : Succeeds(d, EndKind) => req[d].tx \in Handle /\ req[d].tx # t
    BY <1>6, <2>11 DEF IInv, EndingsOK
  <2>15. EndingsOK'
    <3> SUFFICES ASSUME NEW d \in Client, Succeeds(d, EndKind)'
                 PROVE  /\ req[d].tx # NoTx /\ tx'[req[d].tx] \in {"committed", "rolledback"}
                        /\ ended[req[d].tx] = 0
                        /\ \A e \in Client \ {d} : Succeeds(e, EndKind)' => req[e].tx # req[d].tx
      BY <1>3 DEF EndingsOK
    <3>1. CASE d = c
      BY <1>1, <2>2, <2>4, <2>10, <2>14, <3>1 DEF Handle, NoTx
    <3>2. CASE d # c
      BY <2>4, <2>10, <2>14, <3>2 DEF IInv, EndingsOK
    <3> QED
      BY <3>1, <3>2
  <2>16. NoneWhenDown'
    BY <1>3, <1>4 DEF IInv, NoneWhenDown, End, Ending
  <2> QED
    BY <2>3, <2>5, <2>6, <2>7, <2>8, <2>9, <2>13, <2>15, <2>16 DEF IInv
<1> QED
  BY <1>5, <1>6

\* What a client is told is what its request claims.
LEMMA AnswerIInv ==
  ASSUME IInv, NEW c \in Client, Answer(c)
  PROVE  IInv'
<1> DEFINE t == req[c].tx
<1> DEFINE a == req[c].id
<1>1. /\ pc[c] \in {"ok", "err"}
      /\ reply' = [reply EXCEPT ![c] = pc[c]]
      /\ pc' = [pc EXCEPT ![c] = "idle"] /\ req' = [req EXCEPT ![c] = NoRequest]
      /\ UNCHANGED <<up, runs, connected, txStore, tx, born, writes, durable, sent>>
  BY DEF Answer, dbVars
<1>2. pc'[c] = "idle" /\ \A d \in Client \ {c} : pc'[d] = pc[d] /\ req'[d] = req[d]
  BY <1>1 DEF IInv, TypeOK
<1>3. \A d \in Client, K \in {LoneKind, EndKind, {"tx_begin"}} :
        Succeeds(d, K)' => /\ d # c /\ Succeeds(d, K) /\ req'[d] = req[d]
                           /\ WriteOf(d)' = WriteOf(d)
  BY <1>1, <1>2 DEF Succeeds, WriteOf
<1>4. Succeeds(c, EndKind) => t \in Handle /\ tx[t] \in {"committed", "rolledback"} /\ ended[t] = 0
  BY DEF IInv, TypeOK, EndingsOK, Handle, NoTx
<1>5. \A u \in Handle : ended'[u] = IF Succeeds(c, EndKind) /\ u = t THEN 1 ELSE ended[u]
  BY <1>4 DEF Answer, IInv, TypeOK
<1>6. ended' \in [Handle -> Nat]
  <2>1. ended \in [Handle -> Nat] /\ (Succeeds(c, EndKind) => ended[t] + 1 \in Nat)
    BY <1>4 DEF IInv, TypeOK
  <2> QED
    BY <2>1 DEF Answer
<1>7. Succeeds(c, {"tx_begin"}) => /\ a \in Addr /\ t \in Handle /\ tx[t] # "unused"
                                   /\ txStore[a] = t /\ born[t] = runs
  BY DEF IInv, TypeOK, BegunOK, Handle, NoTx
<1>8. given' \in [Client -> [Addr -> 0 .. MaxTx]]
  BY <1>7 DEF Answer, IInv, TypeOK, Handle
<1>9. \A d \in Client, b \in Addr :
        \/ given'[d][b] = given[d][b]
        \/ Succeeds(c, {"tx_begin"}) /\ b = a /\ given'[d][b] = t
  BY <1>7 DEF Answer, IInv, TypeOK
<1>10. acked' \subseteq acked \cup {WriteOf(c)}
       /\ (WriteOf(c) \in acked' \ acked => req[c].kind = "exec_batch" \/ Succeeds(c, LoneKind))
  BY DEF Answer, Succeeds
<1>11. TypeOK'
  <2>1. NoRequest \in [kind : Kind, id : Addr \cup {NoId}, tx : 0 .. MaxTx]
    BY AioAssumption DEF NoRequest, Kind, NoTx
  <2>2. req' \in [Client -> [kind : Kind, id : Addr \cup {NoId}, tx : 0 .. MaxTx]]
    BY <1>1, <2>1 DEF IInv, TypeOK
  <2>3. /\ pc' \in [Client -> {"idle", "load", "act", "panic", "ok", "err"}]
        /\ reply' \in [Client -> {"none", "ok", "err", "lost"}]
    BY <1>1 DEF IInv, TypeOK
  <2>4. acked' \in SUBSET Write
    BY <1>10, WriteOfType DEF IInv, TypeOK
  <2> QED
    BY <1>1, <1>6, <1>8, <2>2, <2>3, <2>4 DEF IInv, TypeOK
<1>12. GivenOK'
  BY <1>1, <1>7, <1>9 DEF IInv, GivenOK
<1>13. HandlesOK'
  BY <1>1, <1>4, <1>5 DEF IInv, HandlesOK
<1>14. NoneWhenDown'
  BY <1>1, <1>2 DEF IInv, NoneWhenDown
<1>15. WritesOK' /\ BegunOK'
  BY <1>1, <1>3 DEF IInv, WritesOK, BegunOK
<1>16. EndingsOK'
  <2> SUFFICES ASSUME NEW d \in Client, Succeeds(d, EndKind)'
               PROVE  /\ req'[d].tx # NoTx /\ tx[req'[d].tx] \in {"committed", "rolledback"}
                      /\ ended'[req'[d].tx] = 0
                      /\ \A e \in Client \ {d} : Succeeds(e, EndKind)' => req'[e].tx # req'[d].tx
    BY <1>1 DEF EndingsOK
  <2>1. d # c /\ Succeeds(d, EndKind) /\ req'[d] = req[d]
    BY <1>3
  <2>2. /\ req[d].tx \in Handle /\ req[d].tx # NoTx /\ ended[req[d].tx] = 0
        /\ tx[req[d].tx] \in {"committed", "rolledback"}
        /\ \A e \in Client \ {d} : Succeeds(e, EndKind) => req[e].tx # req[d].tx
    BY <2>1 DEF IInv, TypeOK, EndingsOK, Handle, NoTx
  <2>3. ended'[req[d].tx] = 0
    BY <1>5, <2>1, <2>2
  <2> QED
    BY <1>3, <2>1, <2>2, <2>3
<1>17. AckedIsDurable'
  BY <1>1, <1>10, WriteOfType DEF IInv, AckedIsDurable, WritesOK
<1>18. EndedOnce'
  BY <1>5 DEF IInv, EndedOnce
<1>19. UpdatesNeedCommit' /\ OpenTxInStore'
  BY <1>1 DEF IInv, UpdatesNeedCommit, OpenTxInStore
<1> QED
  BY <1>11, <1>12, <1>13, <1>14, <1>15, <1>16, <1>17, <1>18, <1>19 DEF IInv

LEMMA NextIInv == IInv /\ [Next]_vars => IInv'
<1> SUFFICES ASSUME IInv, [Next]_vars PROVE IInv'
  OBVIOUS
<1>1. CASE Restart
  BY <1>1, RestartIInv
<1>2. ASSUME NEW c \in Client, Request(c) \/ HandleAio(c) PROVE IInv'
  <2>1. CASE \/ Request(c) \/ ConvertErr(c) \/ LoadTx(c) \/ Connect(c) \/ DisconnectAll(c)
             \/ Query(c) \/ Fails(c)
    BY <2>1, RequestIInv
  <2>2. CASE NoSession(c) \/ CreatePanics(c) \/ UpdatePanics(c) \/ EndUnknown(c)
    BY <2>2, CrashIInv DEF NoSession, CreatePanics, UpdatePanics, EndUnknown
  <2>3. CASE Exec(c) \/ BatchExec(c) \/ CreateList(c)
    BY <2>3, StatementIInv
  <2>4. CASE Update(c)
    BY <2>4, UpdateIInv
  <2>5. CASE Begin(c)
    BY <2>5, BeginIInv
  <2>6. CASE End(c)
    BY <2>6, EndIInv
  <2>7. CASE Answer(c)
    BY <2>7, AnswerIInv
  <2> QED
    BY <1>2, <2>1, <2>2, <2>3, <2>4, <2>5, <2>6, <2>7 DEF HandleAio
<1>3. CASE UNCHANGED vars
  <2>1. TypeOK'
    BY <1>3 DEF vars, dbVars, IInv, TypeOK
  <2> QED
    BY <1>3, <2>1 DEF vars, dbVars, IInv, GivenOK, HandlesOK, NoneWhenDown, WritesOK, EndingsOK,
       BegunOK, Succeeds, WriteOf, AckedIsDurable, UpdatesNeedCommit, EndedOnce, OpenTxInStore
<1> QED
  BY <1>1, <1>2, <1>3 DEF Next

----------------------------------------------------------------------------
\* Theorems

\* IInv holds in every state of txStore, its transactions and its clients' requests.
THEOREM Invariance == Spec => []IInv
BY InitIInv, NextIInv, PTL DEF Spec

\* HandleAio keeps every variable in its type, whatever ids clients send.
THEOREM TypeCorrect == Spec => []TypeOK
<1>1. IInv => TypeOK
  BY DEF IInv
<1> QED
  BY Invariance, <1>1, PTL

\* txStore never lets an id mean another transaction than the one it was given out
\* for while the process runs.
THEOREM IdsKeepMeaning == Spec => []IdKeepsMeaning
<1>1. IInv => IdKeepsMeaning
  BY DEF IInv, GivenOK, IdKeepsMeaning
<1> QED
  BY Invariance, <1>1, PTL

\* A write that HandleAio answered with success is stored, through any crash.
THEOREM AckedWritesAreDurable == Spec => []AckedIsDurable
<1>1. IInv => AckedIsDurable
  BY DEF IInv
<1> QED
  BY Invariance, <1>1, PTL

\* The write of a model_update gets durable only with a transaction that a client
\* committed.
THEOREM UpdatesAreCommitted == Spec => []UpdatesNeedCommit
<1>1. IInv => UpdatesNeedCommit
  BY DEF IInv
<1> QED
  BY Invariance, <1>1, PTL

\* Of all clients that send tx_commit or tx_rollback with one id, at most one is
\* told that it ended the transaction.
THEOREM OneClientEnds == Spec => []EndedOnce
<1>1. IInv => EndedOnce
  BY DEF IInv
<1> QED
  BY Invariance, <1>1, PTL

\* Nobody can lose the id of an open transaction of txStore.
THEOREM OpenIsReachable == Spec => []OpenTxInStore
<1>1. IInv => OpenTxInStore
  BY DEF IInv
<1> QED
  BY Invariance, <1>1, PTL

----------------------------------------------------------------------------
\* HandleAio implements Sessions

\* An id that a client was given in this run is in the store.
LEMMA NamedIs ==
  ASSUME IInv, NEW c \in Client, ~Succeeds(c, {"tx_begin"})
  PROVE  /\ Named(c) \in Holds[c] \cup {NoTx}
         /\ Named(c) # NoTx => /\ Named(c) \in Handle /\ req[c].id \in Addr
                               /\ txStore[req[c].id] = Named(c)
<1>1. CASE req[c].id = NoId
  BY <1>1 DEF Named
<1>2. CASE req[c].id # NoId
  <2>1. req[c].id \in Addr
    BY <1>2 DEF IInv, TypeOK
  <2>2. Holds[c] = {t \in Handle : up /\ born[t] = runs /\ \E a \in Addr : given[c][a] = t}
    BY DEF Holds
  <2>3. Named(c) # NoTx => Named(c) \in Holds[c] /\ Named(c) = given[c][req[c].id]
    BY <1>2 DEF Named
  <2> QED
    BY <2>1, <2>2, <2>3 DEF IInv, GivenOK
<1> QED
  BY <1>1, <1>2

LEMMA HoldsSame ==
  ASSUME NEW c \in Client, up' = up, runs' = runs, born' = born, given'[c] = given[c]
  PROVE  Holds'[c] = Holds[c]
BY DEF Holds

LEMMA NamedSame ==
  ASSUME NEW c \in Client, Holds'[c] = Holds[c], given'[c] = given[c], req'[c] = req[c],
         Succeeds(c, {"tx_begin"})' <=> Succeeds(c, {"tx_begin"})
  PROVE  Named(c)' = Named(c)
BY DEF Named

\* The outcome of c's request, as clients see it
Out(c) == IF pc[c] \in {"ok", "err"} THEN pc[c] ELSE "none"

LEMMA AskedIs ==
  ASSUME IInv, NEW c \in Client
  PROVE  /\ pc[c] = "idle" <=> ~S!Asking(c)
         /\ pc[c] # "idle" =>
              /\ Asked[c] = [kind |-> req[c].kind, tx |-> Named(c), w |-> WriteOf(c), out |-> Out(c)]
              /\ Asked[c].kind = req[c].kind /\ Asked[c].w = WriteOf(c)
              /\ Asked[c].tx = Named(c) /\ Asked[c].out = Out(c)
         /\ pc[c] \in {"load", "act", "panic"} => S!Working(c)
         /\ pc[c] \in {"ok", "err"} => S!Asking(c) /\ ~S!Working(c)
<1>1. req[c].kind # "none"
  BY DEF IInv, TypeOK, Kind, SessionKind, ModelKind, WriteKind, EndKind
<1>2. Asked[c] = IF pc[c] = "idle" THEN [kind |-> "none"]
                 ELSE [kind |-> req[c].kind, tx |-> Named(c), w |-> WriteOf(c), out |-> Out(c)]
  BY DEF Asked, Out
<1>3. CASE pc[c] = "idle"
  BY <1>2, <1>3 DEF S!Asking, S!Idle
<1>4. CASE pc[c] # "idle"
  <2>1. /\ Asked[c] = [kind |-> req[c].kind, tx |-> Named(c), w |-> WriteOf(c), out |-> Out(c)]
        /\ Asked[c].kind = req[c].kind /\ Asked[c].w = WriteOf(c)
        /\ Asked[c].tx = Named(c) /\ Asked[c].out = Out(c)
    BY <1>2, <1>4
  <2>2. Asked[c] # [kind |-> "none"]
    BY <1>1, <2>1
  <2>3. pc[c] \in {"load", "act", "panic"} => Out(c) = "none"
    BY DEF Out
  <2>4. pc[c] \in {"ok", "err"} => Out(c) # "none"
    BY DEF Out
  <2> QED
    BY <1>4, <2>1, <2>2, <2>3, <2>4 DEF S!Asking, S!Idle, S!Working
<1> QED
  BY <1>3, <1>4

\* A client whose request a step does not touch asks what it asked.
LEMMA AskedSame ==
  ASSUME NEW c \in Client, pc'[c] = "idle" <=> pc[c] = "idle", req'[c].kind = req[c].kind,
         sent'[c] = sent[c], Named(c)' = Named(c), Out(c)' = Out(c)
  PROVE  Asked'[c] = Asked[c]
BY DEF Asked, WriteOf, Out

\* What clients were given, in this run of the process, stays as it is.
SameIds == UNCHANGED <<up, runs, born, given>>

LEMMA SameHolds ==
  ASSUME SameIds
  PROVE  /\ Holds' = Holds
         /\ \A c \in Client :
              (req'[c] = req[c] /\ (Succeeds(c, {"tx_begin"})' <=> Succeeds(c, {"tx_begin"})))
                => Named(c)' = Named(c)
<1>1. Holds' = Holds
  BY DEF SameIds, Holds
<1> QED
  BY <1>1 DEF SameIds, Named

\* The requests of the others are as they were.
LEMMA OthersSame ==
  ASSUME IInv, SameIds, NEW c \in Client,
         \A d \in Client \ {c} : pc'[d] = pc[d] /\ req'[d] = req[d] /\ sent'[d] = sent[d]
  PROVE  /\ Holds' = Holds
         /\ \A d \in Client \ {c} : Named(d)' = Named(d) /\ Asked'[d] = Asked[d]
<1>1. \A d \in Client \ {c} : /\ Succeeds(d, {"tx_begin"})' <=> Succeeds(d, {"tx_begin"})
                              /\ Out(d)' = Out(d)
  BY DEF Succeeds, Out
<1>2. Holds' = Holds /\ \A d \in Client \ {c} : Named(d)' = Named(d)
  BY <1>1, SameHolds
<1> QED
  BY <1>1, <1>2, AskedSame

LEMMA LookedUpKept ==
  ASSUME RInv, NEW c \in Client,
         \A d \in Client \ {c} : pc'[d] = pc[d] /\ req'[d] = req[d] /\ Named(d)' = Named(d),
         (pc'[c] \in {"act", "panic"} /\ Named(c)' # NoTx) => req'[c].tx = Named(c)'
  PROVE  LookedUpOK'
BY DEF RInv, LookedUpOK

LEMMA NumbersKept ==
  ASSUME RInv, NEW c \in Client, sent' = sent,
         \A w \in durable' : Made(w) \/ w = WriteOf(c),
         \A t \in Handle : \A w \in writes'[t] : Made(w) \/ w = WriteOf(c)
  PROVE  NumbersOK'
<1>1. Made(WriteOf(c))
  BY DEF RInv, IInv, TypeOK, Made, WriteOf
<1>2. \A w : Made(w)' <=> Made(w)
  BY DEF Made
<1> QED
  BY <1>1, <1>2 DEF NumbersOK

\* What is written is as it was, and so is what the writes are numbered by.
LEMMA NumbersSame ==
  ASSUME RInv, UNCHANGED <<sent, durable, writes>>
  PROVE  NumbersOK'
BY DEF RInv, NumbersOK, Made

LEMMA InitRInv == Init => RInv /\ S!Init
<1> SUFFICES ASSUME Init PROVE RInv /\ S!Init
  OBVIOUS
<1>1. IInv
  BY InitIInv
<1>2. LookedUpOK /\ NumbersOK
  BY DEF Init, LookedUpOK, NumbersOK
<1>3. Holds = [c \in Client |-> {}]
  BY <1>1 DEF Init, Holds, NoTx, Handle
<1>4. Asked = [c \in Client |-> S!Idle]
  BY DEF Init, Asked, S!Idle
<1> QED
  BY <1>1, <1>2, <1>3, <1>4 DEF RInv, Init, S!Init

\* A step that is one of a session, or that clients see nothing of
Maps == S!Next \/ UNCHANGED S!vars

LEMMA RequestMaps ==
  ASSUME RInv, NEW c \in Client, Request(c)
  PROVE  LookedUpOK' /\ NumbersOK' /\ Maps
<1>1. /\ up /\ pc[c] = "idle" /\ sent[c] < MaxReqs
      /\ sent' = [sent EXCEPT ![c] = @ + 1] /\ pc' = [pc EXCEPT ![c] = "load"]
      /\ UNCHANGED <<up, runs, connected, txStore, tx, born, writes, durable, reply, acked, ended, given>>
  BY DEF Request, dbVars
<1>2. PICK k \in Kind, a \in Addr \cup {NoId} :
        req' = [req EXCEPT ![c] = [kind |-> k, id |-> a, tx |-> NoTx]]
  BY DEF Request
<1>3. /\ pc'[c] = "load" /\ req'[c].kind = k /\ sent'[c] = sent[c] + 1
      /\ \A d \in Client \ {c} : pc'[d] = pc[d] /\ req'[d] = req[d] /\ sent'[d] = sent[d]
  BY <1>1, <1>2 DEF RInv, IInv, TypeOK
<1>4. Holds' = Holds /\ \A d \in Client \ {c} : Named(d)' = Named(d) /\ Asked'[d] = Asked[d]
  BY <1>1, <1>3, OthersSame DEF SameIds, RInv
<1>5. LookedUpOK'
  BY <1>3, <1>4, LookedUpKept
<1>6. \A d \in Client : sent[d] <= sent'[d] /\ sent[d] \in Nat /\ sent'[d] \in Nat
  BY <1>1, <1>3 DEF RInv, IInv, TypeOK
<1>7. (\A w \in durable : w \in Write) /\ (\A t \in Handle : \A w \in writes[t] : w \in Write)
  BY DEF RInv, IInv, TypeOK
<1>8. \A w \in Write : Made(w) => Made(w)'
  BY <1>6 DEF Made, Write
<1>9. NumbersOK'
  BY <1>1, <1>7, <1>8 DEF RInv, NumbersOK
<1>10. S!Ask(c)
  <2>1. ~S!Asking(c)
    BY <1>1, AskedIs DEF RInv
  <2>2. Asked'[c] = [kind |-> k, tx |-> Named(c)', w |-> WriteOf(c)', out |-> "none"]
    BY <1>3 DEF Asked
  <2>3. Asked' = [Asked EXCEPT ![c] = Asked'[c]]
    BY ZenonT(60), <1>4 DEF Asked
  <2>4. Named(c)' \in Holds[c] \cup {NoTx}
    BY <1>3, <1>4 DEF Named, Succeeds
  <2>5. WriteOf(c)' \in Write /\ WriteOf(c)'.n = sent[c] + 1 /\ WriteOf(c)'.c = c
    <3>1. WriteOf(c)' = [kind |-> k, c |-> c, n |-> sent[c] + 1]
      BY <1>3 DEF WriteOf
    <3>2. sent[c] + 1 \in 0 .. MaxReqs
      BY <1>1, AioAssumption DEF RInv, IInv, TypeOK
    <3> QED
      BY <3>1, <3>2 DEF Write
  <2>6. ~Made(WriteOf(c)')
    BY <1>6, <2>5 DEF Made
  <2>7. WriteOf(c)' \notin durable /\ \A t \in Handle : WriteOf(c)' \notin writes[t]
    BY <2>6 DEF RInv, NumbersOK
  <2>8. Asked'[c] \in [kind : Kind, tx : Holds[c] \cup {NoTx}, w : Write, out : {"none"}]
    BY <2>2, <2>4, <2>5
  <2>9. Asked'[c].w = WriteOf(c)'
    BY <2>2
  <2> QED
    BY <1>1, <1>4, <2>1, <2>3, <2>7, <2>8, <2>9 DEF S!Ask
<1> QED
  BY <1>5, <1>9, <1>10 DEF Maps, S!Next

LEMMA LoadTxMaps ==
  ASSUME RInv, NEW c \in Client, LoadTx(c)
  PROVE  LookedUpOK' /\ NumbersOK' /\ Maps
<1> DEFINE u == IF req[c].id = NoId THEN NoTx ELSE txStore[req[c].id]
<1>1. /\ pc[c] = "load" /\ pc' = [pc EXCEPT ![c] = "act"]
      /\ req' = [req EXCEPT ![c] = [req[c] EXCEPT !.tx = u]]
      /\ UNCHANGED <<up, runs, connected, txStore, tx, born, writes, durable, sent, reply, acked, ended, given>>
  BY DEF LoadTx, dbVars
<1>2. /\ pc'[c] = "act" /\ req'[c].kind = req[c].kind /\ req'[c].id = req[c].id /\ req'[c].tx = u
      /\ \A d \in Client \ {c} : pc'[d] = pc[d] /\ req'[d] = req[d]
  <2>1. req[c] \in [kind : Kind, id : Addr \cup {NoId}, tx : 0 .. MaxTx]
    BY DEF RInv, IInv, TypeOK
  <2>2. req'[c] = [req[c] EXCEPT !.tx = u]
    BY <1>1 DEF RInv, IInv, TypeOK
  <2>3. req'[c].kind = req[c].kind /\ req'[c].id = req[c].id /\ req'[c].tx = u
    BY <2>1, <2>2
  <2> QED
    BY <1>1, <2>3 DEF RInv, IInv, TypeOK
<1>3. Holds' = Holds /\ \A d \in Client \ {c} : Named(d)' = Named(d) /\ Asked'[d] = Asked[d]
  BY <1>1, <1>2, OthersSame DEF SameIds, RInv
<1>4. Named(c)' = Named(c)
  BY <1>1, <1>2, <1>3 DEF Named, Succeeds
<1>5. Named(c)' # NoTx => req'[c].tx = Named(c)'
  BY <1>1, <1>2, <1>4, NamedIs DEF RInv, Named, Succeeds
<1>6. LookedUpOK'
  BY <1>2, <1>3, <1>5, LookedUpKept
<1>7. Asked'[c] = Asked[c]
  BY <1>1, <1>2, <1>4, AskedSame DEF Out
<1>8. Asked' = Asked
  BY <1>3, <1>7 DEF Asked
<1> QED
  BY <1>1, <1>3, <1>6, <1>8, NumbersSame DEF Maps, S!vars

\* The outcome of a request that has not begun a transaction
LEMMA OutcomeMaps ==
  ASSUME RInv, NEW c \in Client, NEW r \in {"ok", "err"}, Outcome(c, r), pc[c] \in {"load", "act"},
         born' = born, r = "ok" => req[c].kind # "tx_begin"
  PROVE  LookedUpOK' /\ S!Working(c) /\ S!Outcome(c, r)
<1>1. /\ pc'[c] = r /\ \A d \in Client \ {c} : pc'[d] = pc[d]
      /\ UNCHANGED <<up, runs, req, sent, reply, given>>
  BY OutcomeType DEF RInv, IInv
<1>2. Holds' = Holds /\ \A d \in Client \ {c} : Named(d)' = Named(d) /\ Asked'[d] = Asked[d]
  BY <1>1, OthersSame DEF SameIds, RInv
<1>3. LookedUpOK'
  BY <1>1, <1>2, LookedUpKept
<1>4. S!Working(c) /\ Asked[c] = [kind |-> req[c].kind, tx |-> Named(c), w |-> WriteOf(c), out |-> "none"]
  BY AskedIs DEF RInv, Out
<1>5. Named(c)' = Named(c) /\ WriteOf(c)' = WriteOf(c)
  BY <1>1, <1>2 DEF Named, Succeeds, WriteOf
<1>6. Asked'[c] = [kind |-> req[c].kind, tx |-> Named(c), w |-> WriteOf(c), out |-> r]
  BY <1>1, <1>5 DEF Asked
<1>7. Asked'[c] = [Asked[c] EXCEPT !.out = r]
  BY <1>4, <1>6
<1>8. Asked' = [Asked EXCEPT ![c] = [Asked[c] EXCEPT !.out = r]]
  BY ZenonT(60), <1>2, <1>7 DEF Asked
<1> QED
  BY <1>1, <1>2, <1>3, <1>4, <1>8 DEF S!Outcome

\* An error that has changed nothing
LEMMA RefuseMaps ==
  ASSUME RInv, NEW c \in Client, Outcome(c, "err"), pc[c] \in {"load", "act"},
         UNCHANGED <<tx, born, writes, durable>>
  PROVE  LookedUpOK' /\ NumbersOK' /\ Maps
<1>1. LookedUpOK' /\ S!Working(c) /\ S!Outcome(c, "err")
  BY OutcomeMaps
<1>2. NumbersOK'
  BY NumbersSame DEF Outcome
<1>3. S!Refuse(c)
  BY <1>1 DEF S!Refuse
<1> QED
  BY <1>1, <1>2, <1>3 DEF Maps, S!Next

\* Success that has changed nothing: what reads, connects or disconnects, and a batch
\* whose Commit failed
LEMMA ReadMaps ==
  ASSUME RInv, NEW c \in Client, Outcome(c, "ok"), pc[c] \in {"load", "act"},
         UNCHANGED <<tx, born, writes, durable>>,
         req[c].kind \in {"connect", "disconnect_all", "query", "model_query", "other", "exec_batch"}
  PROVE  LookedUpOK' /\ NumbersOK' /\ Maps
<1>1. LookedUpOK' /\ S!Working(c) /\ S!Outcome(c, "ok")
  BY OutcomeMaps
<1>2. NumbersOK'
  BY NumbersSame DEF Outcome
<1>3. Asked[c].kind \in S!Reads \cup {S!Batch}
  <2>1. Asked[c].kind = req[c].kind /\ req[c].kind \in Kind
    BY AskedIs DEF RInv, IInv, TypeOK
  <2> QED
    BY <2>1 DEF S!Reads, S!Stores, S!Ends, S!Batch
<1>4. S!Read(c)
  BY <1>1, <1>3 DEF S!Read
<1> QED
  BY <1>1, <1>2, <1>4 DEF Maps, S!Next

\* A statement that is stored by itself
LEMMA StoreMaps ==
  ASSUME RInv, NEW c \in Client, Exec(c) \/ BatchExec(c) \/ CreateList(c)
  PROVE  LookedUpOK' /\ NumbersOK' /\ Maps
<1>1. /\ pc[c] = "act" /\ req[c].kind \in S!Stores /\ req[c].kind # "tx_begin"
      /\ UNCHANGED <<tx, born, writes>>
  BY DEF Exec, BatchExec, CreateList, Works, S!Stores, S!Batch
<1>2. PICK r \in {"ok", "err"} : Outcome(c, r)
  BY DEF Exec, BatchExec, CreateList
<1>3. CASE durable' = durable \cup {WriteOf(c)}
  <2>1. LookedUpOK' /\ S!Working(c) /\ S!Outcome(c, r)
    BY <1>1, <1>2, OutcomeMaps
  <2>2. NumbersOK'
    BY <1>1, <1>2, <1>3, NumbersKept DEF RInv, NumbersOK, Outcome
  <2>3. Asked[c].kind \in S!Stores /\ Asked[c].w = WriteOf(c)
    BY <1>1, AskedIs DEF RInv
  <2>4. S!Store(c)
    BY <1>1, <1>3, <2>1, <2>3 DEF S!Store
  <2> QED
    BY <2>1, <2>2, <2>4 DEF Maps, S!Next
<1>4. CASE durable' # durable \cup {WriteOf(c)}
  <2>1. durable' = durable /\ req[c].kind = "exec_batch"
    BY <1>4 DEF Exec, BatchExec, CreateList, Works
  <2>2. CASE r = "err"
    BY <1>1, <1>2, <2>1, <2>2, RefuseMaps
  <2>3. CASE r = "ok"
    BY <1>1, <1>2, <2>1, <2>3, ReadMaps
  <2> QED
    BY <2>2, <2>3
<1> QED
  BY <1>3, <1>4

\* An update joins the transaction that its id stands for.
LEMMA UpdateMaps ==
  ASSUME RInv, NEW c \in Client, Update(c)
  PROVE  LookedUpOK' /\ NumbersOK' /\ Maps
<1> DEFINE t == req[c].tx
<1>1. /\ pc[c] = "act" /\ req[c].kind = "model_update"
      /\ t \notin {u \in Handle : tx[u] # "open"}
      /\ pc' = [pc EXCEPT ![c] = "panic"]
      /\ writes' = IF t = NoTx THEN writes ELSE [writes EXCEPT ![t] = @ \cup {WriteOf(c)}]
      /\ UNCHANGED <<up, runs, req, sent, reply, tx, born, durable, given>>
  BY DEF Update, Works
<1>2. pc'[c] = "panic" /\ \A d \in Client \ {c} : pc'[d] = pc[d]
  BY <1>1 DEF RInv, IInv, TypeOK
<1>3. Holds' = Holds /\ \A d \in Client \ {c} : Named(d)' = Named(d) /\ Asked'[d] = Asked[d]
  BY <1>1, <1>2, OthersSame DEF SameIds, RInv
<1>4. Named(c)' = Named(c)
  BY <1>1, <1>3 DEF Named, Succeeds
<1>5. LookedUpOK'
  BY <1>1, <1>2, <1>3, <1>4, LookedUpKept DEF RInv, LookedUpOK
<1>6. Asked' = Asked
  <2>1. Asked'[c] = Asked[c]
    BY <1>1, <1>2, <1>4, AskedSame DEF Out
  <2> QED
    BY <1>3, <2>1 DEF Asked
<1>7. CASE t = NoTx
  BY <1>1, <1>3, <1>5, <1>6, <1>7, NumbersSame DEF Maps, S!vars
<1>8. CASE t # NoTx
  <2>1. t \in Handle /\ tx[t] = "open" /\ writes' = [writes EXCEPT ![t] = @ \cup {WriteOf(c)}]
    BY <1>1, <1>8 DEF RInv, IInv, TypeOK, Handle, NoTx
  <2>2. \A u \in Handle : \A w \in writes'[u] : w \in writes[u] \/ w = WriteOf(c)
    BY <2>1 DEF RInv, IInv, TypeOK
  <2>3. NumbersOK'
    BY <1>1, <2>2, NumbersKept DEF RInv, NumbersOK
  <2>4. /\ S!Working(c) /\ Asked[c].kind = "model_update" /\ Asked[c].w = WriteOf(c)
        /\ Asked[c].tx \in {NoTx, t}
    BY <1>1, AskedIs DEF RInv, LookedUpOK
  <2>5. S!Stage(c)
    BY <1>1, <1>3, <1>6, <2>1, <2>4 DEF S!Stage, S!Means
  <2> QED
    BY <1>5, <2>3, <2>5 DEF Maps, S!Next
<1> QED
  BY <1>7, <1>8

\* A new transaction is nobody's until its id is answered.
LEMMA BeginMaps ==
  ASSUME RInv, NEW c \in Client, Begin(c)
  PROVE  LookedUpOK' /\ NumbersOK' /\ Maps
<1>1. PICK t \in Handle, a \in Addr :
        /\ pc[c] = "act" /\ req[c].kind = "tx_begin" /\ tx[t] = "unused"
        /\ tx' = [tx EXCEPT ![t] = "open"] /\ born' = [born EXCEPT ![t] = runs]
        /\ req' = [req EXCEPT ![c].id = a, ![c].tx = t]
        /\ pc' = [pc EXCEPT ![c] = "ok"]
        /\ UNCHANGED <<up, runs, writes, durable, sent, reply, given>>
  BY DEF Begin, BeginAt, Works
<1>2. /\ pc'[c] = "ok" /\ req'[c].kind = "tx_begin" /\ req'[c].tx = t
      /\ \A d \in Client \ {c} : pc'[d] = pc[d] /\ req'[d] = req[d]
  <2>1. req[c] \in [kind : Kind, id : Addr \cup {NoId}, tx : 0 .. MaxTx]
    BY DEF RInv, IInv, TypeOK
  <2>2. req'[c] = [req[c] EXCEPT !.id = a, !.tx = t]
    BY <1>1 DEF RInv, IInv, TypeOK
  <2>3. req'[c].kind = req[c].kind /\ req'[c].tx = t
    BY <2>1, <2>2
  <2> QED
    BY <1>1, <2>3 DEF RInv, IInv, TypeOK
<1>3. \A d \in Client, b \in Addr : given[d][b] # t
  BY <1>1 DEF RInv, IInv, GivenOK, Handle, NoTx
<1>4. \A u \in Handle : born'[u] = IF u = t THEN runs ELSE born[u]
  BY <1>1 DEF RInv, IInv, TypeOK
<1>5. Holds' = Holds
  BY <1>1, <1>3, <1>4 DEF Holds
<1>6. \A d \in Client \ {c} : Named(d)' = Named(d)
  BY <1>1, <1>2, <1>5, NamedSame DEF Succeeds
<1>7. LookedUpOK'
  BY <1>2, <1>6, LookedUpKept
<1>8. NumbersOK'
  BY <1>1, NumbersSame
<1>9. \A d \in Client \ {c} : Asked'[d] = Asked[d]
  BY <1>1, <1>2, <1>6, AskedSame DEF Out
<1>10. S!Working(c)
  BY <1>1, AskedIs DEF RInv
<1>11. Asked[c] = [kind |-> "tx_begin", tx |-> Named(c), w |-> WriteOf(c), out |-> "none"]
  BY <1>1, AskedIs DEF RInv, Out
<1>12. Asked'[c] = [kind |-> "tx_begin", tx |-> t, w |-> WriteOf(c), out |-> "ok"]
  <2>1. Named(c)' = t /\ WriteOf(c)' = WriteOf(c)
    BY <1>1, <1>2 DEF Named, Succeeds, WriteOf
  <2> QED
    BY <1>2, <2>1 DEF Asked
<1>13. Asked'[c] = [[Asked[c] EXCEPT !.tx = t] EXCEPT !.out = "ok"]
  <2>1. [[Asked[c] EXCEPT !.tx = t] EXCEPT !.out = "ok"]
          = [kind |-> "tx_begin", tx |-> t, w |-> WriteOf(c), out |-> "ok"]
    <3> DEFINE r == Asked[c]
               n == Named(c)
               w == WriteOf(c)
    <3>1. r = [kind |-> "tx_begin", tx |-> n, w |-> w, out |-> "none"]
      BY <1>11
    <3> HIDE DEF r, n, w
    <3>2. r \in [kind : {"tx_begin"}, tx : {n, t}, w : {w}, out : {"none", "ok"}]
      BY <3>1
    <3>3. r.w = w
      BY <3>1
    <3> DEFINE q == [r EXCEPT !.tx = t]
    <3>4. /\ q \in [kind : {"tx_begin"}, tx : {n, t}, w : {w}, out : {"none", "ok"}]
          /\ q.kind = "tx_begin" /\ q.tx = t /\ q.w = w
      BY <3>2, <3>3
    <3> HIDE DEF q
    <3>5. [q EXCEPT !.out = "ok"] = [kind |-> "tx_begin", tx |-> t, w |-> w, out |-> "ok"]
      BY <3>4
    <3> QED
      BY <3>5 DEF q, r, w
  <2> QED
    BY <1>12, <2>1, Zenon
<1>14. Asked' = [Asked EXCEPT ![c] = [[Asked[c] EXCEPT !.tx = t] EXCEPT !.out = "ok"]]
  BY ZenonT(60), <1>9, <1>13 DEF Asked
<1>15. Asked' = [Asked EXCEPT ![c].tx = t, ![c].out = "ok"]
  BY <1>14 DEF Asked
<1>16. S!Begin(c)
  <2>1. Asked[c].kind = "tx_begin"
    BY <1>11
  <2> QED
    BY <1>1, <1>5, <1>10, <1>15, <2>1 DEF S!Begin
<1> QED
  BY <1>7, <1>8, <1>16 DEF Maps, S!Next

\* The transaction that a client ends is the one its id stands for.
LEMMA EndMaps ==
  ASSUME RInv, NEW c \in Client, End(c)
  PROVE  LookedUpOK' /\ NumbersOK' /\ Maps
<1> DEFINE t == req[c].tx
<1>1. /\ pc[c] = "act" /\ req[c].kind \in S!Ends /\ req[c].kind # "tx_begin" /\ t \in Handle
      /\ UNCHANGED <<born, writes>>
  BY DEF End, Ending, EndKind, S!Ends, RInv, IInv, TypeOK, Handle, NoTx
<1>2. CASE tx[t] # "open"
  BY <1>1, <1>2, RefuseMaps DEF End
<1>3. CASE tx[t] = "open"
  <2>1. PICK s \in {"committed", "rolledback"}, r \in {"ok", "err"} :
          /\ s = "committed" => req[c].kind = "tx_commit"
          /\ tx' = [tx EXCEPT ![t] = s]
          /\ durable' = IF s = "committed" THEN durable \cup writes[t] ELSE durable
          /\ r = "ok" => ((s = "committed") <=> (req[c].kind = "tx_commit"))
          /\ Outcome(c, r)
    BY <1>3 DEF End
  <2>2. LookedUpOK' /\ S!Working(c) /\ S!Outcome(c, r)
    BY <1>1, <2>1, OutcomeMaps
  <2>3. sent' = sent /\ \A w \in durable' : w \in durable \/ w \in writes[t]
    BY <2>1 DEF Outcome
  <2>4. NumbersOK'
    BY <1>1, <2>3, NumbersKept DEF RInv, NumbersOK
  <2>5. Asked[c].kind = req[c].kind /\ Asked[c].tx \in {NoTx, t}
    BY <1>1, AskedIs DEF RInv, LookedUpOK
  <2>6. S!End(c)
    <3>1. CASE s = "committed"
      BY <1>1, <1>3, <2>1, <2>2, <2>5, <3>1 DEF S!End, S!Means
    <3>2. CASE s = "rolledback"
      <4>1. r = "err" \/ (req[c].kind = "tx_rollback" /\ r = "ok")
        BY <1>1, <2>1, <3>2 DEF S!Ends
      <4> QED
        BY <1>1, <1>3, <2>1, <2>2, <2>5, <3>2, <4>1 DEF S!End, S!Means
    <3> QED
      BY <2>1, <3>1, <3>2
  <2> QED
    BY <2>2, <2>4, <2>6 DEF Maps, S!Next
<1> QED
  BY <1>2, <1>3

\* The client is told the outcome, and from then on holds the transaction it began.
LEMMA AnswerMaps ==
  ASSUME RInv, NEW c \in Client, Answer(c)
  PROVE  LookedUpOK' /\ NumbersOK' /\ Maps
<1> DEFINE t == req[c].tx
<1> DEFINE a == req[c].id
<1>1. /\ pc[c] \in {"ok", "err"}
      /\ reply' = [reply EXCEPT ![c] = pc[c]]
      /\ pc' = [pc EXCEPT ![c] = "idle"] /\ req' = [req EXCEPT ![c] = NoRequest]
      /\ UNCHANGED <<up, runs, connected, txStore, tx, born, writes, durable, sent>>
      /\ given' = IF Succeeds(c, {"tx_begin"}) THEN [given EXCEPT ![c] = [given[c] EXCEPT ![a] = t]]
                  ELSE given
  BY DEF Answer, dbVars
<1>2. pc'[c] = "idle" /\ \A d \in Client \ {c} : pc'[d] = pc[d] /\ req'[d] = req[d]
  BY <1>1 DEF RInv, IInv, TypeOK
<1>3. \A d \in Client \ {c} : given'[d] = given[d]
  BY <1>1 DEF RInv, IInv, TypeOK
<1>4. \A d \in Client \ {c} : Holds'[d] = Holds[d]
  BY <1>1, <1>3, HoldsSame
<1>5. \A d \in Client \ {c} : Named(d)' = Named(d)
  BY <1>2, <1>3, <1>4, NamedSame DEF Succeeds
<1>6. \A d \in Client \ {c} : Asked'[d] = Asked[d]
  BY <1>1, <1>2, <1>5, AskedSame DEF Out
<1>7. LookedUpOK'
  BY <1>2, <1>5, LookedUpKept
<1>8. NumbersOK'
  BY <1>1, NumbersSame
<1>9. /\ S!Asking(c) /\ ~S!Working(c) /\ Asked[c].out = pc[c]
      /\ Asked[c].kind = req[c].kind /\ Asked[c].tx = Named(c)
  BY <1>1, AskedIs DEF RInv, Out
<1>10. Asked' = [Asked EXCEPT ![c] = S!Idle]
  <2>1. Asked'[c] = S!Idle
    BY <1>2 DEF Asked, S!Idle
  <2> QED
    BY ZenonT(60), <1>6, <2>1 DEF Asked
<1>11. Holds' = IF Asked[c].kind = "tx_begin" /\ Asked[c].out = "ok"
                THEN [Holds EXCEPT ![c] = @ \cup {Asked[c].tx}] ELSE Holds
  <2>1. Succeeds(c, {"tx_begin"}) <=> (Asked[c].kind = "tx_begin" /\ Asked[c].out = "ok")
    BY <1>9 DEF Succeeds
  <2>2. CASE ~Succeeds(c, {"tx_begin"})
    BY <1>1, <2>1, <2>2 DEF Holds
  <2>3. CASE Succeeds(c, {"tx_begin"})
    <3>1. up
      BY <1>1 DEF RInv, IInv, NoneWhenDown
    <3>2. /\ a \in Addr /\ t \in Handle /\ t # NoTx /\ txStore[a] = t /\ born[t] = runs
      BY <2>3 DEF RInv, IInv, TypeOK, BegunOK, Handle, NoTx
    <3>3. \A b \in Addr : given'[c][b] = IF b = a THEN t ELSE given[c][b]
      BY <1>1, <2>3, <3>2 DEF RInv, IInv, TypeOK
    <3>4. Holds'[c] = {u \in Handle : born[u] = runs /\ \E b \in Addr : given'[c][b] = u}
      BY <1>1, <3>1 DEF Holds
    <3>5. Holds[c] = {u \in Handle : born[u] = runs /\ \E b \in Addr : given[c][b] = u}
      BY <3>1 DEF Holds
    <3>6. ASSUME NEW u \in Holds[c], given[c][a] = u PROVE u = t
      BY <3>1, <3>2, <3>5, <3>6 DEF RInv, IInv, GivenOK, Handle, NoTx
    <3>7. t \in Holds'[c]
      BY <3>2, <3>3, <3>4
    <3>8. Holds[c] \subseteq Holds'[c]
      BY <3>3, <3>4, <3>5, <3>6, <3>7
    <3>9. Holds'[c] \subseteq Holds[c] \cup {t}
      BY <3>3, <3>4, <3>5
    <3>10. Holds'[c] = Holds[c] \cup {t}
      BY <3>7, <3>8, <3>9
    <3>11. Asked[c].tx = t
      BY <1>9, <2>3 DEF Named
    <3>12. Holds' = [Holds EXCEPT ![c] = @ \cup {t}]
      BY ZenonT(60), <1>4, <3>10 DEF Holds
    <3> QED
      BY <2>1, <2>3, <3>11, <3>12
  <2> QED
    BY <2>2, <2>3
<1>12. S!Tell(c)
  BY <1>1, <1>9, <1>10, <1>11 DEF S!Tell
<1> QED
  BY <1>7, <1>8, <1>12 DEF Maps, S!Next

\* All requests are lost, and no id stands for anything.
LEMMA CrashMaps ==
  ASSUME RInv, NEW c \in Client, pc[c] # "idle", Crash
  PROVE  LookedUpOK' /\ NumbersOK' /\ Maps
<1>1. LookedUpOK'
  BY DEF Crash, LookedUpOK
<1>2. NumbersOK'
  BY NumbersSame DEF Crash
<1>3. Holds' = [d \in Client |-> {}]
  BY DEF Crash, Holds
<1>4. Asked' = [d \in Client |-> S!Idle]
  BY DEF Crash, Asked, S!Idle
<1>5. reply' = [d \in Client |-> IF S!Asking(d) THEN "lost" ELSE reply[d]]
  <2>1. \A d \in Client : pc[d] = "idle" <=> ~S!Asking(d)
    BY AskedIs DEF RInv
  <2> QED
    BY <2>1 DEF Crash
<1>6. S!Asking(c)
  BY AskedIs DEF RInv
<1>7. S!Fail
  BY <1>3, <1>4, <1>5, <1>6 DEF S!Fail, Crash
<1> QED
  BY <1>1, <1>2, <1>7 DEF Maps, S!Next

\* The ids of the runs before stand for nothing already.
LEMMA RestartMaps ==
  ASSUME RInv, Restart
  PROVE  LookedUpOK' /\ NumbersOK' /\ Maps
<1>1. \A c \in Client : pc[c] = "idle"
  BY DEF Restart, RInv, IInv, NoneWhenDown
<1>2. LookedUpOK' /\ NumbersOK'
  BY <1>1, NumbersSame DEF Restart, dbVars, LookedUpOK
<1>3. \A t \in Handle : born'[t] # runs'
  BY AioAssumption DEF Restart, dbVars, RInv, IInv, TypeOK, HandlesOK
<1>4. Holds' = Holds
  BY <1>3 DEF Restart, dbVars, Holds
<1>5. Asked' = Asked
  BY <1>1 DEF Restart, Asked
<1> QED
  BY <1>2, <1>4, <1>5 DEF Restart, dbVars, Maps, S!vars

LEMMA NextMaps == RInv /\ [Next]_vars => RInv' /\ [S!Next]_(S!vars)
<1> SUFFICES ASSUME RInv, [Next]_vars PROVE RInv' /\ [S!Next]_(S!vars)
  OBVIOUS
<1>1. IInv'
  BY NextIInv DEF RInv
<1>2. CASE Restart
  BY <1>1, <1>2, RestartMaps DEF RInv, Maps
<1>3. ASSUME NEW c \in Client, Request(c) \/ HandleAio(c)
      PROVE  LookedUpOK' /\ NumbersOK' /\ Maps
  <2>1. CASE Request(c)
    BY <2>1, RequestMaps
  <2>2. CASE LoadTx(c)
    BY <2>2, LoadTxMaps
  <2>3. CASE ConvertErr(c) \/ Fails(c)
    BY <2>3, RefuseMaps DEF ConvertErr, Fails, Works, dbVars
  <2>4. CASE Connect(c) \/ DisconnectAll(c) \/ Query(c)
    BY <2>4, ReadMaps DEF Connect, DisconnectAll, Query, Works, dbVars
  <2>5. CASE Exec(c) \/ BatchExec(c) \/ CreateList(c)
    BY <2>5, StoreMaps
  <2>6. CASE Update(c)
    BY <2>6, UpdateMaps
  <2>7. CASE Begin(c)
    BY <2>7, BeginMaps
  <2>8. CASE End(c)
    BY <2>8, EndMaps
  <2>9. CASE Answer(c)
    BY <2>9, AnswerMaps
  <2>10. CASE NoSession(c) \/ CreatePanics(c) \/ UpdatePanics(c) \/ EndUnknown(c)
    BY <2>10, CrashMaps DEF NoSession, CreatePanics, UpdatePanics, EndUnknown, Works, Ending
  <2> QED
    BY <1>3, <2>1, <2>2, <2>3, <2>4, <2>5, <2>6, <2>7, <2>8, <2>9, <2>10 DEF HandleAio
<1>4. CASE UNCHANGED vars
  <2>1. LookedUpOK' /\ NumbersOK'
    BY <1>4, NumbersSame DEF vars, dbVars, RInv, LookedUpOK, Named, Holds, Succeeds
  <2>2. UNCHANGED S!vars
    BY <1>4 DEF vars, dbVars, S!vars, Holds, Asked, Named, WriteOf, Succeeds
  <2> QED
    BY <1>1, <2>1, <2>2 DEF RInv
<1> QED
  BY <1>1, <1>2, <1>3, <1>4 DEF Next, RInv, Maps

\* The transaction that a request has looked up stays the one its id stands for,
\* while other clients begin and end transactions, and every write is of a request
\* that was made.
THEOREM LookupInvariant == Spec => []RInv
<1>1. Init => RInv
  BY InitRInv
<1>2. RInv /\ [Next]_vars => RInv'
  BY NextMaps
<1> QED
  BY <1>1, <1>2, PTL DEF Spec

\* HandleAio with its ids, its txStore and the process that runs it implements the
\* sessions that remote clients may rely on.
THEOREM ImplementsSessions == Spec => KeepsSessions
<1>1. Init => S!Init
  BY InitRInv
<1>2. RInv /\ [Next]_vars => [S!Next]_(S!vars)
  BY NextMaps
<1> QED
  BY <1>1, <1>2, LookupInvariant, PTL DEF Spec, KeepsSessions, S!Spec
=============================================================================
