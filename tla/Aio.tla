-------------------------------- MODULE Aio --------------------------------
(***************************************************************************)
(* HandleAio (aio.go): the requests of remote clients and the transactions *)
(* they hold by id.                                                        *)
(*                                                                         *)
(* tx_begin puts the transaction into txStore under the address of its Go  *)
(* object and replies with that address.  Nothing is ever taken out of     *)
(* txStore, so the object stays alive and its address is not used again    *)
(* until the process ends.  A client sends one request at a time; requests *)
(* of several clients interleave.  A panic in a request ends the process,  *)
(* a new one starts with an empty store and without connections, and       *)
(* clients still remember the ids they were given.  A request that has     *)
(* done its work is answered in a step of its own: when another request    *)
(* panics in between, the client never hears of it.                        *)
(*                                                                         *)
(* Documents come out of JSON, so relatesWrite panics on every map         *)
(* (Item2List): a model_create of an object ends after its insert and a    *)
(* model_update after its statement.                                       *)
(***************************************************************************)
EXTENDS Integers, FiniteSets

CONSTANTS
  Client,
  Addr,         \* addresses of transaction objects
  NoId,         \* no tx_id in a request
  Prepared,     \* the program connects and registers schemas before it serves (cmd/unix does not)
  MaxTx,        \* bound: transactions begun
  MaxReqs,      \* bound: requests of a client
  MaxRuns       \* bound: runs of the process

ASSUME AioAssumption ==
  /\ NoId \notin Addr
  /\ Prepared \in BOOLEAN
  /\ MaxTx \in Nat /\ MaxReqs \in Nat /\ MaxRuns \in Nat \ {0}

NoTx == 0
Handle == 1 .. MaxTx

\* disconnect, register_schema, unregister_schema, schema_by and schema_bys convert
\* a JSON object to a list or a string, which fails, or get no data: "other" stands
\* for them, for connection_names and for an unknown action.  "model_query" stands
\* for model_count too, "exec_batch" for exec with is_batch.
EndKind == {"tx_commit", "tx_rollback"}
LoneKind == {"exec", "create_list", "model_delete"}
WriteKind == {"create_list", "create_object", "model_update", "model_delete"}
ModelKind == WriteKind \cup {"model_query"}
SessionKind == ModelKind \cup {"query", "exec", "exec_batch", "tx_begin"}
Kind == SessionKind \cup EndKind \cup {"connect", "disconnect_all", "other"}

VARIABLES
  up,          \* the process runs
  runs,        \* how many times it was started
  connected,   \* the namespace has the connection
  txStore,     \* Addr -> transaction, NoTx when absent
  tx,          \* Handle -> state of the transaction
  born,        \* Handle -> the run that began it
  writes,      \* Handle -> writes made in it
  durable,     \* writes that were committed
  pc,          \* Client -> where its request is; "ok" or "err": the answer it will give
  req,         \* Client -> its request: kind, id and the transaction found for the id
  sent,        \* Client -> requests sent
  reply,       \* Client -> reply to its last request
  acked,       \* writes whose request was answered with success
  ended,       \* Handle -> times a client was told that it ended as asked
  given        \* Client -> Addr -> the transaction it was last given under that id

dbVars == <<tx, born, writes, durable>>
vars == <<up, runs, connected, txStore, tx, born, writes, durable, pc, req, sent, reply,
          acked, ended, given>>

Write == [kind : Kind, c : Client, n : 0 .. MaxReqs]
WriteOf(c) == [kind |-> req[c].kind, c |-> c, n |-> sent[c]]

NoRequest == [kind |-> "other", id |-> NoId, tx |-> NoTx]

Init ==
  /\ up = TRUE /\ runs = 1
  /\ connected = Prepared
  /\ txStore = [a \in Addr |-> NoTx]
  /\ tx = [t \in Handle |-> "unused"] /\ born = [t \in Handle |-> 0]
  /\ writes = [t \in Handle |-> {}] /\ durable = {}
  /\ pc = [c \in Client |-> "idle"]
  /\ req = [c \in Client |-> NoRequest]
  /\ sent = [c \in Client |-> 0] /\ reply = [c \in Client |-> "none"]
  /\ acked = {} /\ ended = [t \in Handle |-> 0]
  /\ given = [c \in Client |-> [a \in Addr |-> NoTx]]

----------------------------------------------------------------------------
\* Steps of a request

\* The work of a request is over and r is what it will answer.
Outcome(c, r) ==
  /\ pc' = [pc EXCEPT ![c] = r]
  /\ UNCHANGED <<up, runs, req, sent, reply, acked, ended, given>>

\* The process ends, the database rolls back what it had open.
Crash ==
  /\ up' = FALSE
  /\ connected' = FALSE
  /\ txStore' = [a \in Addr |-> NoTx]
  /\ tx' = [t \in Handle |-> IF tx[t] = "open" THEN "rolledback" ELSE tx[t]]
  /\ pc' = [c \in Client |-> "idle"]
  /\ req' = [c \in Client |-> NoRequest]
  /\ reply' = [c \in Client |-> IF pc[c] = "idle" THEN reply[c] ELSE "lost"]
  /\ UNCHANGED <<runs, born, writes, durable, sent, acked, ended, given>>

Restart ==
  /\ ~up /\ runs < MaxRuns
  /\ up' = TRUE /\ runs' = runs + 1
  /\ connected' = Prepared
  /\ UNCHANGED <<txStore, dbVars, pc, req, sent, reply, acked, ended, given>>

\* A client asks for kind, naming any id it may know.
Request(c) ==
  /\ up /\ pc[c] = "idle" /\ sent[c] < MaxReqs
  /\ sent' = [sent EXCEPT ![c] = @ + 1]
  /\ pc' = [pc EXCEPT ![c] = "load"]
  /\ \E k \in Kind : \E a \in (IF k \in EndKind THEN Addr
                                ELSE IF k \in WriteKind THEN Addr \cup {NoId} ELSE {NoId}) :
       req' = [req EXCEPT ![c] = [kind |-> k, id |-> a, tx |-> NoTx]]
  /\ UNCHANGED <<up, runs, connected, txStore, dbVars, reply, acked, ended, given>>

\* ConvertData refuses the data.
ConvertErr(c) ==
  /\ pc[c] = "load"
  /\ Outcome(c, "err")
  /\ UNCHANGED <<connected, txStore, dbVars>>

\* loadTxWithStoreID: its error is never looked at (`err != nil` is the outer err)
LoadTx(c) ==
  /\ pc[c] = "load"
  /\ req' = [req EXCEPT ![c].tx = IF req[c].id = NoId THEN NoTx ELSE txStore[req[c].id]]
  /\ pc' = [pc EXCEPT ![c] = "act"]
  /\ UNCHANGED <<up, runs, connected, txStore, dbVars, sent, reply, acked, ended, given>>

\* Session is nil without the connection, and so is the schema of a DataModel that
\* nobody registered: both are used all the same.
HasSession(c) ==
  /\ req[c].kind \in SessionKind => connected
  /\ req[c].kind \in ModelKind => Prepared

NoSession(c) == pc[c] = "act" /\ ~HasSession(c) /\ Crash

Works(c, kinds) == pc[c] = "act" /\ req[c].kind \in kinds /\ HasSession(c)

\* An error that leaves nothing behind.
Fails(c) ==
  /\ Works(c, SessionKind \cup {"connect", "other"})
  /\ Outcome(c, "err")
  /\ UNCHANGED <<connected, txStore, dbVars>>

Connect(c) ==
  /\ Works(c, {"connect"})
  /\ connected' = TRUE
  /\ Outcome(c, "ok")
  /\ UNCHANGED <<txStore, dbVars>>

DisconnectAll(c) ==
  /\ Works(c, {"disconnect_all"})
  /\ connected' = FALSE
  /\ Outcome(c, "ok")
  /\ UNCHANGED <<txStore, dbVars>>

Query(c) ==
  /\ Works(c, {"query", "model_query", "other"})
  /\ Outcome(c, "ok")
  /\ UNCHANGED <<connected, txStore, dbVars>>

\* A statement of its own: exec, and model_delete whatever its tx_id.
Exec(c) ==
  /\ Works(c, {"exec", "model_delete"})
  /\ \E r \in {"ok", "err"} : Outcome(c, r)
  /\ durable' = durable \cup {WriteOf(c)}
  /\ UNCHANGED <<connected, txStore, tx, born, writes>>

\* The deferred function commits, also after an error of a statement (the loop has an
\* err of its own), and sets an err that nobody returns.
BatchExec(c) ==
  /\ Works(c, {"exec_batch"})
  /\ \E r \in {"ok", "err"} : Outcome(c, r)
  /\ durable' \in {durable, durable \cup {WriteOf(c)}}
  /\ UNCHANGED <<connected, txStore, tx, born, writes>>

\* Mutant of CreateList: the rows are written in the transaction of tx_id.
CreateListInTx(c) ==
  /\ Works(c, {"create_list"})
  /\ Outcome(c, "ok")
  /\ IF req[c].tx = NoTx
     THEN durable' = durable \cup {WriteOf(c)} /\ UNCHANGED writes
     ELSE writes' = [writes EXCEPT ![req[c].tx] = @ \cup {WriteOf(c)}] /\ UNCHANGED durable
  /\ UNCHANGED <<connected, txStore, tx, born>>

\* Create commits in transactions of its own, whatever the tx_id; an error may follow
\* the commit of some.
CreateList(c) ==
  /\ Works(c, {"create_list"})
  /\ \E r \in {"ok", "err"} : Outcome(c, r)
  /\ durable' = durable \cup {WriteOf(c)}
  /\ UNCHANGED <<connected, txStore, tx, born, writes>>

\* afterCreate panics on the map before the commit; the insert of an object or of a
\* list panics on a null among the columns of conflict_updates.
CreatePanics(c) == Works(c, {"create_list", "create_object"}) /\ Crash

\* Mutant of Update: the statement is committed with the transaction it runs in.
UpdateCommits(c) ==
  /\ Works(c, {"model_update"})
  /\ pc' = [pc EXCEPT ![c] = "panic"]
  /\ durable' = durable \cup {WriteOf(c)}
  /\ UNCHANGED <<up, runs, req, sent, reply, connected, txStore, tx, born, writes, acked, ended, given>>

\* Update runs in the transaction of tx_id, or in one that ensureXtx begins and
\* nobody ends; afterUpdate panics on the map.
Update(c) ==
  /\ Works(c, {"model_update"})
  /\ req[c].tx \notin {t \in Handle : tx[t] # "open"}
  /\ pc' = [pc EXCEPT ![c] = "panic"]
  /\ writes' = IF req[c].tx = NoTx THEN writes
               ELSE [writes EXCEPT ![req[c].tx] = @ \cup {WriteOf(c)}]
  /\ UNCHANGED <<up, runs, req, sent, reply, connected, txStore, tx, born, durable,
                 acked, ended, given>>

UpdatePanics(c) == pc[c] = "panic" /\ Crash

\* The first transaction that was not begun, and the id in the reply
BeginAt(c, t, a) ==
  /\ Works(c, {"tx_begin"})
  /\ tx[t] = "unused" /\ \A u \in 1 .. t - 1 : tx[u] # "unused"
  /\ tx' = [tx EXCEPT ![t] = "open"] /\ born' = [born EXCEPT ![t] = runs]
  /\ txStore' = [txStore EXCEPT ![a] = t]
  /\ req' = [req EXCEPT ![c].id = a, ![c].tx = t]
  /\ pc' = [pc EXCEPT ![c] = "ok"]
  /\ UNCHANGED <<up, runs, connected, writes, durable, sent, reply, acked, ended, given>>

\* Mutant of Begin: the id is any address, one that is taken included.
BeginAnyAddr(c) == \E t \in Handle, a \in Addr : BeginAt(c, t, a)

\* Begin, then txStore.Store under the address of the object
Begin(c) == \E t \in Handle, a \in Addr : txStore[a] = NoTx /\ BeginAt(c, t, a)

Ending(c) == pc[c] = "act" /\ req[c].kind \in EndKind

\* Mutant of End: success is replied for a transaction that has ended before.
EndAgain(c) ==
  /\ Ending(c) /\ req[c].tx # NoTx
  /\ tx' = [tx EXCEPT ![req[c].tx] = "rolledback"]
  /\ Outcome(c, "ok")
  /\ UNCHANGED <<connected, txStore, born, writes, durable>>

\* Mutant of End: the id is taken out of the store, and its address used again.
EndForgets(c) ==
  /\ Ending(c) /\ req[c].tx # NoTx /\ tx[req[c].tx] = "open"
  /\ tx' = [tx EXCEPT ![req[c].tx] = "rolledback"]
  /\ txStore' = [txStore EXCEPT ![req[c].id] = NoTx]
  /\ Outcome(c, "ok")
  /\ UNCHANGED <<connected, born, writes, durable>>

\* Mutant of End: the error of Commit is not looked at.
EndIgnoresErr(c) ==
  /\ Ending(c) /\ req[c].tx # NoTx /\ tx[req[c].tx] = "open"
  /\ tx' = [tx EXCEPT ![req[c].tx] = "rolledback"]
  /\ Outcome(c, "ok")
  /\ UNCHANGED <<connected, txStore, born, writes, durable>>

\* tx.Commit or tx.Rollback of a transaction in the store: the first to get there
\* ends it, later ones get sql.ErrTxDone.  A failed Commit may have committed.
End(c) ==
  /\ Ending(c) /\ req[c].tx # NoTx
  /\ LET t == req[c].tx
         commits(s) == durable' = IF s = "committed" THEN durable \cup writes[t] ELSE durable
     IN  \/ /\ tx[t] = "open"
            /\ \E s \in {"committed", "rolledback"} :
                 /\ s = "committed" => req[c].kind = "tx_commit"
                 /\ tx' = [tx EXCEPT ![t] = s] /\ commits(s)
                 /\ \/ Outcome(c, "ok") /\ (s = "committed") = (req[c].kind = "tx_commit")
                    \/ Outcome(c, "err")
         \/ /\ tx[t] # "open"
            /\ Outcome(c, "err") /\ UNCHANGED <<tx, durable>>
  /\ UNCHANGED <<connected, txStore, born, writes>>

\* An id that the store does not have: tx is a nil pointer.
EndUnknown(c) == Ending(c) /\ req[c].tx = NoTx /\ Crash

Succeeds(c, kinds) == pc[c] = "ok" /\ req[c].kind \in kinds

\* HandleAio returns: what the client is told, and what it knows from then on
Answer(c) ==
  /\ pc[c] \in {"ok", "err"}
  /\ acked' = IF Succeeds(c, LoneKind \cup {"exec_batch"}) THEN acked \cup {WriteOf(c)} ELSE acked
  /\ ended' = IF Succeeds(c, EndKind) THEN [ended EXCEPT ![req[c].tx] = @ + 1] ELSE ended
  /\ given' = IF Succeeds(c, {"tx_begin"})
              THEN [given EXCEPT ![c][req[c].id] = req[c].tx] ELSE given
  /\ reply' = [reply EXCEPT ![c] = pc[c]]
  /\ pc' = [pc EXCEPT ![c] = "idle"] /\ req' = [req EXCEPT ![c] = NoRequest]
  /\ UNCHANGED <<up, runs, connected, txStore, dbVars, sent>>

----------------------------------------------------------------------------
HandleAio(c) ==
  \/ ConvertErr(c) \/ LoadTx(c)
  \/ Connect(c) \/ DisconnectAll(c) \/ NoSession(c) \/ Query(c) \/ Exec(c) \/ BatchExec(c)
  \/ CreateList(c) \/ CreatePanics(c) \/ Update(c) \/ UpdatePanics(c)
  \/ Begin(c) \/ Fails(c) \/ End(c) \/ EndUnknown(c) \/ Answer(c)

Next == Restart \/ \E c \in Client : Request(c) \/ HandleAio(c)

Spec == Init /\ [][Next]_vars

----------------------------------------------------------------------------
\* Properties

\* Every variable holds a value of its type.
TypeOK ==
  /\ up \in BOOLEAN /\ runs \in 1 .. MaxRuns /\ connected \in BOOLEAN
  /\ txStore \in [Addr -> 0 .. MaxTx]
  /\ tx \in [Handle -> {"unused", "open", "committed", "rolledback"}]
  /\ born \in [Handle -> 0 .. MaxRuns]
  /\ writes \in [Handle -> SUBSET Write] /\ durable \in SUBSET Write
  /\ pc \in [Client -> {"idle", "load", "act", "panic", "ok", "err"}]
  /\ req \in [Client -> [kind : Kind, id : Addr \cup {NoId}, tx : 0 .. MaxTx]]
  /\ sent \in [Client -> 0 .. MaxReqs]
  /\ reply \in [Client -> {"none", "ok", "err", "lost"}]
  /\ acked \in SUBSET Write
  /\ ended \in [Handle -> Nat]
  /\ given \in [Client -> [Addr -> 0 .. MaxTx]]

\* An id means the transaction it was given out for as long as the process runs,
\* also after the transaction has ended: nobody's commit ends another's.
IdKeepsMeaning ==
  \A c \in Client, a \in Addr :
    LET t == given[c][a] IN
    (up /\ t # NoTx /\ born[t] = runs) => txStore[a] \in {NoTx, t}

\* A write that was answered with success is stored, whatever transaction the client
\* named and whoever ends it, and through a crash, but for a batch: BatchExec does
\* not return the error of its Commit.
AckedIsDurable == \A w \in acked : w.kind # "exec_batch" => w \in durable

\* An update gets durable only when another client commits its transaction
\* between the statement and the panic.
UpdatesNeedCommit ==
  \A w \in durable : w.kind = "model_update" =>
    \E t \in Handle : tx[t] = "committed" /\ w \in writes[t]

\* However many clients race to end a transaction, one of them is told it did.
EndedOnce == \A t \in Handle : ended[t] <= 1

\* A transaction of this run that is open can be ended by whoever knows its id.
OpenTxInStore ==
  \A t \in Handle : tx[t] = "open" => \E a \in Addr : txStore[a] = t
----------------------------------------------------------------------------
\* The abstract specification that HandleAio implements

\* A client holds the transactions of this run that it was given an id of.
Holds ==
  [c \in Client |-> {t \in Handle : up /\ born[t] = runs /\ \E a \in Addr : given[c][a] = t}]

\* What the id in c's request stands for; tx_begin has the transaction it began.
Named(c) ==
  IF Succeeds(c, {"tx_begin"}) THEN req[c].tx
  ELSE IF req[c].id # NoId /\ \E t \in Holds[c] : given[c][req[c].id] = t
  THEN given[c][req[c].id] ELSE NoTx

Asked ==
  [c \in Client |->
     IF pc[c] = "idle" THEN [kind |-> "none"]
     ELSE [kind |-> req[c].kind, tx |-> Named(c), w |-> WriteOf(c),
           out |-> IF pc[c] \in {"ok", "err"} THEN pc[c] ELSE "none"]]

S == INSTANCE Sessions WITH Tx <- Handle, stored <- durable, state <- tx, staged <- writes,
                            holds <- Holds, ask <- Asked, answer <- reply

\* However requests interleave, fail and crash the process, every step is one that
\* remote clients may rely on: an id that a client was given in this run stands for
\* its transaction until the run ends, success is the answer only to what is stored
\* or to the request that ended the transaction, and a crash ends all that is open.
KeepsSessions == S!Spec

----------------------------------------------------------------------------
\* The inductive invariant

\* A transaction that a client knows was begun.  While the run that began it
\* lasts, its id is in the store and stands for it.
GivenOK ==
  \A c \in Client, a \in Addr :
    LET t == given[c][a] IN
    t # NoTx => /\ tx[t] # "unused"
                /\ (up /\ born[t] = runs) => txStore[a] = t

\* No transaction is from a run to come; one that was not ended has told nobody so.
HandlesOK ==
  \A t \in Handle : born[t] <= runs /\ (tx[t] \in {"unused", "open"} => ended[t] = 0)

\* Nothing goes on when the process is down.
NoneWhenDown == \A c \in Client : pc[c] # "idle" => up

\* Success that is still to be told is true: the write is stored, this request and
\* no other ended the transaction and nobody was told so, the new id is in the store.
WritesOK == \A c \in Client : Succeeds(c, LoneKind) => WriteOf(c) \in durable

EndingsOK ==
  \A c \in Client : Succeeds(c, EndKind) =>
    /\ req[c].tx # NoTx /\ tx[req[c].tx] \in {"committed", "rolledback"} /\ ended[req[c].tx] = 0
    /\ \A d \in Client \ {c} : Succeeds(d, EndKind) => req[d].tx # req[c].tx

BegunOK ==
  \A c \in Client : Succeeds(c, {"tx_begin"}) =>
    /\ req[c].id \in Addr /\ req[c].tx # NoTx /\ tx[req[c].tx] # "unused"
    /\ txStore[req[c].id] = req[c].tx /\ born[req[c].tx] = runs

\* A run of the process, a request that looked its transaction up before another
\* client ended it and a store that outlives its transactions keep, together, what
\* ids mean, who was told that a transaction ended and which writes are stored.
IInv ==
  /\ TypeOK
  /\ GivenOK /\ HandlesOK /\ NoneWhenDown /\ WritesOK /\ EndingsOK /\ BegunOK
  /\ AckedIsDurable /\ UpdatesNeedCommit /\ EndedOnce /\ OpenTxInStore

\* The transaction that a request has looked up is the one its id stands for.
LookedUpOK ==
  \A c \in Client : (pc[c] \in {"act", "panic"} /\ Named(c) # NoTx) => req[c].tx = Named(c)

\* No write is of a request to come.
Made(w) == w.n <= sent[w.c]
NumbersOK == (\A w \in durable : Made(w)) /\ (\A t \in Handle : \A w \in writes[t] : Made(w))

\* What the refinement needs.
RInv == IInv /\ LookedUpOK /\ NumbersOK
=============================================================================
