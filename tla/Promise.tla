------------------------------ MODULE Promise ------------------------------
(***************************************************************************)
(* What the callers of Create, Update and Delete are promised (model.go),  *)
(* with no transaction in sight but their own: the abstract specification  *)
(* that DataModel implements.                                              *)
(*                                                                         *)
(* A call runs, stores writes and returns.  A Create with SharedTx stores  *)
(* all of its batches at once, any other stores them one after the other;  *)
(* an Update stores nothing itself, it puts its write into a transaction   *)
(* of the user's, which stores it on commit; related writes are stored on  *)
(* their own.  A call may give up at any time, and then what it has stored *)
(* stays.  One that returns nil has stored what it promised.               *)
(***************************************************************************)
EXTENDS Integers, Sequences

CONSTANTS
  Proc,   \* goroutines that call the library
  Tx      \* transactions

VARIABLES
  stored,   \* the writes in the database
  staged,   \* Tx -> writes in an open transaction of the user's
  call      \* Proc -> its last call: number, operation, rows, SharedTx, outcome

vars == <<stored, staged, call>>

Running(p) == call[p].ret = "running"

\* The write of batch i of p's call, and all of them.
Batch(p, i) ==
  [op |-> call[p].op, row |-> call[p].rows[i], p |-> p, n |-> call[p].n, d |-> 1, i |-> i]
All(p) == {Batch(p, i) : i \in DOMAIN call[p].rows}

Init ==
  /\ stored = {}
  /\ staged = [t \in Tx |-> {}]
  /\ \A p \in Proc : call[p].n = 0 /\ call[p].ret = "none"

Start(p) ==
  /\ ~Running(p)
  /\ \A q \in Proc : IF q = p THEN call'[q].n = call[q].n + 1 /\ call'[q].ret = "running"
                              ELSE call'[q] = call[q]
  /\ UNCHANGED <<stored, staged>>

\* Batches of a Create: all of them, or the first one that is missing.
StoreBatches(p) ==
  /\ call[p].op = "create"
  /\ IF call[p].shared THEN stored' = stored \cup All(p)
     ELSE \E i \in DOMAIN call[p].rows :
            /\ \A j \in 1 .. i - 1 : Batch(p, j) \in stored
            /\ Batch(p, i) \notin stored
            /\ stored' = stored \cup {Batch(p, i)}
  /\ staged' = staged

StoreDelete(p) ==
  /\ call[p].op = "delete"
  /\ stored' = stored \cup All(p)
  /\ staged' = staged

\* Related rows that the call creates or deletes.
StoreRelated(p) ==
  /\ call[p].op # "delete"
  /\ stored \subseteq stored'
  /\ \A w \in stored' \ stored :
       w.p = p /\ w.n = call[p].n /\ w.d = 2 /\ w.op \in {"create", "delete"}
  /\ staged' = staged

\* An update, the call's own or a related one, joins a transaction of the user's.
Stage(p) ==
  /\ call[p].op # "delete"
  /\ \E t \in Tx : \A u \in Tx :
       IF u # t THEN staged'[u] = staged[u]
       ELSE /\ staged[u] \subseteq staged'[u]
            /\ \A w \in staged'[u] \ staged[u] : w.op = "update" /\ w.p = p /\ w.n = call[p].n
  /\ stored' = stored

Effect(p) ==
  \/ UNCHANGED <<stored, staged>>
  \/ StoreBatches(p) \/ StoreDelete(p) \/ StoreRelated(p) \/ Stage(p)

\* The call goes on, gives up, or returns nil with its rows in the database.
Progress(p) ==
  \/ call' = call
  \/ /\ \A q \in Proc : IF q = p THEN call'[q] \in {[call[q] EXCEPT !.ret = r] : r \in {"ok", "err", "panic"}}
                                 ELSE call'[q] = call[q]
     /\ (call'[p].ret = "ok" /\ call[p].op # "update") => All(p) \subseteq stored'

Act(p) == Running(p) /\ Effect(p) /\ Progress(p)

\* The user commits a transaction, or rolls it back.
End(t) ==
  /\ stored' \in {stored, stored \cup staged[t]}
  /\ \A u \in Tx : staged'[u] = IF u = t THEN {} ELSE staged[u]
  /\ call' = call

Next == (\E p \in Proc : Start(p) \/ Act(p)) \/ (\E t \in Tx : End(t))

Spec == Init /\ [][Next]_vars
=============================================================================
