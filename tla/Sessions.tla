------------------------------ MODULE Sessions ------------------------------
(***************************************************************************)
(* What the remote clients of HandleAio may rely on (aio.go), with neither *)
(* ids nor txStore nor runs of the process in sight: the abstract          *)
(* specification that Aio implements.                                      *)
(*                                                                         *)
(* A client holds the transactions it began and names them in its          *)
(* requests.  A statement of its own is stored before it is answered with  *)
(* success, a batch excepted; an update joins the transaction that its     *)
(* request names, and the one request that ends a transaction is told so.  *)
(* A failure ends all that is open, unheard, loses the answers not yet     *)
(* given, whatever was done by then, and nobody holds a transaction any    *)
(* more.  Of a name that does not stand for a transaction the client holds *)
(* (NoTx) nothing is promised but that it means one transaction, or none.  *)
(***************************************************************************)
CONSTANTS
  Client,
  Tx,       \* transactions
  NoTx,     \* no name, or one that stands for nothing the client holds
  Kind,     \* requests
  Write     \* writes of requests

VARIABLES
  stored,   \* the writes in the database
  state,    \* Tx -> "unused", "open", "committed" or "rolledback"
  staged,   \* Tx -> its writes
  holds,    \* Client -> transactions it can name
  ask,      \* Client -> its request, or Idle: kind, transaction, write and outcome
  answer    \* Client -> what it was told last

vars == <<stored, state, staged, holds, ask, answer>>

\* Requests whose write, if any, is stored by itself, and those about transactions
Batch == "exec_batch"
Stores == {"exec", Batch, "create_list", "model_delete"}
Ends == {"tx_commit", "tx_rollback"}
Reads == Kind \ (Stores \cup Ends \cup {"create_object", "model_update", "tx_begin"})

Idle == [kind |-> "none"]
Asking(c) == ask[c] # Idle
Working(c) == Asking(c) /\ ask[c].out = "none"

Init ==
  /\ stored = {}
  /\ state = [t \in Tx |-> "unused"] /\ staged = [t \in Tx |-> {}]
  /\ holds = [c \in Client |-> {}]
  /\ ask = [c \in Client |-> Idle] /\ answer = [c \in Client |-> "none"]

\* A request with a write that was never made, and a transaction that c holds, if any
Ask(c) ==
  /\ ~Asking(c)
  /\ UNCHANGED <<stored, state, staged, holds, answer>>
  /\ ask'[c] \in [kind : Kind, tx : holds[c] \cup {NoTx}, w : Write, out : {"none"}]
  /\ ask' = [ask EXCEPT ![c] = ask'[c]]
  /\ ask'[c].w \notin stored /\ \A t \in Tx : ask'[c].w \notin staged[t]

\* The work of a request is over; nobody knows yet.
Outcome(c, r) == ask' = [ask EXCEPT ![c].out = r] /\ UNCHANGED <<holds, answer>>

Refuse(c) == Working(c) /\ Outcome(c, "err") /\ UNCHANGED <<stored, state, staged>>

\* Of a batch that is not stored success may be the answer all the same.
Read(c) ==
  /\ Working(c) /\ ask[c].kind \in Reads \cup {Batch}
  /\ Outcome(c, "ok")
  /\ UNCHANGED <<stored, state, staged>>

\* What is answered with an error may have been stored too.
Store(c) ==
  /\ Working(c) /\ ask[c].kind \in Stores
  /\ stored' = stored \cup {ask[c].w}
  /\ Outcome(c, "ok") \/ Outcome(c, "err")
  /\ UNCHANGED <<state, staged>>

\* A transaction that c holds is meant by its name, and any may be by another name.
Means(c, t) == ask[c].tx \in {NoTx, t}

\* An update is never answered with success.
Stage(c) ==
  /\ Working(c) /\ ask[c].kind = "model_update"
  /\ \E t \in Tx :
       /\ Means(c, t) /\ state[t] = "open"
       /\ staged' = [staged EXCEPT ![t] = @ \cup {ask[c].w}]
  /\ UNCHANGED <<stored, state, holds, ask, answer>>

\* Until it is answered nobody holds the transaction.
Begin(c) ==
  /\ Working(c) /\ ask[c].kind = "tx_begin"
  /\ \E t \in Tx :
       /\ state[t] = "unused"
       /\ state' = [state EXCEPT ![t] = "open"]
       /\ ask' = [ask EXCEPT ![c].tx = t, ![c].out = "ok"]
  /\ UNCHANGED <<stored, staged, holds, answer>>

\* Success is the answer only to the request that ended the transaction as it asked.
End(c) ==
  /\ Working(c) /\ ask[c].kind \in Ends
  /\ \E t \in Tx :
       /\ Means(c, t) /\ state[t] = "open"
       /\ \/ /\ ask[c].kind = "tx_commit"
             /\ state' = [state EXCEPT ![t] = "committed"] /\ stored' = stored \cup staged[t]
             /\ Outcome(c, "ok") \/ Outcome(c, "err")
          \/ /\ state' = [state EXCEPT ![t] = "rolledback"] /\ stored' = stored
             /\ Outcome(c, "err") \/ (ask[c].kind = "tx_rollback" /\ Outcome(c, "ok"))
  /\ UNCHANGED staged

Tell(c) ==
  /\ Asking(c) /\ ~Working(c)
  /\ ask' = [ask EXCEPT ![c] = Idle]
  /\ answer' = [answer EXCEPT ![c] = ask[c].out]
  /\ holds' = IF ask[c].kind = "tx_begin" /\ ask[c].out = "ok"
              THEN [holds EXCEPT ![c] = @ \cup {ask[c].tx}] ELSE holds
  /\ UNCHANGED <<stored, state, staged>>

Fail ==
  /\ \E c \in Client : Asking(c)
  /\ state' = [t \in Tx |-> IF state[t] = "open" THEN "rolledback" ELSE state[t]]
  /\ holds' = [c \in Client |-> {}]
  /\ ask' = [c \in Client |-> Idle]
  /\ answer' = [c \in Client |-> IF Asking(c) THEN "lost" ELSE answer[c]]
  /\ UNCHANGED <<stored, staged>>

Next ==
  \/ Fail
  \/ \E c \in Client :
       \/ Ask(c) \/ Refuse(c) \/ Read(c) \/ Store(c) \/ Stage(c) \/ Begin(c) \/ End(c) \/ Tell(c)

Spec == Init /\ [][Next]_vars
=============================================================================
