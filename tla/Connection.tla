----------------------------- MODULE Connection -----------------------------
(***************************************************************************)
(* Connection.Init and Namespace.Init (connection.go, namespace.go): the   *)
(* tables of the registered schemas are created through a connection that  *)
(* Session found, while other goroutines connect, disconnect and register. *)
(*                                                                         *)
(* Both clone the schemas one at a time (SchemaBys) and make one CREATE    *)
(* TABLE IF NOT EXISTS for each, sorted by name (GenDDL).  Connection.Init *)
(* sends them one by one in a transaction (BatchExec), Namespace.Init as   *)
(* the text of one Exec.  What the engine makes of them is external.       *)
(***************************************************************************)
EXTENDS Namespace

CONSTANTS
  Sorted,    \* the schemas, sorted by name
  Engines    \* bound: Mixes -> the drivers on which its behaviours run

ASSUME ConnectionAssumption ==
  /\ Sorted \in Seq(Schema) /\ Elems(Sorted) = Schema /\ Len(Sorted) = Cardinality(Schema)
  /\ Engines \in [Mixes -> SUBSET {"mysql", "postgres", "sqlite"}]

VARIABLES
  engine,    \* the driver of every connection
  tables,    \* pool -> schemas whose table exists and is committed
  job,       \* Proc -> local variables of Init and BatchExec
  ended      \* how the last Init ended: nil, err, panic, uncommitted (nil, but nothing stays)

initVars == <<engine, tables, job, ended>>
allVars == <<vars, initVars>>

Pool == 1 .. MaxConns

\* unread: names SchemaBys has not ranged over; snap: names it cloned; mocks: clones
\* of schemas that setRelations made for a bridge; todo: schemas whose statement is
\* left; mine: tables created and not committed; must: schemas registered ever since
\* the call began.
Job(kind, n) ==
  [pc |-> "read", kind |-> kind, name |-> n, pool |-> conns[n], unread |-> Schema,
   snap |-> {}, mocks |-> {}, todo |-> {}, mine |-> {},
   must |-> {s \in Schema : Has(schemas, s)}]
NoJob ==
  [pc |-> "idle", kind |-> "none", name |-> NoName, pool |-> NoPool, unread |-> {},
   snap |-> {}, mocks |-> {}, todo |-> {}, mine |-> {}, must |-> {}]

ConnectionInit ==
  /\ Init
  /\ engine \in Engines[budget]
  /\ tables = [c \in Pool |-> {}]
  /\ job = [p \in Proc |-> NoJob]
  /\ ended = "none"

At(p, pc) == job[p].pc = pc /\ UNCHANGED <<connVars, schemaVars, hist, engine>>
Goto(p, r) == job' = [job EXCEPT ![p] = r] /\ UNCHANGED <<tables, budget, ended>>

\* The call returns, `made` created on its pool.
Return(p, out, made) ==
  /\ job' = [job EXCEPT ![p] = NoJob]
  /\ ended' = out
  /\ tables' = IF made = {} THEN tables ELSE [tables EXCEPT ![job[p].pool] = @ \cup made]
  /\ UNCHANGED budget

----------------------------------------------------------------------------
\* The calls: Session(n).Init() takes the connection first, Init(n) of the
\* namespace after it has read the schemas.

StartInit(p, kind, n) ==
  /\ job[p] = NoJob /\ Call(p, "init")
  /\ kind = "connection" => conns[n] # NoPool
  /\ job' = [job EXCEPT ![p] = Job(kind, n)]
  /\ UNCHANGED <<connVars, schemaVars, hist, engine, tables, ended>>

\* Session found nothing: the method of a nil connection panics.
StartInitPanics(p, n) ==
  /\ job[p] = NoJob /\ Call(p, "init")
  /\ conns[n] = NoPool
  /\ ended' = "panic"
  /\ UNCHANGED <<connVars, schemaVars, hist, engine, tables, job>>

ReadSchema(p) ==
  /\ At(p, "read")
  /\ \E s \in job[p].unread :
       Goto(p, [job[p] EXCEPT !.unread = @ \ {s},
                              !.snap = IF Has(schemas, s) THEN @ \cup {s} ELSE @,
                              !.mocks = IF schemas[s].ver = 0 THEN @ \cup {s} ELSE @])

\* Mutant of Before: GenDDL does not sort the names, which come from a map.
BeforeUnsorted(s, t) == FALSE

\* GenDDL sorts the names.
Before(s, t) == \E i, j \in 1 .. Len(Sorted) : i < j /\ Sorted[i] = s /\ Sorted[j] = t

\* GenDDL; without a statement Connection.Init returns.
GenDDL(p) ==
  /\ job[p].kind = "connection" /\ job[p].unread = {}
  /\ At(p, "read")
  /\ IF job[p].snap = {}
     THEN Return(p, "nil", {})
     ELSE Goto(p, [job[p] EXCEPT !.pc = "begin", !.todo = job[p].snap])

----------------------------------------------------------------------------
\* BatchExec

Begin(p) == At(p, "begin") /\ Goto(p, [job[p] EXCEPT !.pc = "exec"])

BeginFails(p) == At(p, "begin") /\ Return(p, "err", {})

\* On SQLite the statement ends in PRIMARY KEY () when no field is a key, as in the
\* schema of a bridge: a syntax error.
Accepted(p, s) == ~(engine = "sqlite" /\ s \in job[p].mocks)

\* A CREATE TABLE commits by itself on MySQL.
ExecStatement(p) ==
  /\ At(p, "exec")
  /\ \E s \in job[p].todo :
       /\ Accepted(p, s) /\ \A t \in job[p].todo : ~Before(t, s)
       /\ job' = [job EXCEPT ![p] = [job[p] EXCEPT !.todo = @ \ {s}, !.mine = @ \cup {s}]]
       /\ tables' = IF engine = "mysql"
                    THEN [tables EXCEPT ![job[p].pool] = @ \cup {s}] ELSE tables
  /\ UNCHANGED <<budget, ended>>

\* Mutant of ExecFails: the loop goes on after a statement that failed.
ExecFailsGoesOn(p) ==
  /\ At(p, "exec")
  /\ \E s \in job[p].todo : Goto(p, [job[p] EXCEPT !.todo = @ \ {s}])

\* The error is one of the loop's scope, the deferred function sees none and commits.
\* PostgreSQL rolls a transaction back in which a statement has failed.
ExecFails(p) ==
  /\ job[p].todo # {}
  /\ At(p, "exec")
  /\ Return(p, "err", IF engine = "postgres" THEN {} ELSE job[p].mine)

\* extractParams takes a ? of a COMMENT for a parameter and finds none.  The engine
\* has seen no error and commits the statements before.
ParamsMissing(p) ==
  /\ job[p].todo # {} /\ engine # "sqlite"
  /\ At(p, "exec")
  /\ Return(p, "err", job[p].mine)

BatchDone(p) ==
  /\ job[p].todo = {}
  /\ At(p, "exec")
  /\ Return(p, "nil", job[p].mine)

\* The error of Commit goes to a local variable after the results are set.
CommitFails(p) ==
  /\ job[p].todo = {}
  /\ At(p, "exec")
  /\ Return(p, "uncommitted", {})

----------------------------------------------------------------------------
\* Namespace.Init

\* All statements in one Exec: SQLite runs and commits one after the other up to the
\* one that fails, PostgreSQL all or none, MySQL refuses more than one.
ExecAll(p) ==
  LET c == conns[job[p].name]
      todo == job[p].snap
  IN
  /\ job[p].kind = "namespace" /\ job[p].unread = {} /\ c # NoPool
  /\ At(p, "read")
  /\ \E done \in SUBSET todo :
       /\ \A s \in done, t \in todo : Before(t, s) => t \in done
       /\ engine = "sqlite" => \A s \in done : Accepted(p, s)
       /\ engine = "postgres" => done \in {{}, todo}
       /\ engine = "mysql" => done = {} \/ todo \in {{s} : s \in Schema}
       /\ ended' \in IF done # todo THEN {"err"} ELSE IF todo = {} THEN {"nil", "err"} ELSE {"nil"}
       /\ tables' = [tables EXCEPT ![c] = @ \cup done]
  /\ job' = [job EXCEPT ![p] = NoJob]
  /\ UNCHANGED budget

\* No connection of that name any more: conn is nil, GenDDL panics.
ExecAllPanics(p) ==
  /\ job[p].kind = "namespace" /\ job[p].unread = {} /\ conns[job[p].name] = NoPool
  /\ At(p, "read")
  /\ Return(p, "panic", {})

----------------------------------------------------------------------------
InitStep(p) ==
  \/ \E kind \in {"connection", "namespace"}, n \in Name : StartInit(p, kind, n)
  \/ \E n \in Name : StartInitPanics(p, n)
  \/ ReadSchema(p) \/ GenDDL(p)
  \/ Begin(p) \/ BeginFails(p) \/ ExecStatement(p) \/ ExecFails(p) \/ ParamsMissing(p)
  \/ BatchDone(p) \/ CommitFails(p)
  \/ ExecAll(p) \/ ExecAllPanics(p)

\* A step of the namespace; what a running Init has to create is what stays registered.
NamespaceStep(p) ==
  /\ job[p] = NoJob
  /\ ConnectionStep(p) \/ SchemaStep(p)
  /\ job' = [q \in Proc |-> [job[q] EXCEPT !.must = {s \in @ : Has(schemas', s)}]]
  /\ UNCHANGED <<engine, tables, ended>>

ConnectionNext == \E p \in Proc : InitStep(p) \/ NamespaceStep(p)

ConnectionSpec == ConnectionInit /\ [][ConnectionNext]_allVars

----------------------------------------------------------------------------
\* Properties

Ends(p) == job[p].pc # "idle" /\ job'[p].pc = "idle"
PoolOf(p) == IF job[p].kind = "connection" THEN job[p].pool ELSE conns[job[p].name]

\* Init that returns nil, of a connection or of the namespace, has created the table
\* of every schema that was registered from the call to its end, bridges that other
\* goroutines registered meanwhile included, unless Commit failed unnoticed.
InitCreatesTables ==
  [][\A p \in Proc : (Ends(p) /\ ended' = "nil") => job[p].must \subseteq tables'[PoolOf(p)]]_allVars

\* An Init that fails has created nothing behind the statement that failed: whenever
\* it makes a table visible, those of all schemas it read that sort before exist.
TablesInOrder ==
  [][\A p \in Proc : (job[p].pc # "idle" /\ job'[p] # job[p] /\ tables' # tables) =>
       \A i, j \in 1 .. Len(Sorted) :
         (/\ i < j /\ Sorted[i] \in job[p].snap
          /\ Sorted[j] \in tables'[PoolOf(p)] \ tables[PoolOf(p)])
           => Sorted[i] \in tables'[PoolOf(p)]]_allVars
=============================================================================
