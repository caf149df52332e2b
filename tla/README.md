# dba: a verification project

dba is a Go data-access library.  A program connects to databases, registers
schemas (tables, fields and relations between them), and creates, queries,
updates and deletes rows through DataModels, documents with related documents in
them included.  `HandleAio` offers the same operations to remote clients, and
`cmd/unix` serves it on a Unix socket.

This directory holds TLA+ modules translated from the Go source, TLC
configurations that check them on small instances, and theorems that TLAPS checks
for all values of the constants.  `PROJECT.json` maps each definition to the
lines it stands for.

## 1. The system

| Component | State it keeps | Operations |
|---|---|---|
| Namespace (`namespace.go`, `dba.go`) | `connections`, `schemas`: two `sync.Map`s | Connect, Session, Disconnect, DisconnectAll, RegisterSchema, UnregisterSchema, SchemaBys, setRelations, Model, Init |
| Connection (`connection.go`) | a `sqlx.DB` pool, clause templates | Begin, Exec, BatchExec, Query, GenDDL, Init |
| DataModel and Result (`model.go`) | `xtx`, the transaction Update runs in; filters, order, limit, populates of a query | Create, Find, Update, Delete, One, All, Count, Paginate; relatesWrite, relatesQuery |
| Filters (`filter.go`, `model.go`) | none | And, Or, parseConditions, parseWhere |
| Schemas (`schema.go`) | parse cache of struct types, field cache of a schema | ParseSchema, parseRelation, Clone |
| Documents (`reflect_value.go`, `tools.go`) | none | FieldByName, Map, SetFieldOrKey, Item2List |
| Drivers (`driver*.go`) | none | Connect, GenDDL, clause templates |
| Remote interface (`aio.go`) | `txStore`: transaction id to transaction | HandleAio |
| Unix server (`cmd/unix/unix.go`) | listener, WaitGroup, quit channel, socket file | Start, accept loop, handlers, shutdown |

How they interact.  The Unix server runs one goroutine per connection, each calls
HandleAio, which calls the default Namespace; a DataModel keeps the Connection and
a clone of the Schema it found there when it was made.  Create and Update call
relatesWrite, which makes DataModels of the related schemas and calls Create,
Update and Delete on them.  Every path ends in database/sql: statements run in a
transaction or on the pool, and wait for row locks that transactions hold.

What is hard here.  Goroutines share Namespaces, DataModels and transactions
without a lock of dba's own.  Three kinds of transactions exist at once (the
user's, the ones Create begins, the ones ensureXtx begins) and the code decides by
the operation which one a statement joins.  Every statement may fail after others
took effect.  A panic ends the process and, with it, every connection.  Ids of
transactions are addresses.  The server's shutdown races with its accept loop.
`PROJECT.json` lists these hazards at their lines, each with the properties that bear on
it; where they do not settle it, or nothing does, a note says what is left.

What makes each part correct, in short.  *Create/Update/Delete*: a batched Create
is all or nothing or a prefix, a transaction is used by the call it belongs to,
what is durable is what somebody committed, and every call ends.  *Unix server*:
the WaitGroup counts exactly the handlers that run, a restart after a crash works,
a signal leads to an exit.  *Remote interface*: a transaction id keeps its meaning,
what a client was told is stored stays stored, a transaction ends once.
*Namespace*: names and relations come out right when registrations and connects
race.  *Connection*: Init creates the tables of what
is registered, in order.  *Related writes*: what the design comment at `model.go:47-54`
asks for is what is written (it is not).  *Queries*: the SQL condition means what And and Or were given,
and nothing of an earlier use of a Result is left in the next.

## 2. Modules

| Module | Models | Variables and the state they stand for |
|---|---|---|
| `Promise` | what callers of Create, Update and Delete may rely on: the abstract specification | `stored`, the rows of the database; `staged`, writes in open transactions of the user's; `call`, what each goroutine called and got back |
| `DataModel` | `model.go` Create, Update, Delete, ensureXtx, relatesWrite; implements `Promise` | `xtx` is `DataModel.xtx`; `frame` and `depth` are the goroutine's stack of operations; `txState`, `txOwner`, `txWrites`, `durable` are the database |
| `RelatesWrite` | `model.go` relatesWrite, by kind of relation and list of options | `doc`, `todo` are its loops; `pending` the statements of the relation at hand; `written` what the database has run |
| `Service` | what the clients of the Unix server may rely on: the third abstract specification | `phase`, whether a server listens, drains or is off; `stopped`, what its exit status tells; `with`, `line`, the server of a connection and how far it has come |
| `UnixServer` | `cmd/unix/unix.go`; implements `Service` | `st` (main), `acc` (acceptConnections), `sd` (handleShutdown), `conn` (handleConnection), `quit`, `wg`, `sock` (the file) |
| `Sessions` | what remote clients of HandleAio may rely on: the second abstract specification | `stored`, `state`, `staged`, the database and its transactions; `holds`, the transactions that a client can name; `ask`, `answer`, its request and what it was told |
| `Aio` | `aio.go`; implements `Sessions` | `txStore` is the map of the same name; `req` and `pc` the request at hand; `connected` whether the default connection exists |
| `Namespace` | `namespace.go`, `schema.go` parseRelation | `conns` and `schemas` are the two `sync.Map`s; `stack` holds the nested runs of RegisterSchema with the clones they work on |
| `Connection` | `connection.go` Init and BatchExec, Namespace.Init | extends `Namespace`: `tables` are the tables behind each pool, `job` the local variables of Init |
| `Filters` | `filter.go`, `parseWhere`; `Reading` is the database's parser of conditions | operators only |
| `Query` | `model.go` Result | `res` is the Result; `given` remembers what the caller asked for; `table` is the database |
| `DataModelProofs`, `DataModelBatches` | theorems about `DataModel` and `Promise` | |
| `MCRelatesWrite` | the design comment of related writes, `model.go:47-54`, beside `RelatesWrite` | `asked`, the statements that it asks for |
| `RelatesWriteProofs`, `UnixServerProofs` | theorems about `RelatesWrite`, and about `UnixServer` and `Service` | |
| `AioProofs` | theorems about `Aio` and `Sessions` | |
| `NamespaceProofs`, `ConnectionProofs` | theorems about `Connection` with `Namespace` | |
| `QueryProofs` | theorems about `Query` with `Filters` | |

`Query` extends `Filters`, `Connection` extends `Namespace`, `DataModel` has `Promise`
as an instance, `Aio` has `Sessions` and `UnixServer` has `Service`; every `MC...` module extends its component and gives values to
the constants.  `Aio` and `UnixServer` meet in HandleAio: `UnixServer` takes each
request as one that returns, panics or never returns, and `Aio` shows which request
does which.  `Aio` and `DataModel` meet in Create and Update: `Aio` takes their
outcome per kind of argument, `DataModel` shows what happens inside.  `RelatesWrite`
shows which of the related writes that `DataModel` allows can happen.

### How actions correspond to code

One action is one step between two points where another goroutine can get in: a
statement, a begin or a commit, a load or a store of a shared map, a channel or
WaitGroup operation.  Local computation is part of the step before it.  Names
follow the source, `...Err`, `...Fails` and `...Panics` are its failure paths.

**DataModel.** The database is external: it may refuse any statement (drivers do:
the stock MySQL and SQLite drivers refuse the `*reflect.Value` arguments that Create
passes, `model.go:178-186`, and drivers without LastInsertId fail in
`model.go:149-161`).  Two steps are merged: `Beginx` with the assignment in
ensureXtx, after which nothing reads `xtx` but the goroutine's own next step, and
the copy of `SrcModel.xtx` at the head of relatesWrite with the step before.
A document is its shape: what Item2List and Map make of it decides between a value
and a panic.  Related writes nest once and no deeper.  This is exact: relatesWrite
calls Create with a map by value, whose own relatesWrite panics in Item2List, or
with a `[]any`, in which it finds no relation, and Update with a map by value,
which panics after the statement.  Which related rows relatesWrite writes depends
on the field strategies and on stored rows; `DataModel` lets it make any sequence of
up to `MaxStmts` creates, updates and deletes, which is more than it does:
`RelatesWrite` shows that no delete is reached and that an update is the last.
Setting a generated id can loop for ever (`reflect_value.go:365-376`); `spin` is
that loop.  A column of ConflictUpdates without a value panics in the first insert, after
Beginx and past the rollback (`model.go:229-230`); a caller that recovers goes on with a
transaction that nobody can end (`InsertPanics`).

**Promise.** No transaction but the user's, and no step smaller than what a caller
could see.  The mapping: `stored` is `durable`; `staged` holds what is written in the
user's open transactions (`Staged`); `call` is the frame at
the bottom of the stack and whether it has returned (`Called`).  What Create has in its
own open transaction maps to nothing, so that its commit is one step of `Promise`.

**Sessions.** No ids, no txStore and no runs of the process.  A client holds the
transactions that it began since the process started; a request names one of them, or
names nothing that it holds (`NoTx`: no id, an id of a run before, or one that another
client was given), which may mean any transaction or none, and end the process.  The mapping: `stored`,
`state`, `staged` and `answer` are `durable`, `tx`, `writes` and `reply`; `holds` are
the transactions of this run that the client was `given` an id of (`Holds`); `ask` is the
request from its arrival to its answer, with what its id stands for and, once the work is
done and not yet answered, the outcome (`Asked`).  A batch of statements may be answered
with success and not be stored, and that is all that is promised of it.
Looking the id up, the end of the statement of an update and the restart map to nothing.

**RelatesWrite.** One call of relatesWrite over some documents, whose schema has one
relation of each kind.  The statements of a relation are a set, `pending`, in which each
has its position in the slices the code builds (`Precedes`); `Run` takes a first one. The value of a relation is read once and chosen then.  The
strategies are those of `calcFieldStrategy`: the first of the four lists that names a
field counts, and a field in no list is treated as one to append to.  The stored rows of a HAS_MANY are
read with All into a slice that `NewVar` has not made, so there are never any.  HAS_ONE
ends in an error or a panic of One, a REFERENCES_MANY without a bridge schema in a panic.
Relations to a field other than the primary key are left out.  `MCRelatesWrite` adds what
the design comment asks for each HAS_MANY value that the call has looked at (`Design`), the
rows stored before being any.

**UnixServer.** Clients stand for connections.  `UnixListener.Close` removes the
path whoever made the file, and `os.Remove` runs again after it.  Wait returns in
two steps, so that an Add in between is the reuse that makes the WaitGroup panic.
The select after a failed Accept can take the signal that was meant for
handleShutdown.  Bytes on the wire are left out: a message arrives or the read
ends.

**Service.** No accept loop, goroutines, WaitGroup, quit channel or socket file.  A
server that listens takes connections; one that drains takes none and drops those that
wait; it stops when the connections it took have ended, but for one at most, and only
a failure cuts more.  The mapping: `phase` is the state of the listener (`Phase`);
`stopped` says whether the last process ended by os.Exit(0) (`Stopped`), without which a
stop that cuts many connections would pass for a failure; `line` is the state of the
connection, with a request in work until its reply is sent (`Line`).  The start up to
Listen, wg.Add, the accept loop's end, the signal and Wait map to nothing.

**Aio.** `query`, `exec`, `tx_begin` and every `model_...` request need the connection:
Session returns nil without it, which they use all the same, and the process ends
(`NoSession`).  `disconnect`, `register_schema` and `unregister_schema` always fail in
ConvertData, so no schema can be registered over the socket: `Prepared` says whether the
embedding program has registered some.  In `cmd/unix` itself it has not, and every
`model_...` request there, those that read included, panics in Model (`HasSession`).
`schema_by`, `schema_bys`, `connection_names` and an unknown action are `other`, which
needs nothing.  The work of a request and its answer are two steps: a panic of another
request in between leaves what was done and loses the answer.  `exec` with `is_batch` is a
kind of its own: BatchExec commits in a deferred function whose error reaches nobody
(`connection.go:96-102`), so it is answered with success whether stored or not.  Row locks
are `DataModel`'s business and are left out here.

**Namespace.** A schema has at most one relation, `many` for HAS_ONE, HAS_MANY and
REFERENCES_ONE, `refs` for REFERENCES_MANY with its bridge.  Calls that fail before
they store anything are left out.  `ItemType` (`namespace.go:231-235`) and the
templates of a connection have no effect on what is modelled.  The version in an
entry tells registrations of one schema apart; the code has no such number.  The
kinds are those of the constants in `schema.go:48-51`: the comments of parseRelation
write REF_ONE and REF_MANY, which it does not accept.

**Connection.** `Session(n).Init()` looks the connection up first and reads the schemas
after it; `Namespace.Init(n)` does it the other way round, and then a connection that is
gone is a nil pointer.  SchemaBys clones the schemas one at a time.  GenDDL makes one
CREATE TABLE IF NOT EXISTS of each, sorted by name (`job.todo` is the set of those that
are left, `Before` their order); BatchExec runs them in a transaction
that its deferred function always commits, as the error of a statement is a variable of
the loop (`connection.go:113`).  The engines are external and differ: MySQL commits every
CREATE TABLE by itself and refuses several statements in one Exec, PostgreSQL rolls a
transaction back in which a statement failed, SQLite refuses the empty `PRIMARY KEY ()`
of the schema that setRelations makes for a bridge.  An error of Commit is lost.  dba opens
SQLite as `sqlx.Connect("sqlite", ...)`, a name that the driver in `go.mod` does not
register (it is "sqlite3"): that part of the model is about programs which register an
engine under that name themselves.

**Filters and Query.** `ParseWhere` yields the tokens of the condition and its
parameters, `Holds` reads them as SQL does (AND before OR, parameters by position).
And and Or make a tree that parseWhere later walks; nothing changes a Filter in
between, and its text depends on nothing else, so here it is that text from the start.
Beside the text a Filter has its meaning (`says`, `pass`): whether any argument of it
restricts, and which rows all of them let pass (`Restricts`, `Passes`).  The text is
never made from it; properties compare the two.  The meaning of one comparison is taken from the code, and so is that an argument which
parseConditions does not know (a lone string, or the names and values of a list of odd length, `filter.go:164-183`)
restricts nothing.
Or over several filters is the conjunction the code makes.  The database may fail
any statement, and picks rows freely where the statement has no order.  Update runs
in the DataModel's transaction, so `table`, which queries read through the pool,
does not change.  A query has a destination: `one` is a struct or a map, which take
the first row; `slice` a slice of structs that was made; `nilslice` a declared slice,
which ValueIs does not know, so that autoScan asks the database nothing and returns nil.
With Populate a query always fails after it has read its rows: relatesQuery takes
the address of the slice that GetZeroSliceValueOfField makes, and it has none, and for a
bridge that is no schema its parameter is a list, which database/sql refuses
(`RelatesQuery` has the outcome by kind of relation).

## 3. Runs

| Run | Question | Result |
|---|---|---|
| `datamodel_shared` | two goroutines, one DataModel, any failures: are transactions kept apart, and is every step one that `Promise` allows? | holds, and so does the inductive invariant of the proofs |
| `datamodel_sequential` | one goroutine, auto-increment, two calls: is what Create returns true, which failures leave its transaction open, does every call end? | holds; a call ends, or it waits for a lock or loops setting an id |
| `datamodel_update_delete` | does a Delete that follows an Update on one DataModel return, as `examples/4-crud` expects? | **no**: Delete waits for the lock that the DataModel's own open transaction keeps |
| `unix_path` | two servers on one path, crashes, a restart, failing Accept, shutdown: is every step one that `Service` allows? | holds, and so does the inductive invariant of the proofs |
| `unix_lost` | are all connections handled at exit, as `unix.go:185` says? | **no**: one may be lost |
| `aio_store` | two clients, two ids, crashes between work and answer: what do ids and answers mean, and is every step one that `Sessions` allows? | holds, and so does the inductive invariant of the proofs |
| `aio_unknown` | is an unknown transaction id refused? | **no** |
| `namespace` | connects, disconnects, registrations and Inits that race | holds |
| `relates_design` | does relatesWrite write what the design comment asks for? | **no**: the first update ends the call in a panic, and see section 4 |
| `query_result` | meaning of conditions, reuse of a Result, what writes touch | holds |
| `query_list` | does All fill a declared list, as in `examples/4-crud`? | **no**: it asks nothing and returns nil |
| `query_sort` | does sorting keep the rows? | **no**: it is written as GROUP BY |

Bounds, and why they are enough.

* `datamodel_shared`: two goroutines, because each property is about one call and at
  most one that interferes; two batches, to have a first and a last; three
  transactions, since a Create, an ensureXtx and a client's may be open together; two
  related writes, as a failure before, between and after them is then possible.  Its
  documents can be walked, which is the shape with the most outcomes.
* `datamodel_sequential`: two calls, so that one uses what the other left in `xtx`, two
  rows, and the documents that do what no other does (`Telling`).  The panic of an
  insert needs no bound: it is of the first batch.
* `unix_*`: server `s1` starts twice (crash or exit, then restart) next to `s2` on
  the same path; two connections, one of which may talk for ever; one signal each.
* `aio_*`: two clients with two requests each reach tx_begin, a use and a race of two
  ends; two runs of the process; two addresses, of which one may be reused.
* `namespace`: three pools, so that two are replaced or dropped while one is made, and
  three schemas: a many-to-many relation, its other side, and the bridge, which
  callers also register and unregister themselves, then with a relation of its own.  Connections and schemas share no
  variable but through Init, so `Calls` takes them one kind at a time (three connects
  with two disconnects; two registrations with one unregistration), and then
  a few of every kind around one Init on each driver, and two Inits that race on SQLite.
* `relates_design`: two items of a value and two keys, so that a first one leaves a second
  undone; all sixteen sets of lists.
* `query_*`: two filters in a row and one built before and nested in them, six
  kinds of arguments (among them none, nil values, two Conds, a list for $IN and a lone
  string, which is ignored),
  three rows of which two share a name and one has none, two uses of a Result.

`CHECK_DEADLOCK FALSE` is set everywhere: the bounds on calls end every behaviour,
and a goroutine may wait for a row lock for ever.  The properties that nothing
gets stuck are `CallsEnd`, `SignalStartsShutdown` and `ShutdownEnds`.

Fairness.  `DataModel`: a goroutine that does not wait for a lock goes on running
(the Go scheduler); nothing makes the holder of a lock let go, as the transaction of
ensureXtx is never ended.  `UnixServer`: goroutines of the server go on running and
read deadlines expire (`unix.go` sets one before every read).  HandleAio need not
return and a write has no deadline, so `ShutdownEnds` excepts a connection that is
served for ever.

Every property of a run that holds has a mutant in `PROJECT.json`: a change to one definition, of the
kind a slip in the code would be, under which the property fails.

## 4. What the violation runs say of the code

* **Update, then Delete** (`datamodel_update_delete`).  ensureXtx begins a
  transaction that nothing commits; Delete runs on the pool and waits for the row
  locks of that transaction for ever.  `examples/4-crud/4-crud.go:34-46` shows
  `Tenant.Find("ID >", 1).Update(...)` and then `Tenant.Find("ID =", list[0].ID).Delete()`
  on one DataModel as normal use.  As written the example stops before that: its Update is
  given a struct, on which parseStructToMap panics (`reflect_value.go:221`) before a
  transaction is begun.  With a map the Delete waits for ever.
* **Lost at exit** (`unix_lost`).  The accept loop may hold a connection it has not
  added to the WaitGroup when Wait returns; the process exits without handling it.
* **Unknown ids** (`aio_unknown`).  The callers of loadTxWithStoreID test the wrong
  error variable.  A model request goes on without a transaction, and tx_commit or
  tx_rollback dereferences nil and ends the process.
* **Related writes** (`relates_design`).  The comment at `model.go:47-54` and 64-67 says
  what each list of options does with the documents of a HAS_MANY.  The shortest run: of two
  documents with ids the first is updated, which ends the call in a panic.  The same
  property fails in four other ways.  Two documents without ids become one row.  An ignored
  field still inserts, and one to append to updates, as `calcFieldStrategy` numbers the lists in another
  order than the comment.  And no row is ever deleted.  `RelatesWriteProofs` proves how far each goes.
* **Lists** (`query_list`).  ValueIs calls a nil slice UNKNOWN, and autoScan has no case
  for it: All into a declared slice returns nil and runs no statement.
* **Sorting** (`query_sort`).  beforeQuery stores the order under the key of GROUP BY.

## 5. Proofs

All theorems hold for every value of the constants that satisfies the named
assumption of the module they are about.

**DataModel** (`DataModelProofs`, `DataModelBatches`):

| Theorem | Says |
|---|---|
| `Invariance`, `TypeCorrect` | `Spec => []IInv`, and `TypeOK` |
| `UpdatesDurable` | an update is durable only through a commit of the client's own transaction |
| `TransactionsSeparate` | a transaction holds writes of one kind of operation |
| `CreatePrivate` | the transaction of a running Create is open and nobody else's |
| `ExecHasTx` | Update never runs on a nil transaction, however goroutines race in ensureXtx |
| `BatchInvariance` | `Spec => []BInv` |
| `SharedIsAtomic` | a Create with SharedTx stores all of its batches or none |
| `UnsharedIsPrefix` | any other stores a prefix of them |
| `NilMeansStored` | a Create that returned nil has stored every batch |
| `DeleteWaits` | Delete changes no row that a transaction holds |
| `LeavesOpen` | a Create that ends leaves its transaction open only after related writes, or empty after a panic of its first insert |
| `Refinement` | `DataModel` implements `Promise` |
| `ReachInvariance` | `Spec => []ReachInv`, if no two goroutines share a DataModel (`OneUser`) |
| `UpdatesReachable` | under the same condition, an open transaction with a caller's update in it is the `xtx` of a DataModel |

The argument.  None of these properties is inductive.  That a Create's transaction
stays private needs to know that a DataModel's `xtx` and the `cap` of a frame are
never a Create's transaction (`HandlesOK`, `FramesOK`): otherwise an Update of another
goroutine could write into it or a client end it.  That needs handles to be fresh
when Beginx returns them: those from `nextTx` on have no owner and no writes.  That
updates become durable only through clients needs in addition that ensureXtx's
transactions stay open (`HandlesOK`), and that what is durable was written in a
transaction of its kind (`WritesOK`).  `OwnWritesOK` ties the writes of a running
Create to its call, so that when the next batch is inserted the writes still belong to one
call (`OneCallPerTx`).  `IInv` is the conjunction; one lemma per action, grouped
by what the action does to the transactions (insert, begin, end, nothing).

What is stored of a Create needs to know where each of its batches is at every point of
its program: `BInv` adds to `IInv` that the batches before the current one are durable
or in the transaction of the frame, and no others (`CreateOK`); that no write carries
the number of a call that has not begun (`NoFuture`), or a new call could find its
batches stored already; that the frames of a stack fit together (`NestingOK`); and that
a Create that begins a transaction has ended the one before (`ClosedOK`).  `StepForms` and its
companions say what any step of one goroutine does to the frame and the
writes of another (nothing), so that each action is only looked at for its own.

The refinement takes the mapping of section 2.  It needs `BInv`: that the commit of a
Create stores exactly the batches that `Promise` stores, and that a call that returns
nil has them stored.  Every action maps to `Act`, `Start`, `End` or a stutter.

`UpdatesReachable` is false when goroutines share a DataModel: two of them pass the check of
ensureXtx, and the second Beginx replaces the transaction of the first.  `OneUser` says
that this is the only way: the goroutines still share the database, its rows and its
locks.  `ReachInv` adds to `BInv` that a call works on a DataModel of its goroutine, or
one that relatesWrite made for it (`OwnModels`), and that nothing sets `xtx` between the
check and the Beginx (`CheckHolds`); ensureXtx then never replaces a transaction.

**RelatesWrite** (`RelatesWriteProofs`), for any documents, items, keys and lists of
options.  The theorems are about what the code does, where `relates_design` shows that it
is not what the design asks for; they say how much of the design is ever done:

| Theorem | Says |
|---|---|
| `RelatesInvariant` | `Spec => []RelatesInv` |
| `UpdateEnds` | at most one related update is run, the last statement of the call, which then panics; no delete is |
| `OneNewRow` | the new documents of a HAS_MANY value are one statement, however many they are |
| `IgnoreSpares` | no related row of a field that IgnoreFields names is updated or deleted; rows are still inserted |

The argument.  What has been written does not say what may still be, so the second and
the third are not inductive.  `PendingOK` says what is pending: no delete, as nothing
is stored to compare with; one create at most, and then the HAS_MANY of this document
is not looked at again; only creates when the field is ignored, since that list is looked at first
(`Ignored`).  `CreatesOK` counts: a document whose create is pending or may still
come has not had one.

**UnixServer** (`UnixServerProofs`):

| Theorem | Says |
|---|---|
| `Invariance` | `Spec => []IInv` |
| `WaitGroupIsRight` | the WaitGroup counts exactly the handlers that run |
| `LosesOneAtMost` | an exit leaves at most one accepted connection unfinished |
| `StartsAgain` | a server that does not start has another one on its path to blame, not the file of a crash |
| `SocketKept` | the socket file of a listening server goes only by its own shutdown, or another server on the path |
| `ServiceInvariance` | `Spec => []SInv` |
| `ImplementsService` | `UnixServer` implements `Service` |

The argument.  `ProcessOK` ties the states of main, of the accept loop and of the shutdown
goroutine of a process together; `AcceptOK` says that a connection that is accepted and
not counted is in the hands of the accept loop, of which there is one, hence at most
one is lost, and that nothing else is left once Wait is done; `ConnOK` that a connection
which was dialled is some server's; `PathOK` that a server which starts alone finds the
path as it left it.  The WaitGroup's counter is
a cardinality, which the lemmas on adding and removing an element keep equal.

The refinement needs more than `IInv`, which says nothing of a connection and the listener it
came from.  `SInv` adds that the listener is there from Listen until the signal is taken
(`ListenerOK`), so that closing it is a `Drain`; and that a connection in the backlog has
a listener that is open and one in work a process that runs (`LinesOK`), so that the end of a
process cuts all its connections and no others, and a drained server has none that wait.
`AcceptOK` then allows the `Stop` of an exit.  The end of a process in any other way is
`Fail`, every step of a connection the one of its name or a stutter.

**Aio** (`AioProofs`):

| Theorem | Says |
|---|---|
| `Invariance`, `TypeCorrect` | `Spec => []IInv`, and `TypeOK` |
| `IdsKeepMeaning` | an id means one transaction as long as the process runs |
| `AckedWritesAreDurable` | a write answered with success is stored, unless it is a batch of statements |
| `UpdatesAreCommitted` | an update is durable only in a committed transaction |
| `OneClientEnds` | at most one client is told that it ended a transaction |
| `OpenIsReachable` | an open transaction is in the store |
| `LookupInvariant` | `Spec => []RInv` |
| `ImplementsSessions` | `Aio` implements `Sessions` |

The argument.  `IdKeepsMeaning` allows an id that the store has lost, after which Begin
could give its address to another transaction: it is not inductive.  `GivenOK` says
that nothing is lost while the run lasts, and that what a client knows was begun,
so that a transaction just begun is not one that a client already knows.
`HandlesOK` puts every transaction in a run that has started, so that Restart makes
all ids of before meaningless at once, and says that nobody was told of the end of a
transaction that has not ended, which `EndedOnce` needs when End takes an open one.
An answer that is still to be given must be true by then: `WritesOK` says so of a write that
is stored by itself, `EndingsOK` of the end of a transaction, which no other request may be
about to claim, and `BegunOK` of the id of a new one.  `NoneWhenDown` ends every request
with the process, so that the next run finds none half done.
A crash maps open transactions to rolled back ones and leaves what was durable.

For the refinement `RInv` adds that a request which has looked its id up has found the
transaction that the id stands for (`LookedUpOK`): between lookup and use other clients
begin and end transactions, and that does not change what it found, nor what the id
means.  `NumbersOK` says that no write is of a request to come, so that what is stored for
a request was stored by it.  The work of a request maps to the step of the same
name, its answer to `Tell`, each way to crash (`NoSession`, `CreatePanics`, `UpdatePanics`,
`EndUnknown`) to `Fail`.

**Namespace and Connection** (`NamespaceProofs`, `ConnectionProofs`):

| Theorem | Says |
|---|---|
| `ConnectionsInvariant` | `ConnectionSpec => []ConnInv` |
| `DefaultThere` | with unnamed connections only there is a default one once a Connect has returned |
| `DisconnectAllLeavesNone` | nothing that DisconnectAll saw is left when it returns |
| `RelationsInvariant` | `ConnectionSpec => []RelInv` |
| `RelationsSet` | once all registrations have returned every declared relation is set, unless one panicked |
| `NestingInvariant` | `ConnectionSpec => []NestInv` |
| `NestingBounded` | without overlap RegisterSchema nests at most once for each bridge, so its recursion ends |
| `LatestInvariant` | `ConnectionSpec => []LatestInv` |
| `LatestIsStored` | without overlap every schema is as its last registration left it |
| `BridgesAreRegistered` | without overlap and panic, the bridge of every relation that is kept is a schema |
| `TablesInvariant` | `ConnectionSpec => []TablesInv` |
| `InitCreates` | Init that returns nil has created the table of each schema that was there all the time |
| `InitCreatesInOrder` | an Init that stops has created the tables before the failing one and none behind |

The argument.  For the default connection: while nobody names or drops one, the names in
use are the numbers below some m, and a Connect that has counted holds a number up to m
(`NamesOK`); two that race take the same one, which keeps this true.  For DisconnectAll:
a pool is stored at most once, so what it saw is where it saw it or gone (`PoolsOK`,
`DropsOK`).  For the relations: a schema stored with its relation unset is one that the
run that stored it, or a run that has a clone of it, will still work on
(`Unfinished`); a run reads a schema before it gives up its turn to read it, and is
done only when no clone with a relation is left.  The nested runs on a stack are handled
alike, and a panic is excluded because it drops them.

For the nesting: that the stack is short is not inductive.  `NestOK` says why it is: each
run below the top waits for a bridge, which is stored, or about to be by the run right
above it; a run above has it among its clones or has not read it yet, since nested runs
delete nothing and clones are stored back only over what is there.  So the run that
registers a bridge has not got it and no run below waits for it; the bridges that the
runs wait for are different ones, and counting them bounds the stack.

For the latest entries: that a store is right does not follow from what is stored, since
setRelations stores back clones it read before its nested runs.  `LatestInv` says of every
run on a stack that its clones are as the last registration left the schema, or the mock of a
bridge that nobody registered (`CloneOK`); a nested run may put a newer mock under a clone
of an outer run, but only where there was nothing (`Current`).  Only what the running call is about
to store may be out of date.  For the bridges, a relation whose bridge is gone is one that
some run will still work on (`BridgesKept`).

For the tables: `TablesInv` says of a running Init that it has read every table it must
create except those it has still to read, and that what it has created and what is left
are what it has read, in order (`JobOK`).

**Query** (`QueryProofs`), for any table, any arguments, any number of conditions and
any nesting of And and Or:

| Theorem | Says |
|---|---|
| `Invariance` | `Spec => []IInv` |
| `ClauseMeaning` | the SQL that parseWhere writes, parameters bound by position, selects the rows that the conditions mean |
| `QueryReturns` | a query reads only rows that its own conditions select, and all of them into a made slice without order and limit |
| `WritesNeed` | Update and Delete touch only such rows, and none when no condition given since the last use restricts |

The argument.  `ClauseMeansConditions` says nothing of the Filter in the caller's hand,
which is an argument of the next And, so it is not inductive.  `IInv` (`TypeInv`,
`SaysGiven`) says of every Filter, that one included, that it is sound (`IsFilter`): its
text is empty exactly when it says nothing, has a parameter for each comparison that
takes one, with its value, in this order (`Aligned`), and reads as it means; and outside
of its parentheses there is no AND and no OR (`Closed`).  Nesting is then an induction
over the steps of `Query`, one And or Or each, and not over data; what the filters of the
Result say together is what it was given (`Agree`), and nothing is left of either after
a statement.

Three things carry that.  `Reading`, the database's parser, is a recursive function on
all token sequences, and `Joined`, the loop of parseWhere, one on the clauses: that they
are functions at all is `RecursionWorks`, which puts approximations together, each right
on the arguments below a size; it needs a least counterexample (`Least`), and no
induction theorem over an operator.  How a concatenation reads rests on counting
parentheses: where a word stands outside of all of them in a text put together from
balanced ones (`CutsOfConcat`), so that joining clauses with one word reads as that
connective (`JoinReads`) and parentheses hide the word (`BracketReads`).  That
parseWhere's loop joins the clauses that are not empty, and only these, is `AddJoins`
and `SetItemReads`, again by a least counterexample.  Dropping the
parentheses of setItem breaks `Closed`; that is the mutant of the run.

Model-checked only, and why:

* liveness (`CallsEnd`, `SignalStartsShutdown`, `ShutdownEnds`): TLAPS does not do fairness;
* the six properties that a run shows to be violated.

All other properties of the passing runs are stated by a theorem.  The constants
that bound the runs are arbitrary there.

## 6. Not modelled, and why

* What relatesQuery (Populate) does behind the line that always fails, see section 2.
* Relations to a field other than the primary key; struct arguments of And and Or; the
  operators that differ from the modelled ones only in the SQL they print; OFFSET
  without LIMIT; destinations of a query that panic (a slice of maps, a pointer to a map).
* GenDDL's text, formatSQL and the splitting at semicolons, the COMMENT syntax of
  PostgreSQL, the text of templates, reflection on Go values, parsing of tags and its
  cache: text and data without state.  Where their outcome matters (a `?` in a comment,
  an empty primary key) a model has the outcome.
* Exec, Query and BatchExec of SQL that a caller writes: handed on to the driver.
* `dba.go` wraps the default Namespace; its Exec, ExecBatch and Query pass their
  arguments on as one slice, which database/sql refuses.  `tools.go` is pure.
* The examples: programs that use the library.

## 7. Plan

Done: the transactions of DataModel, first, since everything that is stored goes
through them; the two concurrent servers of requests; the Namespace they share and the
Connections in it; queries; related writes; the abstract specification of what callers
are promised, and its refinement, checked and proved; the same for remote clients
(`Sessions`) and for those of the socket (`Service`); every safety property of a
passing run as a theorem, the meaning of conditions included.  Left:

1. A specification of the schemas with registrations that are atomic, which `Namespace`
   implements while no two overlap: `LatestInv` is most of what it needs.
2. One DataModel with the locks of its rows under `Sessions`, to see what a remote
   update that panics leaves another client waiting for.
