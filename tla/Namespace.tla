----------------------------- MODULE Namespace -----------------------------
(***************************************************************************)
(* A Namespace (namespace.go): its connections and its schemas, two        *)
(* sync.Maps that goroutines read and write without any lock of their own. *)
(*                                                                         *)
(* Connect names a connection that has no name by counting the ones there  *)
(* are.  RegisterSchema stores schemas and then runs setRelations, which   *)
(* clones every schema, works out the relations on the clones and stores   *)
(* those back; a many-to-many relation whose bridge is no schema registers *)
(* one for it, in a nested RegisterSchema.                                 *)
(*                                                                         *)
(* A schema has at most one relation here; its other fields do not matter. *)
(* A call that fails before it has stored anything is left out.            *)
(***************************************************************************)
EXTENDS Integers, Sequences, FiniteSets

CONSTANTS
  Proc,         \* goroutines
  Schema,       \* names of schemas, the ones of bridge tables included
  Def,          \* Schema -> [kind, dst, brg]: the relation its field declares
  Batches,      \* sequences of schemas that callers register or unregister together
  Explicit,     \* names that callers give to connections
  MaxConns,     \* bound: connections made
  Mixes         \* bound: how many calls of each kind a behaviour may have

Name == 0 .. MaxConns - 1   \* names of connections; callers may use numbers too
NoPool == 0
NoName == -1                \* no name in ConnectConfig
Kinds == {"connect", "disconnect", "register", "unregister", "init"}

ASSUME NamespaceAssumption ==
  /\ MaxConns \in Nat
  /\ Mixes \subseteq [Kinds -> Nat]
  /\ Explicit \subseteq Name
  /\ IsFiniteSet(Schema)
  /\ Def \in [Schema -> [kind : {"none", "many", "refs"}, dst : Schema, brg : Schema]]
  /\ Batches \subseteq Seq(Schema)

\* What schemas holds under a name: the registration it comes from (0: the nested
\* one of a bridge) and what is known of its relation.
Entry == [ver : Int, rel : {"none", "unset", "plain", "native", "bridge"}]
NoEntry == [ver |-> -1, rel |-> "none"]
Mock == [ver |-> 0, rel |-> "none"]
Has(m, s) == m[s] # NoEntry

VARIABLES
  conns,     \* Name -> pool of the connection
  opened,    \* pools opened
  schemas,   \* Schema -> Entry
  version,   \* calls of RegisterSchema so far
  latest,    \* Schema -> version a caller registered last, -1 after UnregisterSchema
  loc,       \* Proc -> local variables of Connect and DisconnectAll
  stack,     \* Proc -> nested runs of RegisterSchema or UnregisterSchema
  budget,    \* Kinds -> calls of that kind that may still be made
  hist       \* what has happened: auto, named, drop, panic, overlap

connVars == <<conns, opened, loc>>
schemaVars == <<schemas, version, latest, stack>>
vars == <<conns, opened, schemas, version, latest, loc, stack, budget, hist>>

NoLoc == [pc |-> "idle", name |-> NoName, pool |-> NoPool, todo |-> {}, old |-> {}, auto |-> FALSE]
Idle(p) == loc[p].pc = "idle" /\ stack[p] = <<>>

Init ==
  /\ conns = [n \in Name |-> NoPool]
  /\ opened = 0
  /\ schemas = [s \in Schema |-> NoEntry]
  /\ version = 0 /\ latest = [s \in Schema |-> -1]
  /\ loc = [p \in Proc |-> NoLoc]
  /\ stack = [p \in Proc |-> <<>>]
  /\ budget \in Mixes
  /\ hist = {}

Call(p, kind) ==
  /\ Idle(p) /\ budget[kind] > 0
  /\ budget' = [budget EXCEPT ![kind] = @ - 1]

----------------------------------------------------------------------------
\* Connect

\* driver.Connect and Ping: a new pool.
StartConnect(p, n) ==
  /\ Call(p, "connect") /\ opened < MaxConns
  /\ opened' = opened + 1
  /\ loc' = [loc EXCEPT ![p] = [NoLoc EXCEPT !.pc = IF n = NoName THEN "count" ELSE "store",
                                             !.name = n, !.pool = opened + 1,
                                             !.auto = (n = NoName)]]
  /\ hist' = IF n = NoName THEN hist ELSE hist \cup {"named"}
  /\ UNCHANGED <<conns, schemaVars>>

\* Mutant of ConnectCount: the count includes the connection about to be stored.
ConnectCountFromOne(p) ==
  /\ loc[p].pc = "count"
  /\ loc' = [loc EXCEPT ![p].pc = "store", ![p].name = Cardinality({n \in Name : conns[n] # NoPool}) + 1]
  /\ UNCHANGED <<conns, opened, schemaVars, budget, hist>>

ConnectCount(p) ==
  /\ loc[p].pc = "count"
  /\ loc' = [loc EXCEPT ![p].pc = "store", ![p].name = Cardinality({n \in Name : conns[n] # NoPool})]
  /\ UNCHANGED <<conns, opened, schemaVars, budget, hist>>

\* A connection of that name is replaced, its pool stays open.
ConnectStore(p) ==
  /\ loc[p].pc = "store"
  /\ conns' = [conns EXCEPT ![loc[p].name] = loc[p].pool]
  /\ loc' = [loc EXCEPT ![p] = NoLoc]
  /\ hist' = IF loc[p].auto THEN hist \cup {"auto"} ELSE hist
  /\ UNCHANGED <<opened, schemaVars, budget>>

----------------------------------------------------------------------------
\* Disconnect, DisconnectAll

Disconnect(p, n) ==
  /\ Call(p, "disconnect")
  /\ conns' = [conns EXCEPT ![n] = NoPool]
  /\ hist' = hist \cup {"drop"}
  /\ UNCHANGED <<opened, loc, schemaVars>>

\* ConnectionNames, then a Delete for each
StartDisconnectAll(p) ==
  /\ Call(p, "disconnect")
  /\ LET names == {n \in Name : conns[n] # NoPool} IN
     loc' = [loc EXCEPT ![p] = [NoLoc EXCEPT !.pc = "drop", !.todo = names,
                                             !.old = {conns[n] : n \in names}]]
  /\ hist' = hist \cup {"drop"}
  /\ UNCHANGED <<conns, opened, schemaVars>>

DropOne(p) ==
  /\ loc[p].pc = "drop"
  /\ \E n \in loc[p].todo :
       /\ conns' = [conns EXCEPT ![n] = NoPool]
       /\ loc' = [loc EXCEPT ![p].todo = @ \ {n}]
  /\ UNCHANGED <<opened, schemaVars, budget, hist>>

\* Mutant of DropDone: the last name is left.
DropDoneEarly(p) ==
  /\ loc[p].pc = "drop" /\ Cardinality(loc[p].todo) <= 1
  /\ loc' = [loc EXCEPT ![p] = NoLoc]
  /\ UNCHANGED <<conns, opened, schemaVars, budget, hist>>

DropDone(p) ==
  /\ loc[p].pc = "drop" /\ loc[p].todo = {}
  /\ loc' = [loc EXCEPT ![p] = NoLoc]
  /\ UNCHANGED <<conns, opened, schemaVars, budget, hist>>

----------------------------------------------------------------------------
\* RegisterSchema, UnregisterSchema, setRelations

\* One run: the names to store (or delete), the version they get, the names that
\* SchemaBys has not read yet, the clones it made, the clones setRelations has not
\* worked on yet, and the one that waits for the nested registration of its bridge.
Run(todo, ver, del) ==
  [todo |-> todo, ver |-> ver, del |-> del, unread |-> Schema,
   snap |-> [s \in Schema |-> NoEntry], left |-> Schema, cur |-> {}]

Top(p) == stack[p][Len(stack[p])]
SetTop(p, r) == [stack EXCEPT ![p][Len(stack[p])] = r]
Storing(p) == stack[p] # <<>> /\ Top(p).todo # <<>>
Reading(p) == stack[p] # <<>> /\ Top(p).todo = <<>> /\ Top(p).unread # {}
Working(p) ==
  stack[p] # <<>> /\ Top(p).todo = <<>> /\ Top(p).unread = {} /\ Top(p).cur = {}

Elems(b) == {b[i] : i \in 1 .. Len(b)}
Overlaps == IF \E q \in Proc : stack[q] # <<>> THEN {"overlap"} ELSE {}

\* Every value parses, or nothing is stored at all.
StartRegister(p, b) ==
  /\ Call(p, "register")
  /\ version' = version + 1
  /\ latest' = [s \in Schema |-> IF s \in Elems(b) THEN version + 1 ELSE latest[s]]
  /\ stack' = [stack EXCEPT ![p] = <<Run(b, version + 1, FALSE)>>]
  /\ hist' = hist \cup Overlaps
  /\ UNCHANGED <<connVars, schemas>>

StartUnregister(p, b) ==
  /\ Call(p, "unregister")
  /\ latest' = [s \in Schema |-> IF s \in Elems(b) THEN -1 ELSE latest[s]]
  /\ stack' = [stack EXCEPT ![p] = <<Run(b, 0, TRUE)>>]
  /\ hist' = hist \cup Overlaps
  /\ UNCHANGED <<connVars, schemas, version>>

\* What a caller registers under s: the relation is declared, not worked out yet.
Declared(s, ver) ==
  [ver |-> ver, rel |-> IF Def[s].kind = "none" THEN "none" ELSE "unset"]

StoreOne(p) ==
  /\ Storing(p)
  /\ LET r == Top(p)
         s == Head(r.todo)
     IN  /\ schemas' = [schemas EXCEPT ![s] =
              IF r.del THEN NoEntry ELSE IF Len(stack[p]) > 1 THEN Mock ELSE Declared(s, r.ver)]
         /\ stack' = SetTop(p, [r EXCEPT !.todo = Tail(r.todo)])
  /\ UNCHANGED <<connVars, version, latest, budget, hist>>

\* Mutant of ReadOne: the first clone made of a schema is kept and returned again.
ReadOneStale(p) ==
  /\ Reading(p)
  /\ \E s \in Top(p).unread :
       stack' = SetTop(p, [Top(p) EXCEPT !.unread = @ \ {s},
         !.snap = [@ EXCEPT ![s] = IF Has(schemas, s) /\ schemas[s].ver > 0
                                   THEN [schemas[s] EXCEPT !.ver = 1] ELSE schemas[s]]])
  /\ UNCHANGED <<connVars, schemas, version, latest, budget, hist>>

\* SchemaBys ranges over the map and clones one schema at a time.
ReadOne(p) ==
  /\ Reading(p)
  /\ \E s \in Top(p).unread :
       stack' = SetTop(p, [Top(p) EXCEPT !.unread = @ \ {s}, !.snap = [@ EXCEPT ![s] = schemas[s]]])
  /\ UNCHANGED <<connVars, schemas, version, latest, budget, hist>>

\* The relation of clone s, by parseRelation.
RelOf(s, snap) ==
  CASE Def[s].kind = "none" -> "none"
    [] Def[s].kind = "many" -> "plain"
    [] Def[s].kind = "refs" -> IF Has(snap, Def[s].brg) THEN "bridge" ELSE "native"

Finished(p, s) == SetTop(p, [Top(p) EXCEPT !.left = @ \ {s}])

\* The clones with a relation that are not done yet; the others are not stored back.
\* The schema made for a bridge has none, whatever callers declare for it.
Pending(p) == {s \in Top(p).left : Top(p).snap[s].rel # "none"}

\* Mutant of RelateOne: relations that the clone has already are kept.
RelateOneOnce(p) ==
  /\ Working(p)
  /\ \E s \in Pending(p) :
       /\ RelOf(s, Top(p).snap) = "plain"
       /\ schemas' = schemas
       /\ stack' = Finished(p, s)
  /\ UNCHANGED <<connVars, version, latest, budget, hist>>

\* The clone, its relation set, is stored over whatever is there now.
RelateOne(p) ==
  /\ Working(p)
  /\ \E s \in Pending(p) :
       /\ RelOf(s, Top(p).snap) \in {"plain", "bridge"}
       /\ schemas' = [schemas EXCEPT ![s] = [Top(p).snap[s] EXCEPT !.rel = RelOf(s, Top(p).snap)]]
       /\ stack' = Finished(p, s)
  /\ UNCHANGED <<connVars, version, latest, budget, hist>>

\* Mutant of RegisterBridge: the bridge is not registered.
NoBridge(p) ==
  /\ Working(p)
  /\ \E s \in Pending(p) :
       /\ RelOf(s, Top(p).snap) = "native"
       /\ Has(Top(p).snap, Def[s].dst)
       /\ stack' = SetTop(p, [Top(p) EXCEPT !.cur = {s}])
  /\ UNCHANGED <<connVars, schemas, version, latest, budget, hist>>

\* Mutant of RegisterBridge: every bridge is taken for one that is no schema.
RegisterBridgeAlways(p) ==
  /\ Working(p)
  /\ \E s \in Pending(p) :
       /\ Def[s].kind = "refs"
       /\ Has(Top(p).snap, Def[s].dst)
       /\ stack' = [stack EXCEPT ![p] = Append(SetTop(p, [Top(p) EXCEPT !.cur = {s}])[p],
                                               Run(<<Def[s].brg>>, 0, FALSE))]
  /\ UNCHANGED <<connVars, schemas, version, latest, budget, hist>>

\* A bridge that is no schema: a schema for it is registered, nested.
RegisterBridge(p) ==
  /\ Working(p)
  /\ \E s \in Pending(p) :
       /\ RelOf(s, Top(p).snap) = "native"
       /\ Has(Top(p).snap, Def[s].dst)
       /\ stack' = [stack EXCEPT ![p] = Append(SetTop(p, [Top(p) EXCEPT !.cur = {s}])[p],
                                               Run(<<Def[s].brg>>, 0, FALSE))]
  /\ UNCHANGED <<connVars, schemas, version, latest, budget, hist>>

\* Back from the nested registration: the clone from before it is stored.
StoreNative(p) ==
  /\ stack[p] # <<>> /\ Top(p).cur # {}
  /\ \E s \in Top(p).cur :
       /\ schemas' = [schemas EXCEPT ![s] = [Top(p).snap[s] EXCEPT !.rel = "native"]]
       /\ stack' = SetTop(p, [Top(p) EXCEPT !.left = @ \ {s}, !.cur = {}])
  /\ UNCHANGED <<connVars, version, latest, budget, hist>>

\* schs[rel.DstSchema] is nil: the fields of the bridge cannot be typed.
BridgePanics(p) ==
  /\ Working(p)
  /\ \E s \in Pending(p) :
       /\ RelOf(s, Top(p).snap) = "native"
       /\ ~Has(Top(p).snap, Def[s].dst)
  /\ stack' = [stack EXCEPT ![p] = <<>>]
  /\ hist' = hist \cup {"panic"}
  /\ UNCHANGED <<connVars, schemas, version, latest, budget>>

RunDone(p) ==
  /\ Working(p) /\ Pending(p) = {}
  /\ stack' = [stack EXCEPT ![p] = SubSeq(@, 1, Len(@) - 1)]
  /\ UNCHANGED <<connVars, schemas, version, latest, budget, hist>>

----------------------------------------------------------------------------
ConnectionStep(p) ==
  \/ \E n \in Explicit \cup {NoName} : StartConnect(p, n)
  \/ ConnectCount(p) \/ ConnectStore(p)
  \/ \E n \in Name : Disconnect(p, n)
  \/ StartDisconnectAll(p) \/ DropOne(p) \/ DropDone(p)

SetRelations(p) ==
  ReadOne(p) \/ RelateOne(p) \/ RegisterBridge(p) \/ StoreNative(p)
    \/ BridgePanics(p) \/ RunDone(p)

SchemaStep(p) ==
  \/ \E b \in Batches : StartRegister(p, b) \/ StartUnregister(p, b)
  \/ StoreOne(p) \/ SetRelations(p)

Next == \E p \in Proc : ConnectionStep(p) \/ SchemaStep(p)

Spec == Init /\ [][Next]_vars

----------------------------------------------------------------------------
\* Properties

\* When every connection is made without a name and none is dropped, there is a
\* default one, the "0" that Session and Model take, as soon as one Connect has
\* returned, also when Connects race for the same number.
DefaultConnectionExists == hist \ {"panic", "overlap"} = {"auto"} => conns[0] # NoPool

\* No connection that DisconnectAll saw is there when it returns, whatever is
\* connected in between.
DisconnectAllClears ==
  [][\A p \in Proc : (loc[p].pc = "drop" /\ loc'[p].pc = "idle") =>
       \A n \in Name : conns'[n] \notin loc[p].old]_vars

Quiet == \A p \in Proc : stack[p] = <<>>

\* When no registration is running, every schema that declares a relation has it
\* set, however registrations overlapped, unless one of them panicked.
RelationsSetWhenQuiet ==
  (Quiet /\ "panic" \notin hist) => \A s \in Schema : schemas[s].rel # "unset"

\* Without overlap the clones that setRelations stores back, nested runs included,
\* undo no registration: each schema is the one that was registered last, and one
\* that was unregistered stays away, unless it is a bridge that is needed.
LatestStored ==
  (Quiet /\ "overlap" \notin hist) =>
    \A s \in Schema :
      \/ schemas[s].ver = latest[s]
      \/ /\ schemas[s] = Mock /\ latest[s] = -1
         /\ \E t \in Schema : Def[t].kind = "refs" /\ Def[t].brg = s

\* Without overlap and panic the bridge of every many-to-many relation is a schema
\* when the registration ends.
BridgesRegistered ==
  (Quiet /\ hist \cap {"overlap", "panic"} = {}) =>
    \A s \in Schema : schemas[s].rel \in {"native", "bridge"} => Has(schemas, Def[s].brg)

Bridges == {Def[s].brg : s \in {t \in Schema : Def[t].kind = "refs"}}

\* Without overlap a registration nests once for each bridge and no deeper: a nested
\* run finds the bridges of all the outer ones, so RegisterSchema comes to an end.
NestsOncePerBridge ==
  "overlap" \notin hist => \A p \in Proc : Len(stack[p]) <= 1 + Cardinality(Bridges)
=============================================================================
