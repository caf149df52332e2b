-------------------------- MODULE NamespaceProofs ---------------------------
(***************************************************************************)
(* Theorems about Namespace, with Connection's Init running beside it, for *)
(* any goroutines, schemas, relations and bounds.                          *)
(*                                                                         *)
(* The two maps have nothing to do with each other, so each has an         *)
(* inductive invariant of its own: ConnInv for the connections, RelInv for *)
(* the schemas and the runs of setRelations.                               *)
(***************************************************************************)
EXTENDS Connection, FiniteSetTheorems, SequenceTheorems, TLAPS

----------------------------------------------------------------------------
\* The invariant of the connections

Local ==
  [pc : {"idle", "count", "store", "drop"}, name : Int, pool : 0 .. MaxConns,
   todo : SUBSET Name, old : SUBSET (0 .. MaxConns), auto : BOOLEAN]
History == SUBSET {"auto", "named", "drop", "panic", "overlap"}

ConnTypeOK ==
  /\ conns \in [Name -> 0 .. MaxConns] /\ opened \in 0 .. MaxConns
  /\ loc \in [Proc -> Local]
  /\ hist \in History

\* p is in Connect and has a pool that it has not stored.
Connecting(p) == loc[p].pc \in {"count", "store"}

\* A pool is stored once: what a running Connect holds is in no map, in no snapshot
\* of DisconnectAll, and with no other Connect.
PoolsOK ==
  /\ \A n \in Name : conns[n] <= opened
  /\ \A p \in Proc : Connecting(p) =>
       /\ loc[p].pool \in 1 .. opened
       /\ \A n \in Name : conns[n] # loc[p].pool
       /\ \A q \in Proc : q # p /\ Connecting(q) => loc[q].pool # loc[p].pool
       /\ \A q \in Proc : loc[q].pc = "drop" => loc[p].pool \notin loc[q].old

\* Of the connections DisconnectAll saw, those left are the ones it will delete.
DropsOK ==
  \A p \in Proc : loc[p].pc = "drop" =>
    /\ loc[p].old \subseteq 1 .. opened
    /\ \A n \in Name : conns[n] \in loc[p].old => n \in loc[p].todo

\* The names in use, and the numbers below m.
Used == {n \in Name : conns[n] # NoPool}
Below(m) == 0 .. m - 1

\* As long as nobody names or drops a connection, the names are the first numbers,
\* and a running Connect has one of them or the next.
Unnamed == hist \cap {"named", "drop"} = {}
NamesOK ==
  Unnamed =>
    /\ \A p \in Proc : loc[p].pc # "drop" /\ (Connecting(p) => loc[p].auto)
    /\ \E m \in Nat :
         /\ Used = Below(m)
         /\ "auto" \in hist => m > 0
         /\ \A p \in Proc : loc[p].pc = "store" => loc[p].name \in 0 .. m

ConnInv == ConnTypeOK /\ PoolsOK /\ DropsOK /\ NamesOK

LEMMA NoLocType ==
  /\ NoLoc \in Local /\ NoName \in Int
  /\ NoLoc.pc = "idle" /\ NoLoc.todo = {} /\ NoLoc.old = {}
<1>1. NoName \in Int
  BY DEF NoName
<1>2. MaxConns \in Nat
  BY NamespaceAssumption
<1>3. NoPool \in 0 .. MaxConns
  BY <1>2 DEF NoPool
<1>4. NoLoc \in Local
  BY <1>1, <1>3 DEF NoLoc, Local
<1>5. NoLoc.pc = "idle" /\ NoLoc.todo = {} /\ NoLoc.old = {}
  BY DEF NoLoc
<1> QED
  BY <1>1, <1>4, <1>5

----------------------------------------------------------------------------
\* Steps that leave the connections alone

LEMMA SchemaStepConn ==
  ASSUME ConnInv, UNCHANGED connVars,
         hist' \in {hist, hist \cup {"panic"}, hist \cup {"overlap"}}
  PROVE  ConnInv'
<1>1. ConnTypeOK'
  BY DEF ConnInv, ConnTypeOK, connVars, History
<1>2. PoolsOK' /\ DropsOK'
  BY DEF ConnInv, PoolsOK, DropsOK, Connecting, connVars
<1>3. NamesOK'
  BY DEF ConnInv, NamesOK, Unnamed, Used, Connecting, connVars
<1> QED
  BY <1>1, <1>2, <1>3 DEF ConnInv

----------------------------------------------------------------------------
\* Connect

LEMMA NamespaceTypes ==
  /\ MaxConns \in Nat /\ Explicit \subseteq Name /\ Name \subseteq Nat
  /\ \A n \in Nat : n \in Name <=> n < MaxConns
BY NamespaceAssumption DEF Name

LEMMA StartConnectConn ==
  ASSUME ConnInv, NEW p \in Proc, NEW n \in Explicit \cup {NoName}, StartConnect(p, n)
  PROVE  ConnInv'
<1> DEFINE l == [NoLoc EXCEPT !.pc = IF n = NoName THEN "count" ELSE "store",
                              !.name = n, !.pool = opened + 1, !.auto = (n = NoName)]
<1>1. /\ opened < MaxConns /\ opened' = opened + 1 /\ conns' = conns
      /\ loc' = [loc EXCEPT ![p] = l] /\ loc[p].pc = "idle"
      /\ hist' = IF n = NoName THEN hist ELSE hist \cup {"named"}
  BY DEF StartConnect, Call, Idle
<1>2. /\ l.pc = (IF n = NoName THEN "count" ELSE "store") /\ l.name = n
      /\ l.pool = opened + 1 /\ l.auto = (n = NoName) /\ l.todo = {} /\ l.old = {}
  BY DEF NoLoc
<1>3. l \in Local
  <2>1. n \in Int /\ opened + 1 \in 0 .. MaxConns
    BY <1>1, NamespaceTypes, NoLocType DEF ConnInv, ConnTypeOK
  <2>2. (n = NoName) \in BOOLEAN
    OBVIOUS
  <2> DEFINE o == opened + 1
             b == (n = NoName)
             c == IF n = NoName THEN "count" ELSE "store"
  <2>3. c \in {"count", "store"} /\ o \in 0 .. MaxConns /\ b \in BOOLEAN
    BY <2>1, <2>2
  <2>4. l = [NoLoc EXCEPT !.pc = c, !.name = n, !.pool = o, !.auto = b]
    OBVIOUS
  <2> HIDE DEF l, o, b, c
  <2> QED
    BY <2>1, <2>3, <2>4, NoLocType DEF Local
<1> HIDE DEF l
<1>4. \A q \in Proc : loc'[q] = IF q = p THEN l ELSE loc[q]
  BY <1>1 DEF ConnInv, ConnTypeOK
<1>5. ConnTypeOK'
  BY <1>1, <1>3, NamespaceTypes DEF ConnInv, ConnTypeOK, History
<1>6. opened \in Nat /\ \A m \in Name : conns[m] \in Nat /\ conns[m] <= opened
  BY NamespaceTypes DEF ConnInv, ConnTypeOK, PoolsOK
<1>7. PoolsOK'
  <2>1. \A m \in Name : conns'[m] <= opened' /\ conns'[m] # opened + 1
    BY <1>1, <1>6
  <2>2. \A q \in Proc : q # p /\ Connecting(q) => loc[q].pool \in 1 .. opened
    BY DEF ConnInv, PoolsOK
  <2>3. \A q \in Proc : q # p /\ loc[q].pc = "drop" => loc[q].old \subseteq 1 .. opened
    BY DEF ConnInv, DropsOK
  <2> SUFFICES ASSUME NEW r \in Proc, Connecting(r)'
               PROVE  /\ loc'[r].pool \in 1 .. opened'
                      /\ \A m \in Name : conns'[m] # loc'[r].pool
                      /\ \A q \in Proc : q # r /\ Connecting(q)' => loc'[q].pool # loc'[r].pool
                      /\ \A q \in Proc : loc'[q].pc = "drop" => loc'[r].pool \notin loc'[q].old
    BY <2>1 DEF PoolsOK
  <2>4. \A q \in Proc : loc'[q].pc = "drop" => q # p /\ loc[q].pc = "drop" /\ loc'[q].old = loc[q].old
    BY <1>2, <1>4
  <2>5. CASE r = p
    BY <1>1, <1>2, <1>4, <1>6, <2>1, <2>2, <2>3, <2>4, <2>5 DEF Connecting
  <2>6. CASE r # p
    <3>1. Connecting(r) /\ loc'[r] = loc[r] /\ loc[r].pool \in 1 .. opened
      BY <1>4, <2>2, <2>6 DEF Connecting
    <3>2. \A q \in Proc : q # r /\ Connecting(q)' => loc'[q].pool # loc'[r].pool
      BY <1>2, <1>4, <1>6, <3>1 DEF ConnInv, PoolsOK, Connecting
    <3>3. \A q \in Proc : loc'[q].pc = "drop" => loc'[r].pool \notin loc'[q].old
      BY <2>4, <3>1 DEF ConnInv, PoolsOK
    <3>4. \A m \in Name : conns'[m] # loc'[r].pool
      BY <1>1, <3>1 DEF ConnInv, PoolsOK
    <3> QED
      BY <1>1, <1>6, <3>1, <3>2, <3>3, <3>4
  <2> QED
    BY <2>5, <2>6
<1>8. DropsOK'
  BY <1>1, <1>2, <1>4, <1>6 DEF ConnInv, DropsOK
<1>9. NamesOK'
  <2> SUFFICES ASSUME Unnamed' PROVE NamesOK'
    BY DEF NamesOK
  <2>1. n = NoName /\ hist' = hist /\ Unnamed
    BY <1>1 DEF Unnamed
  <2>2. \A q \in Proc : loc'[q].pc # "drop" /\ (Connecting(q)' => loc'[q].auto)
    BY <1>2, <1>4, <2>1 DEF ConnInv, NamesOK, Connecting
  <2>3. PICK m \in Nat : /\ Used = Below(m) /\ ("auto" \in hist => m > 0)
                         /\ \A q \in Proc : loc[q].pc = "store" => loc[q].name \in 0 .. m
    BY <2>1 DEF ConnInv, NamesOK
  <2>4. \A q \in Proc : loc'[q].pc = "store" => loc'[q].name \in 0 .. m
    BY <1>2, <1>4, <2>1, <2>3
  <2>5. Used' = Used
    BY <1>1 DEF Used
  <2> QED
    BY <2>1, <2>2, <2>3, <2>4, <2>5 DEF NamesOK
<1> QED
  BY <1>5, <1>7, <1>8, <1>9 DEF ConnInv

LEMMA UsedBelow ==
  ASSUME NEW m \in Nat, Used = Below(m)
  PROVE  Cardinality(Used) = m
BY FS_Interval DEF Below

LEMMA ConnectCountConn ==
  ASSUME ConnInv, NEW p \in Proc, ConnectCount(p)
  PROVE  ConnInv'
<1>1. /\ loc[p].pc = "count" /\ UNCHANGED <<conns, opened, hist>>
      /\ loc' = [loc EXCEPT ![p].pc = "store", ![p].name = Cardinality(Used)]
  BY DEF ConnectCount, Used
<1>2. Cardinality(Used) \in Nat
  <2>1. IsFiniteSet(Name)
    BY NamespaceTypes, FS_Interval DEF Name
  <2> QED
    BY <2>1, FS_Subset, FS_CardinalityType DEF Used
<1>3. \A q \in Proc :
        loc'[q] = IF q = p THEN [loc[p] EXCEPT !.pc = "store", !.name = Cardinality(Used)]
                  ELSE loc[q]
  BY <1>1 DEF ConnInv, ConnTypeOK
<1>4. loc[p] \in Local
  BY DEF ConnInv, ConnTypeOK
<1>5. /\ loc'[p].pc = "store" /\ loc'[p].name = Cardinality(Used)
      /\ loc'[p].pool = loc[p].pool /\ loc'[p].auto = loc[p].auto
  BY <1>3, <1>4 DEF Local
<1>6. ConnTypeOK'
  <2>1. loc'[p] \in Local
    <3> DEFINE c == Cardinality(Used)
    <3> HIDE DEF c
    <3>1. c \in Int
      BY <1>2 DEF c
    <3>2. loc'[p] = [loc[p] EXCEPT !.pc = "store", !.name = c]
      BY <1>3 DEF c
    <3> QED
      BY <1>4, <3>1, <3>2 DEF Local
  <2>2. loc' \in [Proc -> Local]
    BY <1>1, <1>3, <2>1 DEF ConnInv, ConnTypeOK
  <2> QED
    BY <1>1, <2>2 DEF ConnInv, ConnTypeOK
<1>7. \A q \in Proc : /\ Connecting(q)' <=> Connecting(q)
                      /\ loc'[q].pool = loc[q].pool
                      /\ loc'[q].pc = "drop" <=> loc[q].pc = "drop"
                      /\ loc[q].pc = "drop" => loc'[q] = loc[q]
  <2>1. \A q \in Proc : q # p => loc'[q] = loc[q]
    BY <1>3
  <2> QED
    BY <1>1, <1>5, <2>1 DEF Connecting
<1>8. PoolsOK' /\ DropsOK'
  <2>1. \A q \in Proc : loc'[q].pc = "drop" => loc[q].pc = "drop" /\ loc'[q] = loc[q]
    BY <1>7
  <2>2. PoolsOK'
    <3>1. conns' = conns /\ opened' = opened
      BY <1>1
    <3>2. \A n \in Name : conns'[n] <= opened'
      BY <3>1 DEF ConnInv, PoolsOK
    <3>3. ASSUME NEW r \in Proc, Connecting(r)'
          PROVE  /\ loc'[r].pool \in 1 .. opened'
                 /\ \A n \in Name : conns'[n] # loc'[r].pool
                 /\ \A q \in Proc : q # r /\ Connecting(q)' => loc'[q].pool # loc'[r].pool
                 /\ \A q \in Proc : loc'[q].pc = "drop" => loc'[r].pool \notin loc'[q].old
      <4>1. Connecting(r) /\ loc'[r].pool = loc[r].pool
        BY <1>7, <3>3
      <4> QED
        BY <1>7, <2>1, <3>1, <4>1 DEF ConnInv, PoolsOK
    <3> QED
      BY <3>2, <3>3 DEF PoolsOK
  <2>3. DropsOK'
    BY <1>1, <2>1 DEF ConnInv, DropsOK
  <2> QED
    BY <2>2, <2>3
<1>9. NamesOK'
  <2> SUFFICES ASSUME Unnamed PROVE NamesOK'
    BY <1>1 DEF NamesOK, Unnamed
  <2>1. \A q \in Proc : loc[q].pc # "drop" /\ (Connecting(q) => loc[q].auto)
    BY DEF ConnInv, NamesOK
  <2>2. \A q \in Proc : loc'[q].pc # "drop" /\ (Connecting(q)' => loc'[q].auto)
    BY <1>3, <1>5, <1>7, <2>1
  <2>3. PICK m \in Nat : /\ Used = Below(m) /\ ("auto" \in hist => m > 0)
                         /\ \A q \in Proc : loc[q].pc = "store" => loc[q].name \in 0 .. m
    BY DEF ConnInv, NamesOK
  <2>4. loc'[p].name = m
    BY <1>5, <2>3, UsedBelow
  <2>5. \A q \in Proc : loc'[q].pc = "store" => loc'[q].name \in 0 .. m
    BY <1>3, <2>3, <2>4
  <2>6. Used' = Used /\ hist' = hist
    BY <1>1 DEF Used
  <2> QED
    BY <2>2, <2>3, <2>5, <2>6 DEF NamesOK
<1> QED
  BY <1>6, <1>8, <1>9 DEF ConnInv

LEMMA ConnectStoreConn ==
  ASSUME ConnInv, NEW p \in Proc, ConnectStore(p)
  PROVE  ConnInv'
<1> DEFINE k == loc[p].name
           c == loc[p].pool
<1>1. /\ loc[p].pc = "store" /\ opened' = opened
      /\ conns' = [conns EXCEPT ![k] = c] /\ loc' = [loc EXCEPT ![p] = NoLoc]
      /\ hist' = IF loc[p].auto THEN hist \cup {"auto"} ELSE hist
  BY DEF ConnectStore
<1>2. /\ c \in 1 .. opened /\ c \in 0 .. MaxConns /\ opened \in Nat
      /\ \A q \in Proc : q # p /\ Connecting(q) => loc[q].pool # c
      /\ \A q \in Proc : loc[q].pc = "drop" => c \notin loc[q].old
  BY <1>1, NamespaceTypes DEF ConnInv, ConnTypeOK, PoolsOK, Connecting, Local
<1>3. \A n \in Name : conns'[n] = IF n = k THEN c ELSE conns[n]
  BY <1>1 DEF ConnInv, ConnTypeOK
<1>4. \A q \in Proc : loc'[q] = IF q = p THEN NoLoc ELSE loc[q]
  BY <1>1 DEF ConnInv, ConnTypeOK
<1>5. NoLoc \in Local /\ NoLoc.pc = "idle"
  BY NoLocType
<1>6. ConnTypeOK'
  BY <1>1, <1>2, <1>4, <1>5 DEF ConnInv, ConnTypeOK, History
<1>7. \A q \in Proc : /\ Connecting(q)' => q # p /\ Connecting(q) /\ loc'[q] = loc[q]
                      /\ loc'[q].pc = "drop" => q # p /\ loc[q].pc = "drop" /\ loc'[q] = loc[q]
  BY <1>4, <1>5 DEF Connecting
<1>8. PoolsOK'
  <2>1. \A n \in Name : conns'[n] <= opened'
    BY <1>1, <1>2, <1>3 DEF ConnInv, PoolsOK
  <2> QED
    BY <1>1, <1>2, <1>3, <1>7, <2>1 DEF ConnInv, PoolsOK
<1>9. DropsOK'
  BY <1>1, <1>2, <1>3, <1>7 DEF ConnInv, DropsOK
<1>10. NamesOK'
  <2> SUFFICES ASSUME Unnamed' PROVE NamesOK'
    BY DEF NamesOK
  <2>1. Unnamed
    BY <1>1 DEF Unnamed
  <2>2. PICK m \in Nat : /\ Used = Below(m)
                         /\ \A q \in Proc : loc[q].pc = "store" => loc[q].name \in 0 .. m
    BY <2>1 DEF ConnInv, NamesOK
  <2>3. k \in 0 .. m
    BY <1>1, <2>2
  <2>4. \A q \in Proc : loc'[q].pc # "drop" /\ (Connecting(q)' => loc'[q].auto)
    BY <1>4, <1>5, <1>7, <2>1 DEF ConnInv, NamesOK
  <2>5. CASE k \in Name
    <3>1. Used' = Used \cup {k}
      BY <1>2, <1>3, <2>5 DEF Used, NoPool
    <3>2. CASE k = m
      <4>1. Used' = Below(m + 1)
        BY <2>2, <3>1, <3>2 DEF Below
      <4>2. \A q \in Proc : loc'[q].pc = "store" => loc'[q].name \in 0 .. m + 1
        BY <1>7, <2>2 DEF Connecting
      <4> QED
        BY <2>4, <4>1, <4>2 DEF NamesOK
    <3>3. CASE k # m
      <4>1. Used' = Below(m) /\ m > 0
        BY <2>2, <2>3, <3>1, <3>3 DEF Below
      <4>2. \A q \in Proc : loc'[q].pc = "store" => loc'[q].name \in 0 .. m
        BY <1>7, <2>2 DEF Connecting
      <4> QED
        BY <2>4, <4>1, <4>2 DEF NamesOK
    <3> QED
      BY <3>2, <3>3
  <2>6. CASE k \notin Name
    <3>1. Used' = Used
      BY <1>3, <2>6 DEF Used
    <3>2. m > 0
      BY <1>2, <2>3, <2>6, NamespaceTypes
    <3>3. \A q \in Proc : loc'[q].pc = "store" => loc'[q].name \in 0 .. m
      BY <1>7, <2>2 DEF Connecting
    <3> QED
      BY <2>2, <2>4, <3>1, <3>2, <3>3 DEF NamesOK
  <2> QED
    BY <2>5, <2>6
<1> QED
  BY <1>6, <1>8, <1>9, <1>10 DEF ConnInv

----------------------------------------------------------------------------
\* Disconnect and DisconnectAll

LEMMA DisconnectConn ==
  ASSUME ConnInv, NEW p \in Proc, NEW n \in Name, Disconnect(p, n)
  PROVE  ConnInv'
<1>1. /\ conns' = [conns EXCEPT ![n] = NoPool] /\ hist' = hist \cup {"drop"}
      /\ UNCHANGED <<opened, loc>>
  BY DEF Disconnect
<1>2. ConnTypeOK'
  BY <1>1, NamespaceTypes DEF ConnInv, ConnTypeOK, History, NoPool
<1>3. opened \in Nat /\ \A m \in Name : conns'[m] \in {conns[m], 0}
  BY <1>1, NamespaceTypes DEF ConnInv, ConnTypeOK, NoPool
<1>4. PoolsOK'
  BY <1>1, <1>3 DEF ConnInv, PoolsOK, Connecting
<1>5. DropsOK'
  BY <1>1, <1>3 DEF ConnInv, DropsOK
<1>6. NamesOK'
  BY <1>1 DEF NamesOK, Unnamed
<1> QED
  BY <1>2, <1>4, <1>5, <1>6 DEF ConnInv

LEMMA StartDisconnectAllConn ==
  ASSUME ConnInv, NEW p \in Proc, StartDisconnectAll(p)
  PROVE  ConnInv'
<1> DEFINE l == [NoLoc EXCEPT !.pc = "drop", !.todo = Used, !.old = {conns[n] : n \in Used}]
<1>1. /\ loc[p].pc = "idle" /\ loc' = [loc EXCEPT ![p] = l]
      /\ hist' = hist \cup {"drop"} /\ UNCHANGED <<conns, opened>>
  BY DEF StartDisconnectAll, Call, Idle, Used
<1>2. l.pc = "drop" /\ l.todo = Used /\ l.old = {conns[n] : n \in Used}
  BY DEF NoLoc
<1>3. l \in Local
  <2> DEFINE old == {conns[n] : n \in Used}
  <2>1. Used \in SUBSET Name /\ old \in SUBSET (0 .. MaxConns)
    BY DEF ConnInv, ConnTypeOK, Used
  <2>2. l = [NoLoc EXCEPT !.pc = "drop", !.todo = Used, !.old = old]
    OBVIOUS
  <2> HIDE DEF old, l
  <2> QED
    BY <2>1, <2>2, NoLocType DEF Local
<1> HIDE DEF l
<1>4. \A q \in Proc : loc'[q] = IF q = p THEN l ELSE loc[q]
  BY <1>1 DEF ConnInv, ConnTypeOK
<1>5. ConnTypeOK'
  BY <1>1, <1>3 DEF ConnInv, ConnTypeOK, History
<1>6. \A n \in Name : conns[n] \in Nat /\ conns[n] <= opened /\ opened \in Nat
  BY NamespaceTypes DEF ConnInv, ConnTypeOK, PoolsOK
<1>7. PoolsOK'
  <2>1. \A q \in Proc : Connecting(q)' => q # p /\ Connecting(q) /\ loc'[q] = loc[q]
    BY <1>2, <1>4 DEF Connecting
  <2>2. \A q \in Proc : Connecting(q) => loc[q].pool \notin l.old
    BY <1>2 DEF ConnInv, PoolsOK, Used
  <2> QED
    BY <1>1, <1>4, <2>1, <2>2 DEF ConnInv, PoolsOK
<1>8. DropsOK'
  <2>1. l.old \subseteq 1 .. opened /\ \A n \in Name : conns[n] \in l.old => n \in l.todo
    BY <1>2, <1>6 DEF Used, NoPool
  <2> QED
    BY <1>1, <1>4, <2>1 DEF ConnInv, DropsOK
<1>9. NamesOK'
  BY <1>1 DEF NamesOK, Unnamed
<1> QED
  BY <1>5, <1>7, <1>8, <1>9 DEF ConnInv

LEMMA DropOneConn ==
  ASSUME ConnInv, NEW p \in Proc, DropOne(p)
  PROVE  ConnInv'
<1>1. PICK n \in loc[p].todo : /\ conns' = [conns EXCEPT ![n] = NoPool]
                               /\ loc' = [loc EXCEPT ![p].todo = @ \ {n}]
  BY DEF DropOne
<1>2. loc[p].pc = "drop" /\ UNCHANGED <<opened, hist>> /\ loc[p] \in Local
  BY DEF DropOne, ConnInv, ConnTypeOK
<1>3. n \in Name /\ \A m \in Name : conns'[m] = IF m = n THEN 0 ELSE conns[m]
  BY <1>1, <1>2 DEF ConnInv, ConnTypeOK, Local, NoPool
<1>4. \A q \in Proc : /\ loc'[q].pc = loc[q].pc /\ loc'[q].pool = loc[q].pool
                      /\ loc'[q].old = loc[q].old
                      /\ loc'[q].todo = IF q = p THEN loc[p].todo \ {n} ELSE loc[q].todo
  BY <1>1, <1>2 DEF ConnInv, ConnTypeOK, Local
<1>5. ConnTypeOK'
  <2>1. conns' \in [Name -> 0 .. MaxConns]
    <3>1. NoPool \in 0 .. MaxConns
      BY NamespaceTypes DEF NoPool
    <3> QED
      BY <1>1, <3>1 DEF ConnInv, ConnTypeOK
  <2>2. [loc[p] EXCEPT !.todo = @ \ {n}] \in Local
    BY <1>2 DEF Local
  <2>3. loc' \in [Proc -> Local]
    BY <1>1, <2>2 DEF ConnInv, ConnTypeOK
  <2> QED
    BY <1>2, <2>1, <2>3 DEF ConnInv, ConnTypeOK
<1>6. opened \in Nat
  BY NamespaceTypes DEF ConnInv, ConnTypeOK
<1>7. PoolsOK'
  BY <1>2, <1>3, <1>4, <1>6 DEF ConnInv, PoolsOK, Connecting
<1>8. DropsOK'
  BY <1>2, <1>3, <1>4 DEF ConnInv, DropsOK
<1>9. NamesOK'
  BY <1>2 DEF ConnInv, NamesOK, Unnamed
<1> QED
  BY <1>5, <1>7, <1>8, <1>9 DEF ConnInv

LEMMA DropDoneConn ==
  ASSUME ConnInv, NEW p \in Proc, DropDone(p)
  PROVE  ConnInv'
<1>1. loc[p].pc = "drop" /\ loc' = [loc EXCEPT ![p] = NoLoc] /\ UNCHANGED <<conns, opened, hist>>
  BY DEF DropDone
<1>2. NoLoc \in Local /\ NoLoc.pc = "idle"
  BY NoLocType
<1>3. \A q \in Proc : loc'[q] = IF q = p THEN NoLoc ELSE loc[q]
  BY <1>1 DEF ConnInv, ConnTypeOK
<1>4. ConnTypeOK'
  BY <1>1, <1>2 DEF ConnInv, ConnTypeOK
<1>5. PoolsOK' /\ DropsOK'
  BY <1>1, <1>2, <1>3 DEF ConnInv, PoolsOK, DropsOK, Connecting
<1>6. NamesOK'
  BY <1>1 DEF ConnInv, NamesOK, Unnamed
<1> QED
  BY <1>4, <1>5, <1>6 DEF ConnInv

----------------------------------------------------------------------------
\* The whole system

LEMMA ConnInvInit == ConnectionInit => ConnInv
<1> SUFFICES ASSUME Init PROVE ConnInv
  BY DEF ConnectionInit
<1>1. \A p \in Proc : loc[p].pc = "idle" /\ loc[p] \in Local
  BY NoLocType DEF Init
<1>2. conns = [n \in Name |-> NoPool] /\ opened = 0 /\ hist = {} /\ MaxConns \in Nat
  BY NamespaceTypes DEF Init
<1>3. ConnTypeOK
  BY <1>1, <1>2 DEF ConnTypeOK, Init, History, NoPool
<1>4. PoolsOK /\ DropsOK
  BY <1>1, <1>2 DEF PoolsOK, DropsOK, Connecting, NoPool
<1>5. NamesOK
  <2>1. Used = Below(0)
    BY <1>2 DEF Used, Below
  <2> QED
    BY <1>1, <1>2, <2>1 DEF NamesOK, Connecting
<1> QED
  BY <1>3, <1>4, <1>5 DEF ConnInv

\* A step of Init's, or of registering schemas, does nothing to the connections.
LEMMA SchemaStepHist ==
  ASSUME NEW p \in Proc, SchemaStep(p)
  PROVE  UNCHANGED connVars /\ hist' \in {hist, hist \cup {"panic"}, hist \cup {"overlap"}}
<1>1. \A b \in Batches : StartRegister(p, b) \/ StartUnregister(p, b)
        => UNCHANGED connVars /\ hist' \in {hist, hist \cup {"overlap"}}
  BY DEF StartRegister, StartUnregister, Overlaps
<1>2. ReadOne(p) \/ StoreOne(p) => UNCHANGED connVars /\ hist' = hist
  BY DEF ReadOne, StoreOne
<1>3. RelateOne(p) \/ RegisterBridge(p) \/ StoreNative(p) \/ RunDone(p)
        => UNCHANGED connVars /\ hist' = hist
  BY DEF RelateOne, RegisterBridge, StoreNative, RunDone
<1>4. BridgePanics(p) => UNCHANGED connVars /\ hist' = hist \cup {"panic"}
  BY DEF BridgePanics
<1> QED
  BY <1>1, <1>2, <1>3, <1>4 DEF SchemaStep, SetRelations

LEMMA InitStepIdle ==
  ASSUME NEW p \in Proc, InitStep(p)
  PROVE  UNCHANGED <<connVars, schemaVars, hist>>
<1>1. \A kind \in {"connection", "namespace"}, n \in Name :
        StartInit(p, kind, n) => UNCHANGED <<connVars, schemaVars, hist>>
  BY DEF StartInit
<1>2. \A n \in Name : StartInitPanics(p, n) => UNCHANGED <<connVars, schemaVars, hist>>
  BY DEF StartInitPanics
<1>3. \A pc : At(p, pc) => UNCHANGED <<connVars, schemaVars, hist>>
  BY DEF At
<1>4. \/ \E pc : At(p, pc)
      \/ \E kind \in {"connection", "namespace"}, n \in Name : StartInit(p, kind, n)
      \/ \E n \in Name : StartInitPanics(p, n)
  <2>1. ReadSchema(p) \/ GenDDL(p) => At(p, "read")
    BY DEF ReadSchema, GenDDL
  <2>2. Begin(p) \/ BeginFails(p) => At(p, "begin")
    BY SMTT(60) DEF Begin, BeginFails
  <2>3. ExecStatement(p) \/ ExecFails(p) \/ ParamsMissing(p) => At(p, "exec")
    BY DEF ExecStatement, ExecFails, ParamsMissing
  <2>4. BatchDone(p) \/ CommitFails(p) => At(p, "exec")
    BY DEF BatchDone, CommitFails
  <2>5. ExecAll(p) \/ ExecAllPanics(p) => At(p, "read")
    BY DEF ExecAll, ExecAllPanics
  <2> QED
    BY <2>1, <2>2, <2>3, <2>4, <2>5 DEF InitStep
<1> QED
  BY <1>1, <1>2, <1>3, <1>4

LEMMA ConnInvStep == ConnInv /\ [ConnectionNext]_allVars => ConnInv'
<1> SUFFICES ASSUME ConnInv, [ConnectionNext]_allVars PROVE ConnInv'
  OBVIOUS
<1>1. ASSUME NEW p \in Proc, InitStep(p) PROVE ConnInv'
  <2>1. UNCHANGED connVars /\ hist' = hist
    BY <1>1, InitStepIdle
  <2> QED
    BY <2>1, SchemaStepConn
<1>2. ASSUME NEW p \in Proc, SchemaStep(p) PROVE ConnInv'
  BY <1>2, SchemaStepHist, SchemaStepConn
<1>3. ASSUME NEW p \in Proc, ConnectionStep(p) PROVE ConnInv'
  <2>1. ASSUME NEW n \in Explicit \cup {NoName}, StartConnect(p, n) PROVE ConnInv'
    BY <2>1, StartConnectConn
  <2>2. CASE ConnectCount(p)
    BY <2>2, ConnectCountConn
  <2>3. CASE ConnectStore(p)
    BY <2>3, ConnectStoreConn
  <2>4. ASSUME NEW n \in Name, Disconnect(p, n) PROVE ConnInv'
    BY <2>4, DisconnectConn
  <2>5. CASE StartDisconnectAll(p)
    BY <2>5, StartDisconnectAllConn
  <2>6. CASE DropOne(p)
    BY <2>6, DropOneConn
  <2>7. CASE DropDone(p)
    BY <2>7, DropDoneConn
  <2> QED
    BY <1>3, <2>1, <2>2, <2>3, <2>4, <2>5, <2>6, <2>7 DEF ConnectionStep
<1>4. CASE UNCHANGED allVars
  BY <1>4, SchemaStepConn DEF allVars, vars, connVars
<1> QED
  BY <1>1, <1>2, <1>3, <1>4 DEF ConnectionNext, NamespaceStep

\* A pool that Connect holds is stored once, DisconnectAll keeps track of what it has
\* to delete, and unnamed connections take the first numbers.
THEOREM ConnectionsInvariant == ConnectionSpec => []ConnInv
<1>1. ConnectionInit => ConnInv
  BY ConnInvInit
<1>2. ConnInv /\ [ConnectionNext]_allVars => ConnInv'
  BY ConnInvStep
<1> QED
  BY <1>1, <1>2, PTL DEF ConnectionSpec

\* With unnamed connections only, none dropped, there is a default one as soon as one
\* Connect has returned, however many race for a number.
THEOREM DefaultThere == ConnectionSpec => []DefaultConnectionExists
<1>1. ConnInv => DefaultConnectionExists
  <2> SUFFICES ASSUME ConnInv, hist \ {"panic", "overlap"} = {"auto"} PROVE conns[0] # NoPool
    BY DEF DefaultConnectionExists
  <2>1. Unnamed /\ "auto" \in hist
    BY DEF Unnamed
  <2>2. PICK m \in Nat : Used = Below(m) /\ m > 0
    BY <2>1 DEF ConnInv, NamesOK
  <2>3. 0 \in Used
    BY <2>2 DEF Below
  <2> QED
    BY <2>3 DEF Used
<1> QED
  BY <1>1, ConnectionsInvariant, PTL

\* When DisconnectAll returns, no connection that it saw is left, whatever connects in
\* between.
THEOREM DisconnectAllLeavesNone == ConnectionSpec => DisconnectAllClears
<1> DEFINE Clears ==
      \A p \in Proc : (loc[p].pc = "drop" /\ loc'[p].pc = "idle") =>
        \A n \in Name : conns'[n] \notin loc[p].old
<1>1. ConnInv /\ [ConnectionNext]_allVars => [Clears]_vars
  <2> SUFFICES ASSUME ConnInv, ConnectionNext, NEW p \in Proc,
                      loc[p].pc = "drop", loc'[p].pc = "idle",
                      NEW n \in Name
               PROVE  conns'[n] \notin loc[p].old
    BY DEF allVars
  <2>1. loc' # loc
    OBVIOUS
  <2>2. PICK q \in Proc : ConnectionStep(q)
    BY <2>1, SchemaStepHist, InitStepIdle DEF ConnectionNext, NamespaceStep, connVars
  <2>3. \A r \in Proc : r # q => loc'[r] = loc[r]
    BY <2>2 DEF ConnInv, ConnTypeOK, ConnectionStep, StartConnect, ConnectCount, ConnectStore,
                Disconnect, StartDisconnectAll, DropOne, DropDone
  <2>4. q = p
    BY <2>3
  <2>5. DropDone(p)
    <3>1. \A m \in Name : Disconnect(p, m) => loc' = loc
      BY DEF Disconnect
    <3>2. DropOne(p) => loc'[p].pc = "drop"
      BY DEF DropOne, ConnInv, ConnTypeOK, Local
    <3>3. \A m \in Explicit \cup {NoName} : ~StartConnect(p, m)
      BY DEF StartConnect, Call, Idle
    <3>4. ~ConnectCount(p) /\ ~ConnectStore(p) /\ ~StartDisconnectAll(p)
      BY DEF ConnectCount, ConnectStore, StartDisconnectAll, Call, Idle
    <3> QED
      BY <2>2, <2>4, <3>1, <3>2, <3>3, <3>4 DEF ConnectionStep
  <2>6. conns' = conns /\ loc[p].todo = {}
    BY <2>5 DEF DropDone
  <2> QED
    BY <2>6 DEF ConnInv, DropsOK
<1> QED
  BY <1>1, ConnectionsInvariant, PTL DEF ConnectionSpec, DisconnectAllClears

----------------------------------------------------------------------------
\* The invariant of the schemas

RunT ==
  [todo : Seq(Schema), ver : Int, del : BOOLEAN, unread : SUBSET Schema,
   snap : [Schema -> Entry], left : SUBSET Schema, cur : SUBSET Schema]

RunsTypeOK ==
  /\ schemas \in [Schema -> Entry] /\ version \in Int
  /\ stack \in [Proc -> Seq(RunT)]

\* A run reads nothing before it has stored everything, and works on no clone before
\* it has read all.
RunOK(r) ==
  /\ r.todo # <<>> => r.unread = Schema
  /\ r.unread # {} => r.left = Schema
  /\ r.cur # {} => r.unread = {} /\ r.todo = <<>>
RunsOK == \A p \in Proc : \A i \in 1 .. Len(stack[p]) : RunOK(stack[p][i])

\* The run will still read s, or has a clone of it with a relation to work on.
Unfinished(r, s) == s \in r.unread \/ (s \in r.left /\ r.snap[s].rel # "none")

\* Whatever overlaps, a relation that is not set is one that some run will set.
UnsetOK ==
  \A s \in Schema : (schemas[s].rel = "unset" /\ "panic" \notin hist) =>
    \E p \in Proc : \E i \in 1 .. Len(stack[p]) : Unfinished(stack[p][i], s)

RelInv == RunsTypeOK /\ RunsOK /\ UnsetOK

LEMMA SchemaTypes ==
  /\ \A s \in Schema : Def[s].kind \in {"none", "many", "refs"} /\ Def[s].brg \in Schema
  /\ Batches \subseteq Seq(Schema)
BY NamespaceAssumption

LEMMA EntryTypes ==
  /\ NoEntry \in Entry /\ NoEntry.rel = "none"
  /\ Mock \in Entry /\ Mock.rel = "none"
BY DEF NoEntry, Mock, Entry

\* What a run is when it starts.
LEMMA RunStart ==
  ASSUME NEW b \in Seq(Schema), NEW v \in Int, NEW d \in BOOLEAN
  PROVE  /\ Run(b, v, d) \in RunT /\ RunOK(Run(b, v, d))
         /\ \A s \in Schema : Unfinished(Run(b, v, d), s)
<1>1. [s \in Schema |-> NoEntry] \in [Schema -> Entry]
  BY EntryTypes
<1>2. Run(b, v, d) \in RunT
  BY <1>1 DEF Run, RunT
<1> QED
  BY <1>2 DEF Run, RunOK, Unfinished

\* Replacing the top of a stack changes nothing below it and no other stack.
LEMMA SetTopStack ==
  ASSUME RunsTypeOK, NEW p \in Proc, stack[p] # <<>>, NEW r \in RunT, stack' = SetTop(p, r)
  PROVE  /\ stack' \in [Proc -> Seq(RunT)]
         /\ \A q \in Proc : Len(stack'[q]) = Len(stack[q])
         /\ \A q \in Proc : \A i \in 1 .. Len(stack[q]) :
              stack'[q][i] = IF q = p /\ i = Len(stack[p]) THEN r ELSE stack[q][i]
<1> DEFINE n == Len(stack[p])
           t == [stack[p] EXCEPT ![n] = r]
<1>1. stack[p] \in Seq(RunT) /\ n \in 1 .. Len(stack[p])
  BY EmptySeq, LenProperties DEF RunsTypeOK
<1>2. t \in Seq(RunT) /\ Len(t) = n /\ \A i \in 1 .. n : t[i] = IF i = n THEN r ELSE stack[p][i]
  BY <1>1
<1>3. stack' = [stack EXCEPT ![p] = t]
  BY DEF SetTop
<1> HIDE DEF t
<1> QED
  BY <1>2, <1>3 DEF RunsTypeOK

LEMMA TopTypes ==
  ASSUME RelInv, NEW p \in Proc, stack[p] # <<>>
  PROVE  Top(p) \in RunT /\ RunOK(Top(p)) /\ Len(stack[p]) \in 1 .. Len(stack[p])
<1>1. stack[p] \in Seq(RunT) /\ Len(stack[p]) \in 1 .. Len(stack[p])
  BY EmptySeq, LenProperties DEF RelInv, RunsTypeOK
<1> QED
  BY <1>1, ElementOfSeq DEF RelInv, RunsOK, Top

\* The step of a run that goes on: what it leaves unset, it still has to work on.
LEMMA TopStepRel ==
  ASSUME RelInv, NEW p \in Proc, stack[p] # <<>>, NEW r \in RunT, stack' = SetTop(p, r),
         RunOK(r), schemas' \in [Schema -> Entry], version' = version, hist' = hist,
         \A s \in Schema : schemas'[s].rel = "unset" =>
           \/ Unfinished(r, s)
           \/ schemas[s].rel = "unset" /\ (Unfinished(Top(p), s) => Unfinished(r, s))
  PROVE  RelInv'
<1>1. RunsTypeOK
  BY DEF RelInv
<1>2. /\ stack' \in [Proc -> Seq(RunT)]
      /\ \A q \in Proc : Len(stack'[q]) = Len(stack[q])
      /\ \A q \in Proc : \A i \in 1 .. Len(stack[q]) :
           stack'[q][i] = IF q = p /\ i = Len(stack[p]) THEN r ELSE stack[q][i]
  BY <1>1, SetTopStack
<1>3. RunsTypeOK'
  BY <1>1, <1>2 DEF RunsTypeOK
<1>4. RunsOK'
  BY <1>2 DEF RelInv, RunsOK
<1>5. ASSUME NEW s \in Schema, schemas'[s].rel = "unset", "panic" \notin hist'
      PROVE  \E q \in Proc : \E i \in 1 .. Len(stack'[q]) : Unfinished(stack'[q][i], s)
  <2>1. Len(stack[p]) \in 1 .. Len(stack'[p]) /\ stack'[p][Len(stack[p])] = r
    BY <1>2, TopTypes
  <2>2. CASE Unfinished(r, s)
    BY <2>1, <2>2
  <2>3. CASE schemas[s].rel = "unset" /\ (Unfinished(Top(p), s) => Unfinished(r, s))
    <3>1. PICK q \in Proc : \E i \in 1 .. Len(stack[q]) : Unfinished(stack[q][i], s)
      BY <1>5, <2>3 DEF RelInv, UnsetOK
    <3>2. PICK i \in 1 .. Len(stack[q]) : Unfinished(stack[q][i], s)
      BY <3>1
    <3>3. CASE q = p /\ i = Len(stack[p])
      BY <2>1, <2>3, <3>2, <3>3 DEF Top
    <3>4. CASE ~(q = p /\ i = Len(stack[p]))
      BY <1>2, <3>2, <3>4
    <3> QED
      BY <3>3, <3>4
  <2> QED
    BY <1>5, <2>2, <2>3
<1>6. UnsetOK'
  BY <1>5 DEF UnsetOK
<1> QED
  BY <1>3, <1>4, <1>6 DEF RelInv

----------------------------------------------------------------------------
\* RegisterSchema, UnregisterSchema, setRelations

SameTrouble == \A e \in {"panic", "overlap"} : e \in hist' <=> e \in hist

LEMMA OtherStepRel ==
  ASSUME RelInv, UNCHANGED schemaVars, SameTrouble
  PROVE  RelInv'
BY DEF SameTrouble, RelInv, RunsTypeOK, RunsOK, UnsetOK, schemaVars

\* A call begins with a run that has everything before it.
LEMMA StartRunRel ==
  ASSUME RelInv, NEW p \in Proc, stack[p] = <<>>, schemas' = schemas, version' \in Int,
         NEW b \in Seq(Schema), NEW v \in Int, NEW d \in BOOLEAN,
         stack' = [stack EXCEPT ![p] = <<Run(b, v, d)>>], hist' \in {hist, hist \cup {"overlap"}}
  PROVE  RelInv'
<1> DEFINE r == Run(b, v, d)
<1>1. r \in RunT /\ RunOK(r)
  BY RunStart
<1> HIDE DEF r
<1>2. \A q \in Proc : stack'[q] = IF q = p THEN <<r>> ELSE stack[q]
  BY DEF r, RelInv, RunsTypeOK
<1>3. RunsTypeOK'
  BY <1>1 DEF r, RelInv, RunsTypeOK
<1>4. RunsOK'
  <2> SUFFICES ASSUME NEW q \in Proc, NEW i \in 1 .. Len(stack'[q]) PROVE RunOK(stack'[q][i])
    BY DEF RunsOK
  <2>1. CASE q = p
    BY <1>1, <1>2, <2>1
  <2>2. CASE q # p
    BY <1>2, <2>2 DEF RelInv, RunsOK
  <2> QED
    BY <2>1, <2>2
<1>5. UnsetOK'
  <2> SUFFICES ASSUME NEW s \in Schema, schemas[s].rel = "unset", "panic" \notin hist
               PROVE  \E q \in Proc : \E i \in 1 .. Len(stack'[q]) : Unfinished(stack'[q][i], s)
    BY DEF UnsetOK
  <2>1. PICK q \in Proc : \E i \in 1 .. Len(stack[q]) : Unfinished(stack[q][i], s)
    BY DEF RelInv, UnsetOK
  <2>2. q # p
    BY <2>1
  <2> QED
    BY <1>2, <2>1, <2>2
<1> QED
  BY <1>3, <1>4, <1>5 DEF RelInv

LEMMA StoreOneRel ==
  ASSUME RelInv, NEW p \in Proc, StoreOne(p)
  PROVE  RelInv'
<1> DEFINE o == Top(p)
           s == Head(o.todo)
           e == IF o.del THEN NoEntry ELSE IF Len(stack[p]) > 1 THEN Mock ELSE Declared(s, o.ver)
           r == [o EXCEPT !.todo = Tail(o.todo)]
<1>1. /\ stack[p] # <<>> /\ o.todo # <<>>
      /\ schemas' = [schemas EXCEPT ![s] = e] /\ stack' = SetTop(p, r)
      /\ version' = version /\ hist' = hist
  BY DEF StoreOne, Storing
<1>2. o \in RunT /\ RunOK(o)
  BY <1>1, TopTypes
<1>3. o.todo \in Seq(Schema) /\ o.ver \in Int /\ s \in Schema /\ Tail(o.todo) \in Seq(Schema)
  <2>1. o.todo \in Seq(Schema) /\ o.ver \in Int
    BY <1>2 DEF RunT
  <2> QED
    BY <1>1, <2>1, HeadTailProperties
<1>4. e \in Entry
  BY <1>3, EntryTypes DEF Declared, Entry
<1>5. (o.unread = Schema /\ o.left = Schema) \/ Schema = {}
  BY <1>1, <1>2 DEF RunOK
<1>6. r \in RunT
  <2>1. r = [o EXCEPT !.todo = Tail(o.todo)]
    OBVIOUS
  <2> HIDE DEF r, o
  <2> QED
    BY <1>2, <1>3, <2>1 DEF RunT
<1>7. r.unread = o.unread /\ r.left = o.left /\ r.snap = o.snap /\ r.cur = o.cur
  BY <1>2 DEF RunT
<1> HIDE DEF r, e, s, o
<1>8. RunOK(r)
  BY <1>1, <1>2, <1>5, <1>7 DEF RunOK
<1>9. \A x \in Schema : Unfinished(r, x)
  BY <1>1, <1>2, <1>7 DEF RunOK, Unfinished
<1>10. schemas' \in [Schema -> Entry]
  BY <1>1, <1>4 DEF RelInv, RunsTypeOK
<1> QED
  BY <1>1, <1>6, <1>8, <1>9, <1>10, TopStepRel

LEMMA ReadOneRel ==
  ASSUME RelInv, NEW p \in Proc, ReadOne(p)
  PROVE  RelInv'
<1> DEFINE o == Top(p)
<1>1. PICK s \in o.unread :
        stack' = SetTop(p, [o EXCEPT !.unread = @ \ {s}, !.snap = [@ EXCEPT ![s] = schemas[s]]])
  BY DEF ReadOne
<1> DEFINE u == o.unread \ {s}
           c == [o.snap EXCEPT ![s] = schemas[s]]
           r == [o EXCEPT !.unread = u, !.snap = c]
<1>2. /\ stack[p] # <<>> /\ o.todo = <<>> /\ o.unread # {} /\ stack' = SetTop(p, r)
      /\ UNCHANGED <<schemas, version, hist>>
  BY <1>1 DEF ReadOne, Reading
<1>3. o \in RunT /\ RunOK(o)
  BY <1>2, TopTypes
<1>4. schemas \in [Schema -> Entry] /\ s \in Schema
  BY <1>3 DEF RelInv, RunsTypeOK, RunT
<1>5. u \in SUBSET Schema /\ c \in [Schema -> Entry]
      /\ \A x \in Schema : c[x] = IF x = s THEN schemas[s] ELSE o.snap[x]
  BY <1>3, <1>4 DEF RunT
<1>6. r \in RunT
  <2>1. r = [o EXCEPT !.unread = u, !.snap = c]
    OBVIOUS
  <2> HIDE DEF r, o, u, c
  <2> QED
    BY <1>3, <1>5, <2>1 DEF RunT
<1>7. r.unread = u /\ r.left = o.left /\ r.snap = c /\ r.cur = o.cur /\ r.todo = o.todo
  BY <1>3 DEF RunT
<1>8. o.left = Schema /\ o.cur = {}
  BY <1>2, <1>3 DEF RunOK
<1> HIDE DEF r, c
<1>9. RunOK(r)
  BY <1>2, <1>3, <1>7, <1>8 DEF RunOK
<1>10. ASSUME NEW x \in Schema, schemas'[x].rel = "unset", Unfinished(o, x)
       PROVE  Unfinished(r, x)
  <2>1. schemas[x].rel # "none"
    BY <1>2, <1>10
  <2>2. CASE x = s
    BY <1>5, <1>7, <1>8, <2>1, <2>2 DEF Unfinished
  <2>3. CASE x # s
    BY <1>5, <1>7, <1>10, <2>3 DEF Unfinished
  <2> QED
    BY <2>2, <2>3
<1> QED
  BY <1>2, <1>4, <1>6, <1>9, <1>10, TopStepRel

\* The runs that have read everything take a clone from those left, whose relation they
\* have set.
LEMMA FinishRel ==
  ASSUME RelInv, NEW p \in Proc, stack[p] # <<>>, NEW s \in Schema, NEW k \in SUBSET Schema,
         NEW v \in {"plain", "native", "bridge"},
         Top(p).todo = <<>>, Top(p).unread = {}, k = {} \/ k = Top(p).cur,
         stack' = SetTop(p, [Top(p) EXCEPT !.left = @ \ {s}, !.cur = k]),
         schemas' = [schemas EXCEPT ![s] = [Top(p).snap[s] EXCEPT !.rel = v]],
         version' = version, hist' = hist
  PROVE  RelInv'
<1> DEFINE o == Top(p)
           l == o.left \ {s}
           e == [o.snap[s] EXCEPT !.rel = v]
           r == [o EXCEPT !.left = l, !.cur = k]
<1>1. o \in RunT /\ RunOK(o)
  BY TopTypes
<1>2. o.snap[s] \in Entry /\ l \in SUBSET Schema
  BY <1>1 DEF RunT
<1>3. e \in Entry /\ e.rel # "unset"
  <2>1. e = [o.snap[s] EXCEPT !.rel = v]
    OBVIOUS
  <2> HIDE DEF e, o
  <2> QED
    BY <1>2, <2>1 DEF Entry
<1>4. r \in RunT
  <2>1. r = [o EXCEPT !.left = l, !.cur = k]
    OBVIOUS
  <2> HIDE DEF r, o, l
  <2> QED
    BY <1>1, <1>2, <2>1 DEF RunT
<1>5. r.unread = {} /\ r.left = l /\ r.snap = o.snap /\ r.todo = <<>>
  BY <1>1 DEF RunT
<1>6. schemas' = [schemas EXCEPT ![s] = e] /\ stack' = SetTop(p, r)
  OBVIOUS
<1>7. o.unread = {}
  OBVIOUS
<1> HIDE DEF r, e
<1>8. RunOK(r)
  BY <1>5 DEF RunOK
<1>9. schemas' \in [Schema -> Entry]
  BY <1>3, <1>6 DEF RelInv, RunsTypeOK
<1>10. \A x \in Schema : schemas'[x].rel = "unset" => x # s /\ schemas[x].rel = "unset"
  BY <1>3, <1>6 DEF RelInv, RunsTypeOK
<1>11. \A x \in Schema : x # s /\ Unfinished(o, x) => Unfinished(r, x)
  BY <1>5, <1>7 DEF Unfinished
<1> HIDE DEF o
<1>12. \A x \in Schema : schemas'[x].rel = "unset" =>
         schemas[x].rel = "unset" /\ (Unfinished(Top(p), x) => Unfinished(r, x))
  BY <1>10, <1>11 DEF o
<1> QED
  BY <1>4, <1>6, <1>8, <1>9, <1>12, TopStepRel

LEMMA RelateOneRel ==
  ASSUME RelInv, NEW p \in Proc, RelateOne(p)
  PROVE  RelInv'
<1>1. PICK s \in Pending(p) :
        /\ RelOf(s, Top(p).snap) \in {"plain", "bridge"}
        /\ schemas' = [schemas EXCEPT ![s] = [Top(p).snap[s] EXCEPT !.rel = RelOf(s, Top(p).snap)]]
        /\ stack' = Finished(p, s)
  BY DEF RelateOne
<1>2. /\ stack[p] # <<>> /\ Top(p).todo = <<>> /\ Top(p).unread = {}
      /\ version' = version /\ hist' = hist
  BY DEF RelateOne, Working
<1>3. Top(p) \in RunT
  BY <1>2, TopTypes
<1>4. s \in Schema /\ Top(p).cur \in SUBSET Schema
  BY <1>3 DEF Pending, RunT
<1>5. [Top(p) EXCEPT !.left = @ \ {s}] = [Top(p) EXCEPT !.left = @ \ {s}, !.cur = Top(p).cur]
  <2> DEFINE o == Top(p)
             l == o.left \ {s}
  <2> HIDE DEF o, l
  <2>1. o \in RunT
    BY <1>3 DEF o
  <2>2. [o EXCEPT !.left = l] = [o EXCEPT !.left = l, !.cur = o.cur]
    BY <2>1 DEF RunT
  <2> QED
    BY <2>2 DEF o, l
<1>6. stack' = SetTop(p, [Top(p) EXCEPT !.left = @ \ {s}, !.cur = Top(p).cur])
  BY <1>1, <1>5 DEF Finished
<1> QED
  BY <1>1, <1>2, <1>4, <1>6, FinishRel

LEMMA StoreNativeRel ==
  ASSUME RelInv, NEW p \in Proc, StoreNative(p)
  PROVE  RelInv'
<1>1. PICK s \in Top(p).cur :
        /\ schemas' = [schemas EXCEPT ![s] = [Top(p).snap[s] EXCEPT !.rel = "native"]]
        /\ stack' = SetTop(p, [Top(p) EXCEPT !.left = @ \ {s}, !.cur = {}])
  BY DEF StoreNative
<1>2. stack[p] # <<>> /\ Top(p).cur # {} /\ version' = version /\ hist' = hist
  BY DEF StoreNative
<1>3. Top(p) \in RunT /\ RunOK(Top(p))
  BY <1>2, TopTypes
<1>4. s \in Schema /\ Top(p).todo = <<>> /\ Top(p).unread = {}
  BY <1>2, <1>3 DEF RunT, RunOK
<1> QED
  BY <1>1, <1>2, <1>4, FinishRel

\* The nested run comes on top of the one that waits for it, which keeps what it has
\* to do.
LEMMA BridgeStack ==
  ASSUME RelInv, NEW p \in Proc, RegisterBridge(p)
  PROVE  \E s \in Pending(p) : \E w \in Seq(RunT) :
           /\ RelOf(s, Top(p).snap) = "native" /\ s \in Schema
           /\ Len(w) = Len(stack[p]) + 1 /\ w[Len(stack[p]) + 1] = Run(<<Def[s].brg>>, 0, FALSE)
           /\ \A i \in 1 .. Len(stack[p]) :
                w[i] = IF i = Len(stack[p]) THEN [Top(p) EXCEPT !.cur = {s}] ELSE stack[p][i]
           /\ stack' = [stack EXCEPT ![p] = w]
<1>1. PICK s \in Pending(p) :
        /\ RelOf(s, Top(p).snap) = "native"
        /\ stack' = [stack EXCEPT ![p] = Append(SetTop(p, [Top(p) EXCEPT !.cur = {s}])[p],
                                                Run(<<Def[s].brg>>, 0, FALSE))]
  BY DEF RegisterBridge
<1> DEFINE o == Top(p)
           n == Len(stack[p])
           b == [o EXCEPT !.cur = {s}]
           t == [stack[p] EXCEPT ![n] = b]
           r == Run(<<Def[s].brg>>, 0, FALSE)
           w == Append(t, r)
<1>2. stack[p] # <<>>
  BY DEF RegisterBridge, Working
<1>3. o \in RunT /\ n \in 1 .. Len(stack[p]) /\ stack[p] \in Seq(RunT)
  BY <1>2, TopTypes DEF RelInv, RunsTypeOK
<1>4. s \in Schema
  BY <1>3 DEF Pending, RunT
<1>5. r \in RunT
  <2>1. <<Def[s].brg>> \in Seq(Schema) /\ 0 \in Int
    BY <1>4, SchemaTypes
  <2> QED
    BY <2>1, RunStart
<1>6. b \in RunT
  <2>1. b = [o EXCEPT !.cur = {s}]
    OBVIOUS
  <2> HIDE DEF b, o
  <2> QED
    BY <1>3, <1>4, <2>1 DEF RunT
<1>7. t \in Seq(RunT) /\ Len(t) = n /\ \A i \in 1 .. n : t[i] = IF i = n THEN b ELSE stack[p][i]
  <2>1. t = [stack[p] EXCEPT ![n] = b]
    OBVIOUS
  <2> HIDE DEF t, b
  <2> QED
    BY <1>3, <1>6, <2>1
<1>8. stack' = [stack EXCEPT ![p] = w]
  <2>1. SetTop(p, b)[p] = t
    BY DEF SetTop, RelInv, RunsTypeOK
  <2> QED
    BY <1>1, <2>1
<1> HIDE DEF t, b, r
<1>9. /\ w \in Seq(RunT) /\ Len(w) = n + 1
      /\ \A i \in 1 .. n + 1 : w[i] = IF i = n + 1 THEN r ELSE t[i]
  BY <1>3, <1>5, <1>7, AppendProperties
<1> HIDE DEF w
<1>10. w[n + 1] = r /\ \A i \in 1 .. n : w[i] = IF i = n THEN b ELSE stack[p][i]
  BY <1>3, <1>7, <1>9
<1> QED
  BY <1>1, <1>4, <1>8, <1>9, <1>10 DEF r, b

LEMMA RegisterBridgeRel ==
  ASSUME RelInv, NEW p \in Proc, RegisterBridge(p)
  PROVE  RelInv'
<1> DEFINE o == Top(p)
           n == Len(stack[p])
<1>1. PICK s \in Pending(p) : \E w \in Seq(RunT) :
        /\ s \in Schema
        /\ Len(w) = n + 1 /\ w[n + 1] = Run(<<Def[s].brg>>, 0, FALSE)
        /\ \A i \in 1 .. n : w[i] = IF i = n THEN [o EXCEPT !.cur = {s}] ELSE stack[p][i]
        /\ stack' = [stack EXCEPT ![p] = w]
  BY BridgeStack
<1> DEFINE b == [o EXCEPT !.cur = {s}]
           r == Run(<<Def[s].brg>>, 0, FALSE)
<1>2. /\ stack[p] # <<>> /\ o.todo = <<>> /\ o.unread = {}
      /\ UNCHANGED <<schemas, version, hist>>
  BY DEF RegisterBridge, Working
<1>3. o \in RunT /\ RunOK(o) /\ n \in 1 .. Len(stack[p]) /\ stack[p] \in Seq(RunT)
  BY <1>2, TopTypes DEF RelInv, RunsTypeOK
<1>4. r \in RunT /\ RunOK(r)
  <2>1. <<Def[s].brg>> \in Seq(Schema) /\ 0 \in Int
    BY <1>1, SchemaTypes
  <2> QED
    BY <2>1, RunStart
<1>5. b.unread = {} /\ b.left = o.left /\ b.snap = o.snap /\ b.todo = <<>>
  BY <1>2, <1>3 DEF RunT
<1>6. RunOK(b)
  BY <1>5 DEF RunOK
<1>7. PICK w \in Seq(RunT) :
         /\ Len(w) = n + 1 /\ w[n + 1] = r
         /\ \A i \in 1 .. n : w[i] = IF i = n THEN b ELSE stack[p][i]
         /\ stack' = [stack EXCEPT ![p] = w]
  BY <1>1
<1> HIDE DEF b, r
<1>8. RunsTypeOK'
  BY <1>2, <1>7 DEF RelInv, RunsTypeOK
<1>9. \A q \in Proc : stack'[q] = IF q = p THEN w ELSE stack[q]
  BY <1>7 DEF RelInv, RunsTypeOK
<1>10. RunsOK'
  <2> SUFFICES ASSUME NEW q \in Proc, NEW i \in 1 .. Len(stack'[q]) PROVE RunOK(stack'[q][i])
    BY DEF RunsOK
  <2>1. CASE q # p
    BY <1>9, <2>1 DEF RelInv, RunsOK
  <2>2. CASE q = p
    <3>1. i \in 1 .. n \/ i = n + 1
      BY <1>3, <1>7, <1>9, <2>2
    <3>2. i \in 1 .. n => w[i] = b \/ (w[i] = stack[p][i] /\ RunOK(stack[p][i]))
      BY <1>7 DEF RelInv, RunsOK
    <3> QED
      BY <1>4, <1>6, <1>7, <1>9, <2>2, <3>1, <3>2
  <2> QED
    BY <2>1, <2>2
<1>11. UnsetOK'
  <2> SUFFICES ASSUME NEW x \in Schema, schemas[x].rel = "unset", "panic" \notin hist
               PROVE  \E q \in Proc : \E i \in 1 .. Len(stack'[q]) : Unfinished(stack'[q][i], x)
    BY <1>2 DEF UnsetOK
  <2>1. PICK q \in Proc : \E i \in 1 .. Len(stack[q]) : Unfinished(stack[q][i], x)
    BY DEF RelInv, UnsetOK
  <2>2. PICK i \in 1 .. Len(stack[q]) : Unfinished(stack[q][i], x)
    BY <2>1
  <2>3. CASE q # p
    BY <1>9, <2>2, <2>3
  <2>4. CASE q = p
    <3>1. i \in 1 .. n /\ i \in 1 .. Len(stack'[p])
      BY <1>3, <1>7, <1>9, <2>4
    <3>2. Unfinished(o, x) => Unfinished(b, x)
      BY <1>2, <1>5 DEF Unfinished
    <3>3. Unfinished(stack'[p][i], x)
      BY <1>7, <1>9, <2>2, <2>4, <3>1, <3>2 DEF Top
    <3> QED
      BY <3>1, <3>3
  <2> QED
    BY <2>3, <2>4
<1> QED
  BY <1>8, <1>10, <1>11 DEF RelInv

LEMMA BridgePanicsRel ==
  ASSUME RelInv, NEW p \in Proc, BridgePanics(p)
  PROVE  RelInv'
<1>1. /\ stack' = [stack EXCEPT ![p] = <<>>] /\ UNCHANGED <<schemas, version>>
      /\ "panic" \in hist'
  BY DEF BridgePanics
<1>2. <<>> \in Seq(RunT) /\ Len(<<>>) = 0
  BY EmptySeq
<1>3. RunsTypeOK'
  BY <1>1, <1>2 DEF RelInv, RunsTypeOK
<1>4. \A q \in Proc : stack'[q] = IF q = p THEN <<>> ELSE stack[q]
  BY <1>1 DEF RelInv, RunsTypeOK
<1>5. RunsOK'
  BY <1>2, <1>4 DEF RelInv, RunsOK
<1>6. UnsetOK'
  BY <1>1 DEF RelInv, UnsetOK
<1> QED
  BY <1>3, <1>5, <1>6 DEF RelInv

\* A run that is done has nothing left that is not set.
LEMMA RunDoneRel ==
  ASSUME RelInv, NEW p \in Proc, RunDone(p)
  PROVE  RelInv'
<1> DEFINE n == Len(stack[p])
           t == SubSeq(stack[p], 1, n - 1)
<1>1. /\ stack[p] # <<>> /\ Top(p).unread = {} /\ Pending(p) = {}
      /\ stack' = [stack EXCEPT ![p] = t] /\ UNCHANGED <<schemas, version, hist>>
  BY DEF RunDone, Working
<1>2. stack[p] \in Seq(RunT) /\ n \in 1 .. Len(stack[p])
  BY <1>1, TopTypes DEF RelInv, RunsTypeOK
<1>3. t \in Seq(RunT) /\ Len(t) = n - 1 /\ \A i \in 1 .. n - 1 : t[i] = stack[p][i]
  BY <1>2
<1> HIDE DEF t
<1>4. RunsTypeOK'
  BY <1>1, <1>3 DEF RelInv, RunsTypeOK
<1>5. \A q \in Proc : stack'[q] = IF q = p THEN t ELSE stack[q]
  BY <1>1 DEF RelInv, RunsTypeOK
<1>6. RunsOK'
  <2> SUFFICES ASSUME NEW q \in Proc, NEW i \in 1 .. Len(stack'[q]) PROVE RunOK(stack'[q][i])
    BY DEF RunsOK
  <2>1. i \in 1 .. Len(stack[q]) /\ stack'[q][i] = stack[q][i]
    BY <1>2, <1>3, <1>5
  <2> QED
    BY <2>1 DEF RelInv, RunsOK
<1>7. UnsetOK'
  <2> SUFFICES ASSUME NEW x \in Schema, schemas[x].rel = "unset", "panic" \notin hist
               PROVE  \E q \in Proc : \E i \in 1 .. Len(stack'[q]) : Unfinished(stack'[q][i], x)
    BY <1>1 DEF RelInv, UnsetOK
  <2>1. PICK q \in Proc : \E i \in 1 .. Len(stack[q]) : Unfinished(stack[q][i], x)
    BY DEF RelInv, UnsetOK
  <2>2. PICK i \in 1 .. Len(stack[q]) : Unfinished(stack[q][i], x)
    BY <2>1
  <2>3. ~Unfinished(Top(p), x)
    BY <1>1 DEF Unfinished, Pending
  <2>4. ~(q = p /\ i = n)
    BY <2>2, <2>3 DEF Top
  <2>5. i \in 1 .. Len(stack'[q]) /\ stack'[q][i] = stack[q][i]
    BY SMTT(60), <1>2, <1>3, <1>5, <2>4
  <2> QED
    BY <2>2, <2>5
<1> QED
  BY <1>4, <1>6, <1>7 DEF RelInv

----------------------------------------------------------------------------
\* The whole system, for the schemas

LEMMA RelInvInit == ConnectionInit => RelInv
<1> SUFFICES ASSUME Init PROVE RelInv
  BY DEF ConnectionInit
<1>1. /\ schemas = [s \in Schema |-> NoEntry] /\ version = 0
      /\ stack = [p \in Proc |-> <<>>]
  BY DEF Init
<1>2. RunsTypeOK
  <2>1. <<>> \in Seq(RunT)
    BY EmptySeq
  <2> QED
    BY <1>1, <2>1, EntryTypes DEF RunsTypeOK
<1>3. RunsOK /\ UnsetOK
  BY <1>1, EntryTypes DEF RunsOK, UnsetOK
<1> QED
  BY <1>2, <1>3 DEF RelInv

LEMMA SchemaStepRel ==
  ASSUME RelInv, NEW p \in Proc, SchemaStep(p)
  PROVE  RelInv'
<1>1. ASSUME NEW b \in Batches, StartRegister(p, b) PROVE RelInv'
  <2>1. /\ stack[p] = <<>> /\ schemas' = schemas /\ version' = version + 1
        /\ stack' = [stack EXCEPT ![p] = <<Run(b, version + 1, FALSE)>>]
        /\ hist' \in {hist, hist \cup {"overlap"}}
    BY <1>1 DEF StartRegister, Call, Idle, Overlaps
  <2>2. b \in Seq(Schema) /\ version + 1 \in Int /\ FALSE \in BOOLEAN
    BY SchemaTypes DEF RelInv, RunsTypeOK
  <2> QED
    BY <2>1, <2>2, StartRunRel
<1>2. ASSUME NEW b \in Batches, StartUnregister(p, b) PROVE RelInv'
  <2>1. /\ stack[p] = <<>> /\ schemas' = schemas /\ version' = version
        /\ stack' = [stack EXCEPT ![p] = <<Run(b, 0, TRUE)>>]
        /\ hist' \in {hist, hist \cup {"overlap"}}
    BY <1>2 DEF StartUnregister, Call, Idle, Overlaps
  <2>2. b \in Seq(Schema) /\ version' \in Int /\ 0 \in Int /\ TRUE \in BOOLEAN
    BY <2>1, SchemaTypes DEF RelInv, RunsTypeOK
  <2> QED
    BY <2>1, <2>2, StartRunRel
<1>3. CASE StoreOne(p)
  BY <1>3, StoreOneRel
<1>4. CASE ReadOne(p)
  BY <1>4, ReadOneRel
<1>5. CASE RelateOne(p)
  BY <1>5, RelateOneRel
<1>6. CASE RegisterBridge(p)
  BY <1>6, RegisterBridgeRel
<1>7. CASE StoreNative(p)
  BY <1>7, StoreNativeRel
<1>8. CASE BridgePanics(p)
  BY <1>8, BridgePanicsRel
<1>9. CASE RunDone(p)
  BY <1>9, RunDoneRel
<1> QED
  BY <1>1, <1>2, <1>3, <1>4, <1>5, <1>6, <1>7, <1>8, <1>9 DEF SchemaStep, SetRelations

LEMMA ConnectionStepHist ==
  ASSUME NEW p \in Proc, ConnectionStep(p)
  PROVE  UNCHANGED schemaVars /\ SameTrouble
<1>1. \A n \in Explicit \cup {NoName} : StartConnect(p, n) =>
        UNCHANGED schemaVars /\ SameTrouble
  BY DEF StartConnect, SameTrouble
<1>2. ConnectCount(p) \/ DropOne(p) \/ DropDone(p) => UNCHANGED schemaVars /\ hist' = hist
  BY DEF ConnectCount, DropOne, DropDone
<1>3. ConnectStore(p) => UNCHANGED schemaVars /\ SameTrouble
  BY DEF ConnectStore, SameTrouble
<1>4. (\E n \in Name : Disconnect(p, n)) \/ StartDisconnectAll(p) =>
        UNCHANGED schemaVars /\ SameTrouble
  BY DEF Disconnect, StartDisconnectAll, SameTrouble
<1> QED
  BY <1>1, <1>2, <1>3, <1>4 DEF ConnectionStep, SameTrouble

LEMMA RelInvStep == RelInv /\ [ConnectionNext]_allVars => RelInv'
<1> SUFFICES ASSUME RelInv, [ConnectionNext]_allVars PROVE RelInv'
  OBVIOUS
<1>1. ASSUME NEW p \in Proc, InitStep(p) PROVE RelInv'
  BY <1>1, InitStepIdle, OtherStepRel DEF SameTrouble
<1>2. ASSUME NEW p \in Proc, ConnectionStep(p) PROVE RelInv'
  BY <1>2, ConnectionStepHist, OtherStepRel
<1>3. ASSUME NEW p \in Proc, SchemaStep(p) PROVE RelInv'
  BY <1>3, SchemaStepRel
<1>4. CASE UNCHANGED allVars
  BY <1>4, OtherStepRel DEF allVars, vars, schemaVars, SameTrouble
<1> QED
  BY <1>1, <1>2, <1>3, <1>4 DEF ConnectionNext, NamespaceStep

\* A relation that is not set is in the hands of some run of setRelations, through
\* every overlap of registrations, unless one of them panicked.
THEOREM RelationsInvariant == ConnectionSpec => []RelInv
<1>1. ConnectionInit => RelInv
  BY RelInvInit
<1>2. RelInv /\ [ConnectionNext]_allVars => RelInv'
  BY RelInvStep
<1> QED
  BY <1>1, <1>2, PTL DEF ConnectionSpec

\* Once every registration has returned, every declared relation of a schema is set,
\* however they overlapped, unless one of them panicked.
THEOREM RelationsSet == ConnectionSpec => []RelationsSetWhenQuiet
<1>1. RelInv => RelationsSetWhenQuiet
  <2> SUFFICES ASSUME RelInv, Quiet, "panic" \notin hist, NEW s \in Schema, schemas[s].rel = "unset"
               PROVE  FALSE
    BY DEF RelationsSetWhenQuiet
  <2>1. PICK p \in Proc : \E i \in 1 .. Len(stack[p]) : Unfinished(stack[p][i], s)
    BY DEF RelInv, UnsetOK
  <2>2. stack[p] = <<>>
    BY DEF Quiet
  <2> QED
    BY <2>1, <2>2
<1> QED
  BY <1>1, RelationsInvariant, PTL

----------------------------------------------------------------------------
\* How deep registrations nest

\* Registrations do not overlap: one stack at most is in use.
OneStack == \A p, q \in Proc : stack[p] # <<>> /\ stack[q] # <<>> => p = q

\* Run i of p waits for the registration of bridge b.
Waits(p, i, b) == \E s \in stack[p][i].cur : b = Def[s].brg

\* The bridges that a run waits for are schemas, but for one that is about to be
\* stored, and the runs above it have seen them or will see them.
NestOK(p) ==
  \A i \in 1 .. Len(stack[p]) :
    /\ i > 1 => ~stack[p][i].del
    /\ i < Len(stack[p]) => \E b \in Bridges : Waits(p, i, b)
    /\ \A k \in 1 .. i - 1 : \A b \in Bridges : Waits(p, k, b) =>
         /\ b \in stack[p][i].unread \/ Has(stack[p][i].snap, b)
         /\ Has(schemas, b) \/ (i = Len(stack[p]) /\ stack[p][i].todo = <<b>>)
         /\ i < Len(stack[p]) => ~Waits(p, i, b)

NestInv == RelInv /\ ("overlap" \notin hist => OneStack /\ \A p \in Proc : NestOK(p))

LEMMA BridgesTypes == Bridges \subseteq Schema /\ IsFiniteSet(Bridges)
<1>1. Bridges \subseteq Schema
  BY SchemaTypes DEF Bridges
<1> QED
  BY <1>1, FS_Subset, NamespaceAssumption

LEMMA EmptyStackNest == ASSUME NEW p, stack[p] = <<>> PROVE NestOK(p)
<1>1. Len(stack[p]) = 0
  BY EmptySeq
<1> QED
  BY <1>1 DEF NestOK

\* The step of a run that goes on keeps what the runs below it wait for.
LEMMA TopStepNest ==
  ASSUME RelInv, OneStack, NEW p \in Proc, NestOK(p), stack[p] # <<>>,
         NEW r \in RunT, stack' = SetTop(p, r), r.del = Top(p).del,
         Len(stack[p]) > 1 =>
           \A b \in Bridges :
             /\ Has(schemas, b) => Has(schemas', b)
             /\ Top(p).todo = <<b>> => Has(schemas', b) \/ r.todo = <<b>>
             /\ (b \in Top(p).unread \/ Has(Top(p).snap, b))
                  /\ (Has(schemas, b) \/ Top(p).todo = <<b>>)
                  => b \in r.unread \/ Has(r.snap, b)
  PROVE  OneStack' /\ \A q \in Proc : NestOK(q)'
<1> DEFINE n == Len(stack[p])
<1>1. RunsTypeOK /\ n \in 1 .. Len(stack[p])
  BY TopTypes DEF RelInv
<1>2. /\ stack' \in [Proc -> Seq(RunT)]
      /\ \A q \in Proc : Len(stack'[q]) = Len(stack[q])
      /\ \A q \in Proc : \A i \in 1 .. Len(stack[q]) :
           stack'[q][i] = IF q = p /\ i = n THEN r ELSE stack[q][i]
  BY <1>1, SetTopStack
<1>3. \A q \in Proc : q # p => stack[q] = <<>> /\ stack'[q] = <<>>
  <2>1. \A q \in Proc : q # p => stack[q] = <<>>
    BY DEF OneStack
  <2>2. \A q \in Proc : q # p => stack'[q] = stack[q]
    BY <1>1 DEF SetTop, RunsTypeOK
  <2> QED
    BY <2>1, <2>2
<1>4. OneStack'
  BY <1>3 DEF OneStack
<1>5. NestOK(p)'
  <2>1. \A i \in 1 .. n - 1 : stack'[p][i] = stack[p][i]
    BY <1>1, <1>2
  <2>2. \A i \in 1 .. n - 1 : \A b : Waits(p, i, b)' <=> Waits(p, i, b)
    BY <2>1 DEF Waits
  <2>3. Len(stack'[p]) = n /\ stack'[p][n] = r /\ stack[p][n] = Top(p)
    BY <1>1, <1>2 DEF Top
  <2> SUFFICES ASSUME NEW i \in 1 .. n
               PROVE  /\ i > 1 => ~stack'[p][i].del
                      /\ i < n => \E b \in Bridges : Waits(p, i, b)'
                      /\ \A k \in 1 .. i - 1 : \A b \in Bridges : Waits(p, k, b)' =>
                           /\ b \in stack'[p][i].unread \/ Has(stack'[p][i].snap, b)
                           /\ Has(schemas', b) \/ (i = n /\ stack'[p][i].todo = <<b>>)
                           /\ i < n => ~Waits(p, i, b)'
    BY <2>3 DEF NestOK
  <2>4. i > 1 => ~stack'[p][i].del
    BY <1>1, <2>1, <2>3 DEF NestOK
  <2>5. i < n => \E b \in Bridges : Waits(p, i, b)'
    BY <1>1, <2>2 DEF NestOK
  <2>6. ASSUME NEW k \in 1 .. i - 1, NEW b \in Bridges, Waits(p, k, b)'
        PROVE  /\ b \in stack'[p][i].unread \/ Has(stack'[p][i].snap, b)
               /\ Has(schemas', b) \/ (i = n /\ stack'[p][i].todo = <<b>>)
               /\ i < n => ~Waits(p, i, b)'
    <3>1. k \in 1 .. n - 1 /\ Waits(p, k, b) /\ n > 1
      BY <1>1, <2>2, <2>6
    <3>2. /\ b \in stack[p][i].unread \/ Has(stack[p][i].snap, b)
          /\ Has(schemas, b) \/ (i = n /\ stack[p][i].todo = <<b>>)
          /\ i < n => ~Waits(p, i, b)
      BY <1>1, <3>1 DEF NestOK
    <3>3. CASE i = n
      BY <2>3, <3>1, <3>2, <3>3
    <3>4. CASE i # n
      BY <2>1, <2>2, <3>1, <3>2, <3>4
    <3> QED
      BY <3>3, <3>4
  <2> QED
    BY <2>4, <2>5, <2>6
<1>6. \A q \in Proc : q # p => NestOK(q)'
  BY <1>3, EmptySeq DEF NestOK
<1> QED
  BY <1>4, <1>5, <1>6

LEMMA StoreOneNest ==
  ASSUME RelInv, OneStack, NEW p \in Proc, NestOK(p), StoreOne(p)
  PROVE  OneStack' /\ \A q \in Proc : NestOK(q)'
<1> DEFINE o == Top(p)
           s == Head(o.todo)
           e == IF o.del THEN NoEntry ELSE IF Len(stack[p]) > 1 THEN Mock ELSE Declared(s, o.ver)
           r == [o EXCEPT !.todo = Tail(o.todo)]
<1>1. /\ stack[p] # <<>> /\ o.todo # <<>>
      /\ schemas' = [schemas EXCEPT ![s] = e] /\ stack' = SetTop(p, r)
  BY DEF StoreOne, Storing
<1>2. o \in RunT /\ Len(stack[p]) \in 1 .. Len(stack[p])
  BY <1>1, TopTypes
<1>3. o.todo \in Seq(Schema) /\ Tail(o.todo) \in Seq(Schema) /\ s \in Schema
  <2>1. o.todo \in Seq(Schema)
    BY <1>2 DEF RunT
  <2> QED
    BY <1>1, <2>1, HeadTailProperties
<1>4. r \in RunT
  <2>1. r = [o EXCEPT !.todo = Tail(o.todo)]
    OBVIOUS
  <2> HIDE DEF r, o
  <2> QED
    BY <1>2, <1>3, <2>1 DEF RunT
<1>5. r.del = o.del /\ r.unread = o.unread /\ r.snap = o.snap
  BY <1>2 DEF RunT
<1>6. ASSUME Len(stack[p]) > 1, NEW b \in Bridges
      PROVE  /\ Has(schemas, b) => Has(schemas', b)
             /\ o.todo = <<b>> => Has(schemas', b)
  <2>1. ~o.del
    BY <1>2, <1>6 DEF NestOK, Top
  <2>2. e # NoEntry
    BY <1>6, <2>1 DEF Mock, NoEntry
  <2>3. schemas'[s] = e /\ \A x \in Schema : x # s => schemas'[x] = schemas[x]
    BY <1>1, <1>3 DEF RelInv, RunsTypeOK
  <2>4. o.todo = <<b>> => s = b
    OBVIOUS
  <2> HIDE DEF e, s
  <2> QED
    BY <2>2, <2>3, <2>4, BridgesTypes DEF Has
<1> HIDE DEF r, e, s
<1> QED
  BY <1>1, <1>4, <1>5, <1>6, TopStepNest

LEMMA ReadOneNest ==
  ASSUME RelInv, OneStack, NEW p \in Proc, NestOK(p), ReadOne(p)
  PROVE  OneStack' /\ \A q \in Proc : NestOK(q)'
<1> DEFINE o == Top(p)
<1>1. PICK s \in o.unread :
        stack' = SetTop(p, [o EXCEPT !.unread = @ \ {s}, !.snap = [@ EXCEPT ![s] = schemas[s]]])
  BY DEF ReadOne
<1> DEFINE u == o.unread \ {s}
           c == [o.snap EXCEPT ![s] = schemas[s]]
           r == [o EXCEPT !.unread = u, !.snap = c]
<1>2. stack[p] # <<>> /\ o.todo = <<>> /\ stack' = SetTop(p, r) /\ schemas' = schemas
  BY <1>1 DEF ReadOne, Reading
<1>3. o \in RunT
  BY <1>2, TopTypes
<1>4. schemas \in [Schema -> Entry] /\ s \in Schema
  BY <1>3 DEF RelInv, RunsTypeOK, RunT
<1>5. u \in SUBSET Schema /\ c \in [Schema -> Entry]
      /\ \A x \in Schema : c[x] = IF x = s THEN schemas[s] ELSE o.snap[x]
  BY <1>3, <1>4 DEF RunT
<1>6. r \in RunT
  <2>1. r = [o EXCEPT !.unread = u, !.snap = c]
    OBVIOUS
  <2> HIDE DEF r, o, u, c
  <2> QED
    BY <1>3, <1>5, <2>1 DEF RunT
<1>7. r.unread = u /\ r.snap = c /\ r.del = o.del
  BY <1>3 DEF RunT
<1> HIDE DEF r, c
<1>8. ASSUME NEW b \in Bridges, b \in o.unread \/ Has(o.snap, b), Has(schemas, b)
      PROVE  b \in r.unread \/ Has(r.snap, b)
  BY <1>5, <1>7, <1>8, BridgesTypes DEF Has
<1>9. \A b \in Bridges : o.todo # <<b>>
  BY <1>2
<1> QED
  BY <1>2, <1>6, <1>7, <1>8, <1>9, TopStepNest

\* Storing a clone back takes no schema away.
LEMMA FinishNest ==
  ASSUME RelInv, OneStack, NEW p \in Proc, NestOK(p), stack[p] # <<>>,
         NEW s \in Schema, NEW k \in SUBSET Schema, NEW v \in {"plain", "native", "bridge"},
         Top(p).todo = <<>>,
         stack' = SetTop(p, [Top(p) EXCEPT !.left = @ \ {s}, !.cur = k]),
         schemas' = [schemas EXCEPT ![s] = [Top(p).snap[s] EXCEPT !.rel = v]]
  PROVE  OneStack' /\ \A q \in Proc : NestOK(q)'
<1> DEFINE o == Top(p)
           l == o.left \ {s}
           e == [o.snap[s] EXCEPT !.rel = v]
           r == [o EXCEPT !.left = l, !.cur = k]
<1>1. o \in RunT
  BY TopTypes
<1>2. o.snap[s] \in Entry /\ l \in SUBSET Schema
  BY <1>1 DEF RunT
<1>3. e # NoEntry
  <2>1. e.rel = v
    BY <1>2 DEF Entry
  <2> QED
    BY <2>1, EntryTypes
<1>4. r \in RunT
  <2>1. r = [o EXCEPT !.left = l, !.cur = k]
    OBVIOUS
  <2> HIDE DEF r, o, l
  <2> QED
    BY <1>1, <1>2, <2>1 DEF RunT
<1>5. r.unread = o.unread /\ r.snap = o.snap /\ r.del = o.del
  BY <1>1 DEF RunT
<1>6. schemas' = [schemas EXCEPT ![s] = e] /\ stack' = SetTop(p, r)
  OBVIOUS
<1> HIDE DEF r, e
<1>7. \A b \in Bridges : Has(schemas, b) => Has(schemas', b)
  BY <1>3, <1>6, BridgesTypes DEF RelInv, RunsTypeOK, Has
<1>8. \A b \in Bridges : Top(p).todo # <<b>>
  OBVIOUS
<1> QED
  BY <1>4, <1>5, <1>6, <1>7, <1>8, TopStepNest

LEMMA RelateOneNest ==
  ASSUME RelInv, OneStack, NEW p \in Proc, NestOK(p), RelateOne(p)
  PROVE  OneStack' /\ \A q \in Proc : NestOK(q)'
<1>1. PICK s \in Pending(p) :
        /\ RelOf(s, Top(p).snap) \in {"plain", "bridge"}
        /\ schemas' = [schemas EXCEPT ![s] = [Top(p).snap[s] EXCEPT !.rel = RelOf(s, Top(p).snap)]]
        /\ stack' = SetTop(p, [Top(p) EXCEPT !.left = @ \ {s}])
  BY DEF RelateOne, Finished
<1>2. stack[p] # <<>> /\ Top(p).todo = <<>>
  BY DEF RelateOne, Working
<1>3. Top(p) \in RunT
  BY <1>2, TopTypes
<1>4. s \in Schema /\ Top(p).cur \in SUBSET Schema
  BY <1>3 DEF Pending, RunT
<1>5. [Top(p) EXCEPT !.left = @ \ {s}] = [Top(p) EXCEPT !.left = @ \ {s}, !.cur = Top(p).cur]
  <2> DEFINE o == Top(p)
             l == o.left \ {s}
  <2> HIDE DEF o, l
  <2>1. o \in RunT
    BY <1>3 DEF o
  <2>2. [o EXCEPT !.left = l] = [o EXCEPT !.left = l, !.cur = o.cur]
    BY <2>1 DEF RunT
  <2> QED
    BY <2>2 DEF o, l
<1>6. stack' = SetTop(p, [Top(p) EXCEPT !.left = @ \ {s}, !.cur = Top(p).cur])
  BY <1>1, <1>5
<1> QED
  BY <1>1, <1>2, <1>4, <1>6, FinishNest

LEMMA StoreNativeNest ==
  ASSUME RelInv, OneStack, NEW p \in Proc, NestOK(p), StoreNative(p)
  PROVE  OneStack' /\ \A q \in Proc : NestOK(q)'
<1>1. PICK s \in Top(p).cur :
        /\ schemas' = [schemas EXCEPT ![s] = [Top(p).snap[s] EXCEPT !.rel = "native"]]
        /\ stack' = SetTop(p, [Top(p) EXCEPT !.left = @ \ {s}, !.cur = {}])
  BY DEF StoreNative
<1>2. stack[p] # <<>> /\ Top(p).cur # {}
  BY DEF StoreNative
<1>3. Top(p) \in RunT /\ RunOK(Top(p))
  BY <1>2, TopTypes
<1>4. s \in Schema /\ Top(p).todo = <<>> /\ {} \in SUBSET Schema
  BY <1>2, <1>3 DEF RunT, RunOK
<1> QED
  BY <1>1, <1>2, <1>4, FinishNest

\* A bridge is registered when the run has not seen it: no run below waits for it.
LEMMA RegisterBridgeNest ==
  ASSUME RelInv, OneStack, NEW p \in Proc, NestOK(p), RegisterBridge(p)
  PROVE  OneStack' /\ \A q \in Proc : NestOK(q)'
<1> DEFINE o == Top(p)
           n == Len(stack[p])
<1>1. PICK s \in Pending(p) : \E w \in Seq(RunT) :
        /\ RelOf(s, o.snap) = "native" /\ s \in Schema
        /\ Len(w) = n + 1 /\ w[n + 1] = Run(<<Def[s].brg>>, 0, FALSE)
        /\ \A i \in 1 .. n : w[i] = IF i = n THEN [o EXCEPT !.cur = {s}] ELSE stack[p][i]
        /\ stack' = [stack EXCEPT ![p] = w]
  BY BridgeStack
<1> DEFINE c == [o EXCEPT !.cur = {s}]
           r == Run(<<Def[s].brg>>, 0, FALSE)
           d == Def[s].brg
<1>2. stack[p] # <<>> /\ o.todo = <<>> /\ o.unread = {} /\ schemas' = schemas
  BY DEF RegisterBridge, Working
<1>3. o \in RunT /\ n \in 1 .. n /\ stack[p] \in Seq(RunT) /\ o = stack[p][n]
  BY <1>2, TopTypes DEF RelInv, RunsTypeOK, Top
<1>4. d \in Bridges /\ ~Has(o.snap, d)
  <2>1. Def[s].kind = "refs" /\ ~Has(o.snap, Def[s].brg)
    BY <1>1, SchemaTypes DEF RelOf
  <2> QED
    BY <1>1, <2>1 DEF Bridges
<1>5. c.cur = {s} /\ c.unread = o.unread /\ c.snap = o.snap /\ c.todo = <<>> /\ c.del = o.del
  BY <1>2, <1>3 DEF RunT
<1>6. r.unread = Schema /\ r.todo = <<d>> /\ r.del = FALSE
  BY DEF Run
<1>7. PICK w \in Seq(RunT) :
         /\ Len(w) = n + 1 /\ w[n + 1] = r
         /\ \A i \in 1 .. n : w[i] = IF i = n THEN c ELSE stack[p][i]
         /\ stack' = [stack EXCEPT ![p] = w]
  BY <1>1
<1> HIDE DEF c, r
<1>8. \A q \in Proc : stack'[q] = IF q = p THEN w ELSE stack[q]
  BY <1>7 DEF RelInv, RunsTypeOK
<1>9. \A q \in Proc : q # p => stack[q] = <<>> /\ stack'[q] = <<>>
  BY <1>2, <1>8 DEF OneStack
<1>10. OneStack'
  BY <1>9 DEF OneStack
<1>11. \A k \in 1 .. n - 1 : \A b : Waits(p, k, b)' <=> Waits(p, k, b)
  BY SMTT(60), <1>3, <1>7, <1>8 DEF Waits
<1>12. \A i \in 1 .. n : i = n => \A b : Waits(p, i, b)' <=> b = d
  <2> SUFFICES ASSUME NEW i \in 1 .. n, i = n
               PROVE  \A b : Waits(p, i, b)' <=> b = d
    OBVIOUS
  <2>1. stack'[p][n] = c
    BY <1>3, <1>7, <1>8
  <2>2. stack'[p][i].cur = {s}
    BY <1>5, <2>1
  <2> QED
    BY <2>2 DEF Waits
<1>13. \A k \in 1 .. n - 1 : \A b \in Bridges : Waits(p, k, b) => Has(o.snap, b) /\ Has(schemas, b)
  <2>1. \A b : o.todo # <<b>>
    BY <1>2
  <2> SUFFICES ASSUME NEW k \in 1 .. n - 1, NEW b \in Bridges, Waits(p, k, b)
               PROVE  Has(o.snap, b) /\ Has(schemas, b)
    OBVIOUS
  <2>2. /\ b \in stack[p][n].unread \/ Has(stack[p][n].snap, b)
        /\ Has(schemas, b) \/ stack[p][n].todo = <<b>>
    BY <1>3 DEF NestOK
  <2> QED
    BY <1>2, <1>3, <2>1, <2>2
<1>14. NestOK(p)'
  <2> SUFFICES ASSUME NEW i \in 1 .. n + 1
               PROVE  /\ i > 1 => ~stack'[p][i].del
                      /\ i < n + 1 => \E b \in Bridges : Waits(p, i, b)'
                      /\ \A k \in 1 .. i - 1 : \A b \in Bridges : Waits(p, k, b)' =>
                           /\ b \in stack'[p][i].unread \/ Has(stack'[p][i].snap, b)
                           /\ Has(schemas', b) \/ (i = n + 1 /\ stack'[p][i].todo = <<b>>)
                           /\ i < n + 1 => ~Waits(p, i, b)'
    BY <1>7, <1>8 DEF NestOK
  <2>1. CASE i \in 1 .. n - 1
    <3>1. stack'[p][i] = stack[p][i]
      BY <1>3, <1>7, <1>8, <2>1
    <3>2. /\ i > 1 => ~stack[p][i].del
          /\ \E b \in Bridges : Waits(p, i, b)
      BY <1>3, <2>1 DEF NestOK
    <3>3. ASSUME NEW k \in 1 .. i - 1, NEW b \in Bridges, Waits(p, k, b)
          PROVE  /\ b \in stack[p][i].unread \/ Has(stack[p][i].snap, b)
                 /\ Has(schemas, b)
                 /\ ~Waits(p, i, b)
      <4>1. i \in 1 .. n /\ i < n
        BY <1>3, <2>1
      <4> QED
        BY <3>3, <4>1 DEF NestOK
    <3>4. ASSUME NEW k \in 1 .. i - 1, NEW b \in Bridges
          PROVE  (Waits(p, k, b)' <=> Waits(p, k, b)) /\ (Waits(p, i, b)' <=> Waits(p, i, b))
      BY <1>3, <1>11, <2>1
    <3>5. \E b \in Bridges : Waits(p, i, b)'
      BY <1>11, <2>1, <3>2
    <3>6. ASSUME NEW k \in 1 .. i - 1, NEW b \in Bridges, Waits(p, k, b)'
          PROVE  /\ b \in stack'[p][i].unread \/ Has(stack'[p][i].snap, b)
                 /\ Has(schemas', b)
                 /\ ~Waits(p, i, b)'
      BY <1>2, <3>1, <3>3, <3>4, <3>6
    <3> QED
      BY <3>1, <3>2, <3>5, <3>6
  <2>2. CASE i = n
    <3>1. stack'[p][i] = c
      BY <1>3, <1>7, <1>8, <2>2
    <3>2. i > 1 => ~o.del
      BY <1>3, <2>2 DEF NestOK
    <3>3. ASSUME NEW k \in 1 .. i - 1, NEW b \in Bridges, Waits(p, k, b)'
          PROVE  Has(o.snap, b) /\ Has(schemas, b) /\ b # d
      BY <1>3, <1>4, <1>11, <1>13, <2>2, <3>3
    <3> QED
      BY <1>2, <1>3, <1>4, <1>5, <1>12, <2>2, <3>1, <3>2, <3>3
  <2>3. CASE i = n + 1
    <3>1. stack'[p][i] = r
      BY <1>7, <1>8, <2>3
    <3>2. ASSUME NEW k \in 1 .. i - 1, NEW b \in Bridges, Waits(p, k, b)'
          PROVE  b \in Schema /\ (Has(schemas, b) \/ b = d)
      <4>1. k \in 1 .. n - 1 \/ k = n
        BY <1>3, <2>3
      <4> QED
        <5>1. k \in 1 .. n - 1 => Has(schemas, b)
          BY <1>11, <1>13, <3>2
        <5>2. k = n => b = d
          BY <1>12, <3>2
        <5> QED
          BY <4>1, <5>1, <5>2, BridgesTypes
    <3> QED
      BY <1>2, <1>6, <2>3, <3>1, <3>2
  <2> QED
    BY <1>3, <2>1, <2>2, <2>3
<1>15. \A q \in Proc : q # p => NestOK(q)'
  BY <1>9, EmptySeq DEF NestOK
<1> QED
  BY <1>10, <1>14, <1>15

LEMMA BridgePanicsNest ==
  ASSUME RelInv, OneStack, NEW p \in Proc, BridgePanics(p)
  PROVE  OneStack' /\ \A q \in Proc : NestOK(q)'
<1>1. stack' = [stack EXCEPT ![p] = <<>>] /\ stack[p] # <<>>
  BY DEF BridgePanics, Working
<1>2. \A q \in Proc : stack'[q] = <<>>
  BY <1>1 DEF OneStack, RelInv, RunsTypeOK
<1> QED
  BY <1>2, EmptySeq DEF OneStack, NestOK

LEMMA RunDoneNest ==
  ASSUME RelInv, OneStack, NEW p \in Proc, NestOK(p), RunDone(p)
  PROVE  OneStack' /\ \A q \in Proc : NestOK(q)'
<1> DEFINE n == Len(stack[p])
           t == SubSeq(stack[p], 1, n - 1)
<1>1. stack[p] # <<>> /\ stack' = [stack EXCEPT ![p] = t] /\ schemas' = schemas
  BY DEF RunDone, Working
<1>2. stack[p] \in Seq(RunT) /\ n \in 1 .. n
  BY <1>1, TopTypes DEF RelInv, RunsTypeOK
<1>3. t \in Seq(RunT) /\ Len(t) = n - 1 /\ \A i \in 1 .. n - 1 : t[i] = stack[p][i]
  BY <1>2
<1> HIDE DEF t
<1>4. \A q \in Proc : stack'[q] = IF q = p THEN t ELSE stack[q]
  BY <1>1 DEF RelInv, RunsTypeOK
<1>5. \A q \in Proc : q # p => stack[q] = <<>> /\ stack'[q] = <<>>
  BY <1>1, <1>4 DEF OneStack
<1>6. \A i \in 1 .. n - 1 : \A b : Waits(p, i, b)' <=> Waits(p, i, b)
  BY <1>3, <1>4 DEF Waits
<1>7. NestOK(p)'
  <2> SUFFICES ASSUME NEW i \in 1 .. n - 1
               PROVE  /\ i > 1 => ~stack'[p][i].del
                      /\ i < n - 1 => \E b \in Bridges : Waits(p, i, b)'
                      /\ \A k \in 1 .. i - 1 : \A b \in Bridges : Waits(p, k, b)' =>
                           /\ b \in stack'[p][i].unread \/ Has(stack'[p][i].snap, b)
                           /\ Has(schemas', b) \/ (i = n - 1 /\ stack'[p][i].todo = <<b>>)
                           /\ i < n - 1 => ~Waits(p, i, b)'
    BY <1>3, <1>4 DEF NestOK
  <2>1. stack'[p][i] = stack[p][i]
    BY <1>3, <1>4
  <2>2. /\ i > 1 => ~stack[p][i].del
        /\ \E b \in Bridges : Waits(p, i, b)
    BY <1>2 DEF NestOK
  <2>3. ASSUME NEW k \in 1 .. i - 1, NEW b \in Bridges, Waits(p, k, b)
        PROVE  /\ b \in stack[p][i].unread \/ Has(stack[p][i].snap, b)
               /\ Has(schemas, b) /\ ~Waits(p, i, b)
    <3>1. i \in 1 .. n /\ i < n
      BY <1>2
    <3> QED
      BY <2>3, <3>1 DEF NestOK
  <2> QED
    BY <1>1, <1>2, <1>6, <2>1, <2>2, <2>3
<1>8. \A q \in Proc : q # p => NestOK(q)'
  BY <1>5, EmptySeq DEF NestOK
<1>9. OneStack'
  BY <1>5 DEF OneStack
<1> QED
  BY <1>7, <1>8, <1>9

\* A call that begins while no other runs has nothing below it.
LEMMA StartRunNest ==
  ASSUME RelInv, NEW p \in Proc, NEW r, stack' = [stack EXCEPT ![p] = <<r>>],
         hist' = hist \cup Overlaps, "overlap" \notin hist'
  PROVE  OneStack' /\ \A q \in Proc : NestOK(q)'
<1>1. \A q \in Proc : stack[q] = <<>>
  BY DEF Overlaps
<1>2. \A q \in Proc : stack'[q] = IF q = p THEN <<r>> ELSE <<>>
  BY <1>1 DEF RelInv, RunsTypeOK
<1>3. \A q \in Proc : Len(stack'[q]) \in {0, 1}
  BY <1>2, EmptySeq
<1>4. \A q \in Proc : NestOK(q)'
  <2> SUFFICES ASSUME NEW q \in Proc, NEW i \in 1 .. Len(stack'[q])
               PROVE  i = 1 /\ Len(stack'[q]) = 1
    <3>1. \A k : k \notin 1 .. 0
      OBVIOUS
    <3> QED
      BY <3>1 DEF NestOK
  <2>1. PICK k \in {0, 1} : Len(stack'[q]) = k
    BY <1>3
  <2>2. i \in 1 .. k
    BY <2>1
  <2>3. i = 1 /\ k = 1
    BY <2>2
  <2> QED
    BY <2>1, <2>3
<1> QED
  BY <1>2, <1>4 DEF OneStack

LEMMA SchemaStepNest ==
  ASSUME NestInv, NEW p \in Proc, SchemaStep(p), "overlap" \notin hist'
  PROVE  OneStack' /\ \A q \in Proc : NestOK(q)'
<1>1. OneStack /\ NestOK(p) /\ RelInv
  BY SchemaStepHist DEF NestInv
<1>2. ASSUME NEW b \in Batches, StartRegister(p, b) \/ StartUnregister(p, b)
      PROVE  OneStack' /\ \A q \in Proc : NestOK(q)'
  BY <1>1, <1>2, StartRunNest DEF StartRegister, StartUnregister
<1>3. CASE StoreOne(p)
  BY <1>1, <1>3, StoreOneNest
<1>4. CASE ReadOne(p)
  BY <1>1, <1>4, ReadOneNest
<1>5. CASE RelateOne(p)
  BY <1>1, <1>5, RelateOneNest
<1>6. CASE RegisterBridge(p)
  BY <1>1, <1>6, RegisterBridgeNest
<1>7. CASE StoreNative(p)
  BY <1>1, <1>7, StoreNativeNest
<1>8. CASE BridgePanics(p)
  BY <1>1, <1>8, BridgePanicsNest
<1>9. CASE RunDone(p)
  BY <1>1, <1>9, RunDoneNest
<1> QED
  BY <1>2, <1>3, <1>4, <1>5, <1>6, <1>7, <1>8, <1>9 DEF SchemaStep, SetRelations

LEMMA OtherStepNest ==
  ASSUME NestInv, UNCHANGED schemaVars, SameTrouble
  PROVE  NestInv'
<1>1. RelInv'
  BY OtherStepRel DEF NestInv
<1> QED
  BY SMTT(60), <1>1 DEF NestInv, OneStack, NestOK, Waits, schemaVars, SameTrouble

LEMMA NestInvInit == ConnectionInit => NestInv
<1> SUFFICES ASSUME ConnectionInit PROVE NestInv
  OBVIOUS
<1>1. \A p \in Proc : stack[p] = <<>>
  BY DEF ConnectionInit, Init
<1> QED
  BY <1>1, RelInvInit, EmptyStackNest DEF NestInv, OneStack

LEMMA NestInvStep == NestInv /\ [ConnectionNext]_allVars => NestInv'
<1> SUFFICES ASSUME NestInv, [ConnectionNext]_allVars PROVE NestInv'
  OBVIOUS
<1>1. ASSUME NEW p \in Proc, InitStep(p) PROVE NestInv'
  BY <1>1, InitStepIdle, OtherStepNest DEF SameTrouble
<1>2. ASSUME NEW p \in Proc, ConnectionStep(p) PROVE NestInv'
  BY <1>2, ConnectionStepHist, OtherStepNest
<1>3. ASSUME NEW p \in Proc, SchemaStep(p) PROVE NestInv'
  BY <1>3, SchemaStepRel, SchemaStepNest DEF NestInv
<1>4. CASE UNCHANGED allVars
  BY <1>4, OtherStepNest DEF allVars, vars, schemaVars, SameTrouble
<1> QED
  BY <1>1, <1>2, <1>3, <1>4 DEF ConnectionNext, NamespaceStep

\* Without overlap the runs below the top of a stack wait for different bridges, which
\* every run above them finds.
THEOREM NestingInvariant == ConnectionSpec => []NestInv
<1>1. ConnectionInit => NestInv
  BY NestInvInit
<1>2. NestInv /\ [ConnectionNext]_allVars => NestInv'
  BY NestInvStep
<1> QED
  BY <1>1, <1>2, PTL DEF ConnectionSpec

\* Without overlap setRelations nests at most once for each bridge, so the recursion of
\* RegisterSchema comes to an end.
THEOREM NestingBounded == ConnectionSpec => []NestsOncePerBridge
<1>1. NestInv => NestsOncePerBridge
  <2> SUFFICES ASSUME NestInv, "overlap" \notin hist, NEW p \in Proc
               PROVE  Len(stack[p]) <= 1 + Cardinality(Bridges)
    BY DEF NestsOncePerBridge
  <2> DEFINE n == Len(stack[p])
             f == [i \in 1 .. n - 1 |-> CHOOSE b \in Bridges : Waits(p, i, b)]
  <2>1. NestOK(p) /\ n \in Nat
    BY LenProperties DEF NestInv, RelInv, RunsTypeOK
  <2>2. Cardinality(Bridges) \in Nat /\ IsFiniteSet(Bridges)
    BY BridgesTypes, FS_CardinalityType
  <2>3. \A i \in 1 .. n - 1 : f[i] \in Bridges /\ Waits(p, i, f[i])
    BY <2>1 DEF NestOK
  <2>4. \A i \in 1 .. n - 1 : \A k \in 1 .. i - 1 : \A b \in Bridges :
          Waits(p, k, b) => ~Waits(p, i, b)
    BY <2>1 DEF NestOK
  <2>5. f \in [1 .. n - 1 -> Bridges]
    BY <2>3
  <2> HIDE DEF f
  <2>6. \A i, k \in 1 .. n - 1 : k < i => f[k] # f[i]
    BY <2>1, <2>3, <2>4
  <2>7. f \in Injection(1 .. n - 1, Bridges)
    BY <2>1, <2>5, <2>6 DEF Injection, IsInjective
  <2>8. CASE n = 0
    BY <2>2, <2>8
  <2>9. CASE n > 0
    <3>1. Cardinality(1 .. n - 1) = n - 1
      <4>1. 1 \in Int /\ n - 1 \in Int /\ (1 > n - 1 => n - 1 = 0) /\ n - 1 - 1 + 1 = n - 1
        <5>1. n \in Nat /\ n > 0
          BY <2>1, <2>9
        <5> HIDE DEF n
        <5> QED
          BY <5>1
      <4> HIDE DEF n
      <4>2. Cardinality(1 .. n - 1) = IF 1 > n - 1 THEN 0 ELSE n - 1 - 1 + 1
        BY <4>1, FS_Interval
      <4> QED
        BY <4>1, <4>2
    <3>2. Cardinality(1 .. n - 1) <= Cardinality(Bridges)
      BY <2>2, <2>7, FS_Injection
    <3> QED
      BY <2>1, <2>2, <3>1, <3>2
  <2> QED
    BY <2>1, <2>8, <2>9
<1> QED
  BY <1>1, NestingInvariant, PTL
=============================================================================
