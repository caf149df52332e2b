-------------------------- MODULE UnixServerProofs --------------------------
(***************************************************************************)
(* Theorems about UnixServer, for any servers, clients and bounds.         *)
(***************************************************************************)
EXTENDS UnixServer, FiniteSetTheorems, TLAPS

----------------------------------------------------------------------------
\* Counting

LEMMA HandlersFinite ==
  ASSUME NEW s \in Server
  PROVE  IsFiniteSet(Handlers(s)) /\ Cardinality(Handlers(s)) \in Nat
BY ServerAssumption, FS_Subset, FS_CardinalityType DEF Handlers

\* A step that starts and ends no handler, and leaves the counters and the sleepers
\* alone or lets one sleep while somebody runs.
LEMMA CountsStay ==
  ASSUME WaitGroupCounts, \A s \in Server : Handlers(s)' = Handlers(s), UNCHANGED wg,
         \A s \in Server : sd'[s] = "asleep" => sd[s] = "asleep" \/ wg[s] > 0
  PROVE  WaitGroupCounts'
<1> SUFFICES ASSUME NEW s \in Server
             PROVE  /\ wg'[s] = Cardinality(Handlers(s)')
                    /\ sd'[s] = "asleep" => wg'[s] > 0
  BY DEF WaitGroupCounts
<1>1. wg[s] = Cardinality(Handlers(s)) /\ (sd[s] = "asleep" => wg[s] > 0)
  BY DEF WaitGroupCounts
<1> QED
  BY <1>1

----------------------------------------------------------------------------
\* The process ends

LEMMA EndProcessKeeps ==
  ASSUME IInv, NEW s \in Server, NEW why \in {"failed", "killed", "panic", "exit"},
         EndProcess(s, why), sock' = sock, starts' = starts,
         sigs' \in [Server -> 0 .. MaxSignals],
         why = "failed" => Company(s), why = "exit" => sd[s] = "exit"
  PROVE  IInv'
<1>1. TypeOK'
  <2>1. Accepted(s) \in SUBSET Client
    BY DEF Accepted
  <2>2. lost' \in [Server -> SUBSET Client]
    BY <2>1 DEF IInv, TypeOK, EndProcess
  <2>3. /\ st' \in [Server -> {"down", "stat", "remove", "listen", "notify", "up"}]
        /\ how' \in [Server -> {"none", "failed", "killed", "panic", "exit"}]
        /\ lsn' \in [Server -> {"none", "open", "closed"}]
        /\ acc' \in [Server -> {"off", "accept", "add", "select", "done"}]
        /\ sd' \in [Server -> {"off", "idle", "close", "wait", "asleep", "woken", "remove", "exit"}]
    BY DEF IInv, TypeOK, EndProcess
  <2>4. quit' \in [Server -> 0 .. 1] /\ wg' \in [Server -> Nat]
    BY DEF IInv, TypeOK, EndProcess
  <2>5. conn' \in [Client -> {"new", "queued", "accepted", "read", "busy", "reply", "closed", "cut"}]
    BY DEF IInv, TypeOK, EndProcess
  <2> QED
    BY <2>2, <2>3, <2>4, <2>5 DEF IInv, TypeOK, EndProcess
<1>2. WaitGroupCounts'
  <2>1. Handlers(s)' = {}
    BY DEF EndProcess, Handlers, Served
  <2>2. \A t \in Server \ {s} : Handlers(t)' = Handlers(t)
    BY DEF EndProcess, Handlers, Served
  <2>3. wg' = [wg EXCEPT ![s] = 0] /\ sd' = [sd EXCEPT ![s] = "off"]
    BY DEF EndProcess
  <2> SUFFICES ASSUME NEW t \in Server
               PROVE  /\ wg'[t] = Cardinality(Handlers(t)')
                      /\ sd'[t] = "asleep" => wg'[t] > 0
    BY DEF WaitGroupCounts
  <2>4. wg \in [Server -> Nat] /\ sd \in [Server -> {"off", "idle", "close", "wait", "asleep", "woken", "remove", "exit"}]
    BY DEF IInv, TypeOK
  <2>5. CASE t = s
    BY <2>1, <2>3, <2>4, <2>5, FS_EmptySet
  <2>6. CASE t # s
    <3>1. wg[t] = Cardinality(Handlers(t)) /\ (sd[t] = "asleep" => wg[t] > 0)
      BY DEF IInv, WaitGroupCounts
    <3> QED
      BY <2>2, <2>3, <2>4, <2>6, <3>1
  <2> QED
    BY <2>5, <2>6
<1>3. AtMostOneLost'
  BY DEF IInv, TypeOK, EndProcess, AtMostOneLost, AcceptOK
<1>4. StartSucceeds'
  BY DEF IInv, TypeOK, EndProcess, StartSucceeds, Company
<1>5. ProcessOK'
  BY DEF IInv, TypeOK, EndProcess, ProcessOK
<1>6. AcceptOK'
  BY DEF IInv, TypeOK, EndProcess, AcceptOK, Accepted, Served
<1>7. ConnOK'
  BY DEF IInv, TypeOK, EndProcess, ConnOK
<1>8. PathOK'
  BY DEF IInv, TypeOK, EndProcess, PathOK, Company
<1> QED
  BY <1>1, <1>2, <1>3, <1>4, <1>5, <1>6, <1>7, <1>8 DEF IInv

----------------------------------------------------------------------------
\* The start of a server

LEMMA BootKeeps ==
  ASSUME IInv, NEW s \in Server, Boot(s)
  PROVE  IInv'
<1>1. TypeOK'
  <2>1. starts' \in [Server -> Nat] /\ \A t \in Server : starts'[t] <= MaxStarts[t]
    <3>1. starts \in [Server -> Nat] /\ starts' = [starts EXCEPT ![s] = @ + 1]
          /\ starts[s] < MaxStarts[s] /\ \A t \in Server : starts[t] <= MaxStarts[t]
      BY DEF IInv, TypeOK, Boot
    <3>2. \A t \in Server : MaxStarts[t] \in Nat
      BY ServerAssumption
    <3> QED
      BY <3>1, <3>2
  <2> QED
    BY <2>1 DEF IInv, TypeOK, Boot, connVars
<1>2. WaitGroupCounts'
  <2>1. \A t \in Server : Handlers(t)' = Handlers(t)
    BY DEF Boot, Handlers, Served, connVars, bounds
  <2> QED
    BY <2>1, CountsStay DEF IInv, TypeOK, Boot, connVars, bounds
<1>3. StartSucceeds' /\ ConnOK'
  BY DEF IInv, TypeOK, Boot, StartSucceeds, Company, ConnOK, connVars, bounds
<1>4. AtMostOneLost'
  BY DEF IInv, TypeOK, Boot, AtMostOneLost, connVars, bounds
<1>5. ProcessOK'
  BY DEF IInv, TypeOK, Boot, ProcessOK, connVars, bounds
<1>6. AcceptOK'
  BY DEF IInv, TypeOK, Boot, AcceptOK, Accepted, Served, ProcessOK, connVars, bounds
<1>7. PathOK'
  BY DEF IInv, TypeOK, Boot, PathOK, Company, connVars, bounds
<1> QED
  BY <1>1, <1>2, <1>3, <1>4, <1>5, <1>6, <1>7 DEF IInv

LEMMA StatSocketKeeps ==
  ASSUME IInv, NEW s \in Server, StatSocket(s)
  PROVE  IInv'
<1>1. TypeOK'
  BY DEF IInv, TypeOK, StatSocket, connVars, bounds
<1>2. WaitGroupCounts'
  <2>1. \A t \in Server : Handlers(t)' = Handlers(t)
    BY DEF StatSocket, Handlers, Served, connVars, bounds
  <2> QED
    BY <2>1, CountsStay DEF IInv, TypeOK, StatSocket, connVars, bounds
<1>3. AtMostOneLost' /\ StartSucceeds' /\ ConnOK'
  BY DEF IInv, TypeOK, StatSocket, AtMostOneLost, StartSucceeds, Company, ConnOK, connVars, bounds
<1>4. ProcessOK'
  BY DEF IInv, TypeOK, StatSocket, ProcessOK, connVars, bounds
<1>5. AcceptOK'
  BY DEF IInv, TypeOK, StatSocket, AcceptOK, Accepted, Served, connVars, bounds
<1>6. PathOK'
  BY DEF IInv, TypeOK, StatSocket, PathOK, Company, connVars, bounds
<1> QED
  BY <1>1, <1>2, <1>3, <1>4, <1>5, <1>6 DEF IInv

LEMMA NotifyKeeps ==
  ASSUME IInv, NEW s \in Server, Notify(s)
  PROVE  IInv'
<1>1. TypeOK'
  BY DEF IInv, TypeOK, Notify, connVars, bounds
<1>2. WaitGroupCounts'
  <2>1. \A t \in Server : Handlers(t)' = Handlers(t)
    BY DEF Notify, Handlers, Served, connVars, bounds
  <2> QED
    BY <2>1, CountsStay DEF IInv, TypeOK, Notify, connVars, bounds
<1>3. AtMostOneLost' /\ StartSucceeds' /\ ConnOK'
  BY DEF IInv, TypeOK, Notify, AtMostOneLost, StartSucceeds, Company, ConnOK, connVars, bounds
<1>4. ProcessOK'
  BY DEF IInv, TypeOK, Notify, ProcessOK, connVars, bounds
<1>5. AcceptOK'
  BY SMTT(60) DEF IInv, TypeOK, Notify, AcceptOK, Accepted, Served, ProcessOK, connVars, bounds
<1>6. PathOK'
  BY DEF IInv, TypeOK, Notify, PathOK, Company, connVars, bounds
<1> QED
  BY <1>1, <1>2, <1>3, <1>4, <1>5, <1>6 DEF IInv

----------------------------------------------------------------------------
\* acceptConnections

LEMMA AcceptKeeps ==
  ASSUME IInv, NEW s \in Server, Accept(s)
  PROVE  IInv'
<1>1. TypeOK'
  BY DEF IInv, TypeOK, Accept, connVars, bounds
<1>2. WaitGroupCounts'
  <2>1. \A t \in Server : Handlers(t)' = Handlers(t)
    BY DEF Accept, Handlers, Served, connVars, bounds
  <2> QED
    BY <2>1, CountsStay DEF IInv, TypeOK, Accept, connVars, bounds
<1>3. AtMostOneLost' /\ StartSucceeds' /\ PathOK' /\ ConnOK'
  BY DEF IInv, TypeOK, Accept, AtMostOneLost, StartSucceeds, Company, PathOK, ConnOK, connVars, bounds
<1>4. ProcessOK'
  BY DEF IInv, TypeOK, Accept, ProcessOK, connVars, bounds
<1>5. AcceptOK'
  BY DEF IInv, TypeOK, Accept, AcceptOK, Accepted, Served, ProcessOK, connVars, bounds
<1> QED
  BY <1>1, <1>2, <1>3, <1>4, <1>5 DEF IInv

LEMMA AcceptClosedKeeps ==
  ASSUME IInv, NEW s \in Server, AcceptClosed(s)
  PROVE  IInv'
<1>1. TypeOK'
  BY DEF IInv, TypeOK, AcceptClosed, connVars, bounds
<1>2. WaitGroupCounts'
  <2>1. \A t \in Server : Handlers(t)' = Handlers(t)
    BY DEF AcceptClosed, Handlers, Served, connVars, bounds
  <2> QED
    BY <2>1, CountsStay DEF IInv, TypeOK, AcceptClosed, connVars, bounds
<1>3. AtMostOneLost' /\ StartSucceeds' /\ PathOK' /\ ConnOK'
  BY DEF IInv, TypeOK, AcceptClosed, AtMostOneLost, StartSucceeds, Company, PathOK, ConnOK, connVars, bounds
<1>4. ProcessOK'
  BY DEF IInv, TypeOK, AcceptClosed, ProcessOK, connVars, bounds
<1>5. AcceptOK'
  BY DEF IInv, TypeOK, AcceptClosed, AcceptOK, Accepted, Served, ProcessOK, connVars, bounds
<1> QED
  BY <1>1, <1>2, <1>3, <1>4, <1>5 DEF IInv

LEMMA AcceptErrKeeps ==
  ASSUME IInv, NEW s \in Server, AcceptErr(s)
  PROVE  IInv'
<1>1. TypeOK'
  BY DEF IInv, TypeOK, AcceptErr, connVars, bounds
<1>2. WaitGroupCounts'
  <2>1. \A t \in Server : Handlers(t)' = Handlers(t)
    BY DEF AcceptErr, Handlers, Served, connVars, bounds
  <2> QED
    BY <2>1, CountsStay DEF IInv, TypeOK, AcceptErr, connVars, bounds
<1>3. AtMostOneLost' /\ StartSucceeds' /\ PathOK' /\ ConnOK'
  BY DEF IInv, TypeOK, AcceptErr, AtMostOneLost, StartSucceeds, Company, PathOK, ConnOK, connVars, bounds
<1>4. ProcessOK'
  BY DEF IInv, TypeOK, AcceptErr, ProcessOK, connVars, bounds
<1>5. AcceptOK'
  BY DEF IInv, TypeOK, AcceptErr, AcceptOK, Accepted, Served, ProcessOK, connVars, bounds
<1> QED
  BY <1>1, <1>2, <1>3, <1>4, <1>5 DEF IInv

LEMMA SelectQuitKeeps ==
  ASSUME IInv, NEW s \in Server, SelectQuit(s)
  PROVE  IInv'
<1>1. TypeOK'
  BY DEF IInv, TypeOK, SelectQuit, connVars, bounds
<1>2. WaitGroupCounts'
  <2>1. \A t \in Server : Handlers(t)' = Handlers(t)
    BY DEF SelectQuit, Handlers, Served, connVars, bounds
  <2> QED
    BY <2>1, CountsStay DEF IInv, TypeOK, SelectQuit, connVars, bounds
<1>3. AtMostOneLost' /\ StartSucceeds' /\ PathOK' /\ ConnOK'
  BY DEF IInv, TypeOK, SelectQuit, AtMostOneLost, StartSucceeds, Company, PathOK, ConnOK, connVars, bounds
<1>4. ProcessOK'
  BY DEF IInv, TypeOK, SelectQuit, ProcessOK, connVars, bounds
<1>5. AcceptOK'
  BY DEF IInv, TypeOK, SelectQuit, AcceptOK, Accepted, Served, ProcessOK, connVars, bounds
<1> QED
  BY <1>1, <1>2, <1>3, <1>4, <1>5 DEF IInv

----------------------------------------------------------------------------
\* handleShutdown

LEMMA TakeSignalKeeps ==
  ASSUME IInv, NEW s \in Server, TakeSignal(s)
  PROVE  IInv'
<1>1. TypeOK'
  BY DEF IInv, TypeOK, TakeSignal, connVars, bounds
<1>2. WaitGroupCounts'
  <2>1. \A t \in Server : Handlers(t)' = Handlers(t)
    BY DEF TakeSignal, Handlers, Served, connVars, bounds
  <2> QED
    BY <2>1, CountsStay DEF IInv, TypeOK, TakeSignal, connVars, bounds
<1>3. AtMostOneLost' /\ StartSucceeds' /\ ConnOK'
  BY DEF IInv, TypeOK, TakeSignal, AtMostOneLost, StartSucceeds, Company, ConnOK, connVars, bounds
<1>4. ProcessOK'
  BY DEF IInv, TypeOK, TakeSignal, ProcessOK, connVars, bounds
<1>5. AcceptOK'
  BY DEF IInv, TypeOK, TakeSignal, AcceptOK, Accepted, Served, ProcessOK, connVars, bounds
<1>6. PathOK'
  BY DEF IInv, TypeOK, TakeSignal, PathOK, Company, connVars, bounds
<1> QED
  BY <1>1, <1>2, <1>3, <1>4, <1>5, <1>6 DEF IInv

LEMMA CloseListenerKeeps ==
  ASSUME IInv, NEW s \in Server, CloseListener(s)
  PROVE  IInv'
<1>1. TypeOK'
  BY DEF IInv, TypeOK, CloseListener, connVars, bounds
<1>2. WaitGroupCounts'
  <2>1. \A t \in Server : Handlers(t)' = Handlers(t)
    BY DEF CloseListener, Handlers, Served, connVars, bounds
  <2> QED
    BY <2>1, CountsStay DEF IInv, TypeOK, CloseListener, connVars, bounds
<1>3. AtMostOneLost' /\ StartSucceeds' /\ ConnOK'
  BY DEF IInv, TypeOK, CloseListener, AtMostOneLost, StartSucceeds, Company, ConnOK, connVars, bounds
<1>4. ProcessOK'
  BY DEF IInv, TypeOK, CloseListener, ProcessOK, connVars, bounds
<1>5. AcceptOK'
  BY DEF IInv, TypeOK, CloseListener, AcceptOK, Accepted, Served, ProcessOK, connVars, bounds
<1>6. PathOK'
  BY DEF IInv, TypeOK, CloseListener, PathOK, ProcessOK, Company, connVars, bounds
<1> QED
  BY <1>1, <1>2, <1>3, <1>4, <1>5, <1>6 DEF IInv

LEMMA WaitKeeps ==
  ASSUME IInv, NEW s \in Server, Wait(s)
  PROVE  IInv'
<1>1. TypeOK'
  BY DEF IInv, TypeOK, Wait, connVars, bounds
<1>2. WaitGroupCounts'
  <2>1. \A t \in Server : Handlers(t)' = Handlers(t)
    BY DEF Wait, Handlers, Served, connVars, bounds
  <2> QED
    BY <2>1, CountsStay DEF IInv, TypeOK, Wait, connVars, bounds
<1>3. AtMostOneLost' /\ StartSucceeds' /\ ConnOK'
  BY DEF IInv, TypeOK, Wait, AtMostOneLost, StartSucceeds, Company, ConnOK, connVars, bounds
<1>4. ProcessOK'
  BY DEF IInv, TypeOK, Wait, ProcessOK, connVars, bounds
<1>5. AcceptOK'
  <2>1. wg[s] = 0 => Handlers(s) = {}
    BY HandlersFinite, FS_EmptySet DEF IInv, WaitGroupCounts
  <2>2. \A t \in Server : Accepted(t)' = Accepted(t)
    BY DEF Wait, Accepted, Served, connVars
  <2>3. wg[s] = 0 => \A c, d \in Accepted(s) : c = d
    BY <2>1 DEF IInv, AcceptOK, Accepted, Handlers
  <2> QED
    BY <2>2, <2>3 DEF IInv, TypeOK, Wait, AcceptOK, connVars
<1>6. PathOK'
  BY DEF IInv, TypeOK, Wait, PathOK, Company, connVars, bounds
<1> QED
  BY <1>1, <1>2, <1>3, <1>4, <1>5, <1>6 DEF IInv

LEMMA RemoveAtExitKeeps ==
  ASSUME IInv, NEW s \in Server, RemoveAtExit(s)
  PROVE  IInv'
<1>1. TypeOK'
  BY DEF IInv, TypeOK, RemoveAtExit, connVars, bounds
<1>2. WaitGroupCounts'
  <2>1. \A t \in Server : Handlers(t)' = Handlers(t)
    BY DEF RemoveAtExit, Handlers, Served, connVars, bounds
  <2> QED
    BY <2>1, CountsStay DEF IInv, TypeOK, RemoveAtExit, connVars, bounds
<1>3. AtMostOneLost' /\ StartSucceeds' /\ ConnOK'
  BY DEF IInv, TypeOK, RemoveAtExit, AtMostOneLost, StartSucceeds, Company, ConnOK, connVars, bounds
<1>4. ProcessOK'
  BY DEF IInv, TypeOK, RemoveAtExit, ProcessOK, connVars, bounds
<1>5. AcceptOK'
  BY DEF IInv, TypeOK, RemoveAtExit, AcceptOK, Accepted, Served, ProcessOK, connVars, bounds
<1>6. PathOK'
  BY DEF IInv, TypeOK, RemoveAtExit, PathOK, ProcessOK, Company, connVars, bounds
<1> QED
  BY <1>1, <1>2, <1>3, <1>4, <1>5, <1>6 DEF IInv

----------------------------------------------------------------------------
\* Clients and handlers that go on

LEMMA DialKeeps ==
  ASSUME IInv, NEW c \in Client, Dial(c)
  PROVE  IInv'
<1>1. TypeOK'
  BY DEF IInv, TypeOK, Dial, connVars, bounds
<1>2. WaitGroupCounts'
  <2>1. \A t \in Server : Handlers(t)' = Handlers(t)
    BY DEF Dial, Handlers, Served, connVars, bounds
  <2> QED
    BY <2>1, CountsStay DEF IInv, TypeOK, Dial, connVars, bounds
<1>3. AtMostOneLost' /\ StartSucceeds' /\ ProcessOK' /\ PathOK'
  BY DEF IInv, TypeOK, Dial, AtMostOneLost, StartSucceeds, Company, ProcessOK, PathOK, connVars, bounds
<1>4. AcceptOK'
  BY DEF IInv, TypeOK, Dial, AcceptOK, Accepted, Served, ProcessOK, connVars, bounds
<1>5. ConnOK'
  BY DEF IInv, TypeOK, Dial, ConnOK, connVars, bounds
<1> QED
  BY <1>1, <1>2, <1>3, <1>4, <1>5 DEF IInv

LEMMA ReceiveKeeps ==
  ASSUME IInv, NEW c \in Client, Receive(c)
  PROVE  IInv'
<1>1. TypeOK'
  <2>1. MaxMsgs \in Nat
    BY ServerAssumption
  <2>2. msgs' \in [Client -> 0 .. MaxMsgs]
    BY <2>1 DEF IInv, TypeOK, Receive
  <2>3. conn' \in [Client -> {"new", "queued", "accepted", "read", "busy", "reply", "closed", "cut"}]
    BY DEF IInv, TypeOK, Receive
  <2> QED
    BY <2>2, <2>3 DEF IInv, TypeOK, Receive, bounds
<1>2. WaitGroupCounts'
  <2>1. \A t \in Server : Handlers(t)' = Handlers(t)
    BY DEF Receive, Handlers, Served, connVars, bounds
  <2> QED
    BY <2>1, CountsStay DEF IInv, TypeOK, Receive, connVars, bounds
<1>3. AtMostOneLost' /\ StartSucceeds' /\ ProcessOK' /\ PathOK' /\ ConnOK'
  BY DEF IInv, TypeOK, Receive, AtMostOneLost, StartSucceeds, Company, ProcessOK, PathOK, ConnOK, connVars, bounds
<1>4. AcceptOK'
  BY DEF IInv, TypeOK, Receive, AcceptOK, Accepted, Served, ProcessOK, connVars, bounds
<1> QED
  BY <1>1, <1>2, <1>3, <1>4 DEF IInv

LEMMA HandledKeeps ==
  ASSUME IInv, NEW c \in Client, Handled(c)
  PROVE  IInv'
<1>1. TypeOK'
  BY DEF IInv, TypeOK, Handled, connVars, bounds
<1>2. WaitGroupCounts'
  <2>1. \A t \in Server : Handlers(t)' = Handlers(t)
    BY DEF Handled, Handlers, Served, connVars, bounds
  <2> QED
    BY <2>1, CountsStay DEF IInv, TypeOK, Handled, connVars, bounds
<1>3. AtMostOneLost' /\ StartSucceeds' /\ ProcessOK' /\ PathOK' /\ ConnOK'
  BY DEF IInv, TypeOK, Handled, AtMostOneLost, StartSucceeds, Company, ProcessOK, PathOK, ConnOK, connVars, bounds
<1>4. AcceptOK'
  BY DEF IInv, TypeOK, Handled, AcceptOK, Accepted, Served, ProcessOK, connVars, bounds
<1> QED
  BY <1>1, <1>2, <1>3, <1>4 DEF IInv

LEMMA ReplySentKeeps ==
  ASSUME IInv, NEW c \in Client, ReplySent(c)
  PROVE  IInv'
<1>1. TypeOK'
  BY DEF IInv, TypeOK, ReplySent, connVars, bounds
<1>2. WaitGroupCounts'
  <2>1. \A t \in Server : Handlers(t)' = Handlers(t)
    BY DEF ReplySent, Handlers, Served, connVars, bounds
  <2> QED
    BY <2>1, CountsStay DEF IInv, TypeOK, ReplySent, connVars, bounds
<1>3. AtMostOneLost' /\ StartSucceeds' /\ ProcessOK' /\ PathOK' /\ ConnOK'
  BY DEF IInv, TypeOK, ReplySent, AtMostOneLost, StartSucceeds, Company, ProcessOK, PathOK, ConnOK, connVars, bounds
<1>4. AcceptOK'
  BY DEF IInv, TypeOK, ReplySent, AcceptOK, Accepted, Served, ProcessOK, connVars, bounds
<1> QED
  BY <1>1, <1>2, <1>3, <1>4 DEF IInv

----------------------------------------------------------------------------
\* Steps that may end the process, and steps of the counter

LEMMA RemoveSocketKeeps ==
  ASSUME IInv, NEW s \in Server, RemoveSocket(s)
  PROVE  IInv'
<1>1. CASE sock = NoServer
  <2>1. EndProcess(s, "failed") /\ sock' = sock /\ starts' = starts /\ sigs' = sigs
    BY <1>1 DEF RemoveSocket, bounds
  <2>2. Company(s)
    BY <1>1 DEF IInv, PathOK, RemoveSocket
  <2> QED
    BY <2>1, <2>2, EndProcessKeeps DEF IInv, TypeOK
<1>2. CASE sock # NoServer
  <2>1. sock' = NoServer /\ st' = [st EXCEPT ![s] = "listen"]
        /\ UNCHANGED <<how, lsn, acc, sd, quit, wg, connVars, lost, bounds>>
    BY <1>2 DEF RemoveSocket
  <2>2. TypeOK'
    BY <2>1 DEF IInv, TypeOK, connVars, bounds
  <2>3. WaitGroupCounts'
    <3>1. \A t \in Server : Handlers(t)' = Handlers(t)
      BY <2>1 DEF Handlers, Served, connVars
    <3> QED
      BY <2>1, <3>1, CountsStay DEF IInv
  <2>4. AtMostOneLost' /\ StartSucceeds' /\ ConnOK'
    BY <2>1 DEF IInv, AtMostOneLost, StartSucceeds, Company, ConnOK, connVars, bounds
  <2>5. ProcessOK' /\ AcceptOK'
    BY <2>1 DEF IInv, TypeOK, ProcessOK, AcceptOK, Accepted, Served, RemoveSocket, connVars, bounds
  <2>6. PathOK'
    BY <2>1 DEF IInv, TypeOK, PathOK, ProcessOK, Company, RemoveSocket, bounds
  <2> QED
    BY <2>2, <2>3, <2>4, <2>5, <2>6 DEF IInv
<1> QED
  BY <1>1, <1>2

LEMMA ListenKeeps ==
  ASSUME IInv, NEW s \in Server, Listen(s)
  PROVE  IInv'
<1>1. CASE sock # NoServer
  <2>1. EndProcess(s, "failed") /\ sock' = sock /\ starts' = starts /\ sigs' = sigs
    BY <1>1 DEF Listen, bounds
  <2>2. Company(s)
    BY <1>1 DEF IInv, PathOK, Listen
  <2> QED
    BY <2>1, <2>2, EndProcessKeeps DEF IInv, TypeOK
<1>2. CASE sock = NoServer
  <2>1. sock' = s /\ lsn' = [lsn EXCEPT ![s] = "open"] /\ st' = [st EXCEPT ![s] = "notify"]
        /\ st[s] = "listen" /\ UNCHANGED <<how, acc, sd, quit, wg, connVars, lost, bounds>>
    BY <1>2 DEF Listen
  <2>2. TypeOK'
    BY <2>1 DEF IInv, TypeOK, connVars, bounds
  <2>3. WaitGroupCounts'
    <3>1. \A t \in Server : Handlers(t)' = Handlers(t)
      BY <2>1 DEF Handlers, Served, connVars
    <3> QED
      BY <2>1, <3>1, CountsStay DEF IInv
  <2>4. AtMostOneLost' /\ StartSucceeds' /\ ConnOK'
    BY <2>1 DEF IInv, AtMostOneLost, StartSucceeds, Company, ConnOK, connVars, bounds
  <2>5. ProcessOK'
    BY <2>1 DEF IInv, TypeOK, ProcessOK, bounds
  <2>6. AcceptOK'
    BY <2>1 DEF IInv, AcceptOK, Accepted, Served, connVars
  <2>7. PathOK'
    BY <2>1, ServerAssumption DEF IInv, TypeOK, PathOK, ProcessOK, Company, bounds
  <2> QED
    BY <2>2, <2>3, <2>4, <2>5, <2>6, <2>7 DEF IInv
<1> QED
  BY <1>1, <1>2

LEMMA SignalKeeps ==
  ASSUME IInv, NEW s \in Server, Signal(s)
  PROVE  IInv'
<1>1. sigs' \in [Server -> 0 .. MaxSignals] /\ sock' = sock /\ starts' = starts
  BY ServerAssumption DEF IInv, TypeOK, Signal
<1>2. CASE st[s] # "up"
  BY <1>1, <1>2, EndProcessKeeps DEF Signal
<1>3. CASE st[s] = "up"
  <2>1. quit' = [quit EXCEPT ![s] = 1] /\ UNCHANGED <<st, how, lsn, acc, sd, wg, connVars, lost>>
    BY <1>3 DEF Signal
  <2>2. TypeOK'
    BY <1>1, <2>1 DEF IInv, TypeOK, connVars
  <2>3. WaitGroupCounts'
    <3>1. \A t \in Server : Handlers(t)' = Handlers(t)
      BY <2>1 DEF Handlers, Served, connVars
    <3> QED
      BY <2>1, <3>1, CountsStay DEF IInv
  <2>4. AtMostOneLost' /\ StartSucceeds' /\ ConnOK' /\ PathOK'
    BY <1>1, <2>1 DEF IInv, AtMostOneLost, StartSucceeds, Company, ConnOK, PathOK, connVars
  <2>5. ProcessOK' /\ AcceptOK'
    BY <1>1, <2>1 DEF IInv, ProcessOK, AcceptOK, Accepted, Served, connVars
  <2> QED
    BY <2>2, <2>3, <2>4, <2>5 DEF IInv
<1> QED
  BY <1>2, <1>3

LEMMA WokenKeeps ==
  ASSUME IInv, NEW s \in Server, Woken(s)
  PROVE  IInv'
<1>1. UNCHANGED <<sock, starts, sigs>> /\ sigs' \in [Server -> 0 .. MaxSignals]
  BY DEF IInv, TypeOK, Woken, bounds
<1>2. CASE wg[s] # 0
  BY <1>1, <1>2, EndProcessKeeps DEF Woken
<1>3. CASE wg[s] = 0
  <2>1. sd' = [sd EXCEPT ![s] = "remove"] /\ sd[s] = "woken"
        /\ UNCHANGED <<st, how, lsn, acc, quit, wg, connVars, lost>>
    BY <1>3 DEF Woken
  <2>2. TypeOK'
    BY <1>1, <2>1 DEF IInv, TypeOK, connVars
  <2>3. WaitGroupCounts'
    <3>1. \A t \in Server : Handlers(t)' = Handlers(t)
      BY <2>1 DEF Handlers, Served, connVars
    <3> QED
      BY <2>1, <3>1, CountsStay DEF IInv, TypeOK
  <2>4. AtMostOneLost' /\ StartSucceeds' /\ ConnOK' /\ PathOK'
    BY <1>1, <2>1 DEF IInv, AtMostOneLost, StartSucceeds, Company, ConnOK, PathOK, connVars
  <2>5. ProcessOK'
    BY <1>1, <2>1 DEF IInv, TypeOK, ProcessOK
  <2>6. AcceptOK'
    BY <2>1 DEF IInv, TypeOK, AcceptOK, Accepted, Served, connVars
  <2> QED
    BY <2>2, <2>3, <2>4, <2>5, <2>6 DEF IInv
<1> QED
  BY <1>2, <1>3

LEMMA ExitKeeps ==
  ASSUME IInv, NEW s \in Server, Exit(s)
  PROVE  IInv'
<1>1. EndProcess(s, "exit") /\ sd[s] = "exit" /\ UNCHANGED <<sock, starts, sigs>>
  BY DEF Exit, bounds
<1> QED
  BY <1>1, EndProcessKeeps DEF IInv, TypeOK

LEMMA HandlePanicsKeeps ==
  ASSUME IInv, NEW c \in Client, HandlePanics(c)
  PROVE  IInv'
<1>1. EndProcess(srv[c], "panic") /\ UNCHANGED <<sock, starts, sigs>>
  BY DEF HandlePanics, bounds
<1>2. srv[c] \in Server
  BY DEF IInv, ConnOK, HandlePanics
<1> QED
  BY <1>1, <1>2, EndProcessKeeps DEF IInv, TypeOK

\* One handler more, counted before it runs.
LEMMA AddConnKeeps ==
  ASSUME IInv, NEW s \in Server, AddConn(s)
  PROVE  IInv'
<1>1. PICK c \in Client : srv[c] = s /\ conn[c] = "accepted" /\ conn' = [conn EXCEPT ![c] = "read"]
  BY DEF AddConn
<1>2. /\ acc[s] = "add" /\ acc' = [acc EXCEPT ![s] = "accept"]
      /\ wg' = [wg EXCEPT ![s] = @ + 1]
      /\ UNCHANGED <<sock, st, how, lsn, sd, quit, srv, msgs, lost, starts, sigs>>
  BY DEF AddConn, bounds
<1>3. TypeOK'
  BY <1>1, <1>2 DEF IInv, TypeOK
<1>4. WaitGroupCounts'
  <2>1. Handlers(s)' = Handlers(s) \cup {c} /\ c \notin Handlers(s)
    BY <1>1, <1>2 DEF IInv, TypeOK, Handlers, Served
  <2>2. \A t \in Server \ {s} : Handlers(t)' = Handlers(t)
    BY <1>1, <1>2 DEF IInv, TypeOK, Handlers, Served
  <2>3. Cardinality(Handlers(s)') = Cardinality(Handlers(s)) + 1
    BY <2>1, HandlersFinite, FS_AddElement
  <2> SUFFICES ASSUME NEW t \in Server
               PROVE  wg'[t] = Cardinality(Handlers(t)') /\ (sd'[t] = "asleep" => wg'[t] > 0)
    BY DEF WaitGroupCounts
  <2>4. wg[t] = Cardinality(Handlers(t)) /\ (sd[t] = "asleep" => wg[t] > 0)
        /\ wg \in [Server -> Nat]
    BY DEF IInv, TypeOK, WaitGroupCounts
  <2>5. CASE t = s
    BY <1>2, <2>3, <2>4, <2>5
  <2>6. CASE t # s
    BY <1>2, <2>2, <2>4, <2>6
  <2> QED
    BY <2>5, <2>6
<1>5. AtMostOneLost' /\ StartSucceeds' /\ PathOK'
  BY <1>2 DEF IInv, AtMostOneLost, StartSucceeds, Company, PathOK
<1>6. ProcessOK'
  BY <1>2 DEF IInv, TypeOK, ProcessOK
<1>7. AcceptOK'
  BY <1>1, <1>2 DEF IInv, TypeOK, AcceptOK, Accepted, Served
<1>8. ConnOK'
  BY <1>1, <1>2 DEF IInv, TypeOK, ConnOK
<1> QED
  BY <1>3, <1>4, <1>5, <1>6, <1>7, <1>8 DEF IInv

\* One handler less: the last one wakes the shutdown.
LEMMA ReturnKeeps ==
  ASSUME IInv, NEW c \in Client, Served(c), Return(c)
  PROVE  IInv'
<1> DEFINE s == srv[c]
<1>1. s \in Server /\ conn[c] # "new"
  BY DEF IInv, ConnOK, Served
<1>2. /\ conn' = [conn EXCEPT ![c] = "closed"]
      /\ wg' = [wg EXCEPT ![s] = @ - 1]
      /\ sd' = IF wg[s] = 1 /\ sd[s] = "asleep" THEN [sd EXCEPT ![s] = "woken"] ELSE sd
      /\ UNCHANGED <<sock, st, how, lsn, acc, quit, srv, msgs, lost, starts, sigs>>
  BY DEF Return, bounds
<1>3. Handlers(s)' = Handlers(s) \ {c} /\ c \in Handlers(s)
  BY <1>2 DEF IInv, TypeOK, Handlers, Served
<1>4. /\ Cardinality(Handlers(s)') = Cardinality(Handlers(s)) - 1
      /\ wg[s] = Cardinality(Handlers(s)) /\ wg[s] \in Nat /\ wg[s] # 0
  <2>1. wg[s] = Cardinality(Handlers(s)) /\ wg[s] \in Nat
    BY <1>1 DEF IInv, TypeOK, WaitGroupCounts
  <2>2. Cardinality(Handlers(s)) # 0
    BY <1>1, <1>3, HandlersFinite, FS_EmptySet
  <2>3. Cardinality(Handlers(s) \ {c}) = Cardinality(Handlers(s)) - 1
    BY <1>1, <1>3, HandlersFinite, FS_RemoveElement
  <2> QED
    BY <1>3, <2>1, <2>2, <2>3
<1>5. TypeOK'
  <2>1. wg' \in [Server -> Nat]
    <3>1. wg \in [Server -> Nat] /\ wg[s] - 1 \in Nat
      BY SMTT(60), <1>1, <1>4 DEF IInv, TypeOK
    <3> QED
      BY <1>2, <3>1
  <2>2. sd' \in [Server -> {"off", "idle", "close", "wait", "asleep", "woken", "remove", "exit"}]
    BY <1>2 DEF IInv, TypeOK
  <2> QED
    BY <1>2, <2>1, <2>2 DEF IInv, TypeOK
<1>6. WaitGroupCounts'
  <2>1. \A t \in Server \ {s} : Handlers(t)' = Handlers(t)
    BY <1>2 DEF IInv, TypeOK, Handlers, Served
  <2> SUFFICES ASSUME NEW t \in Server
               PROVE  wg'[t] = Cardinality(Handlers(t)') /\ (sd'[t] = "asleep" => wg'[t] > 0)
    BY DEF WaitGroupCounts
  <2>2. wg[t] = Cardinality(Handlers(t)) /\ (sd[t] = "asleep" => wg[t] > 0)
        /\ wg \in [Server -> Nat]
        /\ sd \in [Server -> {"off", "idle", "close", "wait", "asleep", "woken", "remove", "exit"}]
    BY DEF IInv, TypeOK, WaitGroupCounts
  <2>3. CASE t = s
    BY <1>2, <1>4, <2>2, <2>3
  <2>4. CASE t # s
    BY <1>2, <2>1, <2>2, <2>4
  <2> QED
    BY <2>3, <2>4
<1>7. AtMostOneLost' /\ StartSucceeds' /\ PathOK'
  BY <1>2 DEF IInv, AtMostOneLost, StartSucceeds, Company, PathOK
<1>8. ProcessOK'
  BY <1>2 DEF IInv, TypeOK, ProcessOK
<1>9. AcceptOK'
  <2>1. wg[s] = 1 => Handlers(s)' = {}
    <3>1. IsFiniteSet(Handlers(s)')
      BY <1>1, <1>3, HandlersFinite, FS_RemoveElement
    <3> QED
      BY <1>4, <3>1, FS_EmptySet
  <2>2. \A t \in Server : Accepted(t)' \subseteq Accepted(t)
    BY <1>2 DEF IInv, TypeOK, Accepted, Served
  <2>3. \A d \in Client : conn'[d] = "accepted" => conn[d] = "accepted"
    BY <1>2 DEF IInv, TypeOK
  <2>4. wg[s] = 1 => \A d, e \in Accepted(s)' : d = e
    <3>1. \A d \in Accepted(s)' : wg[s] = 1 => srv[d] = s /\ conn[d] = "accepted" /\ d \in Client
      BY <1>2, <2>1, <2>3 DEF Accepted, Handlers
    <3> QED
      BY <1>1, <3>1 DEF IInv, AcceptOK
  <2>5. \A t \in Server : sd'[t] = sd[t] \/ (t = s /\ wg[s] = 1)
    <3>1. sd \in [Server -> {"off", "idle", "close", "wait", "asleep", "woken", "remove", "exit"}]
      BY DEF IInv, TypeOK
    <3>2. CASE wg[s] = 1 /\ sd[s] = "asleep"
      BY <1>2, <3>1, <3>2
    <3>3. CASE ~(wg[s] = 1 /\ sd[s] = "asleep")
      BY <1>2, <3>3
    <3> QED
      BY <3>2, <3>3
  <2> QED
    BY <1>1, <1>2, <2>2, <2>3, <2>4, <2>5 DEF IInv, AcceptOK
<1>10. ConnOK'
  BY <1>1, <1>2 DEF IInv, TypeOK, ConnOK
<1> QED
  BY <1>5, <1>6, <1>7, <1>8, <1>9, <1>10 DEF IInv

----------------------------------------------------------------------------
\* The invariant

LEMMA InitIInv == Init => IInv
<1> SUFFICES ASSUME Init PROVE IInv
  OBVIOUS
<1>1. TypeOK
  BY ServerAssumption DEF Init, TypeOK
<1>2. WaitGroupCounts
  <2>1. \A s \in Server : Handlers(s) = {}
    BY DEF Init, Handlers, Served
  <2> QED
    BY <2>1, FS_EmptySet DEF Init, WaitGroupCounts
<1>3. AtMostOneLost /\ StartSucceeds /\ ProcessOK /\ ConnOK /\ PathOK
  BY DEF Init, AtMostOneLost, StartSucceeds, ProcessOK, ConnOK, PathOK
<1>4. AcceptOK
  BY DEF Init, AcceptOK, Accepted, Served
<1> QED
  BY <1>1, <1>2, <1>3, <1>4 DEF IInv

LEMMA NextKeeps == IInv /\ [Next]_vars => IInv'
<1> SUFFICES ASSUME IInv, [Next]_vars PROVE IInv'
  OBVIOUS
<1>1. CASE \E s \in Server : Boot(s) \/ StartStep(s) \/ Signal(s)
  BY <1>1, BootKeeps, StatSocketKeeps, RemoveSocketKeeps, ListenKeeps, NotifyKeeps, SignalKeeps
     DEF StartStep
<1>2. CASE \E s \in Server : AcceptLoop(s) \/ AcceptErr(s)
  BY <1>2, AcceptKeeps, AddConnKeeps, AcceptClosedKeeps, SelectQuitKeeps, AcceptErrKeeps
     DEF AcceptLoop
<1>3. CASE \E s \in Server : Shutdown(s)
  BY <1>3, TakeSignalKeeps, CloseListenerKeeps, WaitKeeps, WokenKeeps, RemoveAtExitKeeps, ExitKeeps
     DEF Shutdown
<1>4. CASE \E c \in Client : Dial(c)
  BY <1>4, DialKeeps
<1>5. CASE \E c \in Client : HandlerStep(c)
  <2>1. PICK c \in Client : HandlerStep(c)
    BY <1>5
  <2>2. CASE ReadEnds(c) \/ ReplyFails(c)
    BY <2>2, ReturnKeeps DEF ReadEnds, ReplyFails, Served
  <2> QED
    BY <2>1, <2>2, ReceiveKeeps, HandledKeeps, HandlePanicsKeeps, ReplySentKeeps DEF HandlerStep
<1>6. CASE UNCHANGED vars
  <2>1. UNCHANGED <<sock, st, how, lsn, acc, sd, quit, wg, conn, srv, msgs, lost, starts, sigs>>
    BY <1>6 DEF vars
  <2>2. WaitGroupCounts'
    <3>1. \A t \in Server : Handlers(t)' = Handlers(t)
      BY <2>1 DEF Handlers, Served
    <3> QED
      BY <2>1, <3>1, CountsStay DEF IInv
  <2>3. TypeOK' /\ AtMostOneLost' /\ StartSucceeds'
    BY <2>1 DEF IInv, TypeOK, AtMostOneLost, StartSucceeds, Company
  <2>4. ProcessOK' /\ AcceptOK' /\ ConnOK' /\ PathOK'
    BY <2>1 DEF IInv, ProcessOK, AcceptOK, Accepted, Served, ConnOK, PathOK, Company
  <2> QED
    BY <2>2, <2>3, <2>4 DEF IInv
<1> QED
  BY <1>1, <1>2, <1>3, <1>4, <1>5, <1>6 DEF Next

----------------------------------------------------------------------------
\* Theorems

\* Every reachable state of the servers satisfies the inductive invariant.
THEOREM Invariance == Spec => []IInv
<1> QED
  BY InitIInv, NextKeeps, PTL DEF Spec

\* The WaitGroup counts exactly the handlers that run, for any number of servers and
\* connections, and the shutdown never sleeps without a handler that will wake it
\* (unix.go: wg.Add in acceptConnections, the deferred wg.Done, wg.Wait).
THEOREM WaitGroupIsRight == Spec => []WaitGroupCounts
<1>1. IInv => WaitGroupCounts
  BY DEF IInv
<1> QED
  BY <1>1, Invariance, PTL

\* However many connections there are, a shutdown leaves one of them unfinished at
\* most: Wait returns without it, but the accept loop cannot take another one.
THEOREM LosesOneAtMost == Spec => []AtMostOneLost
<1>1. IInv => AtMostOneLost
  BY DEF IInv
<1> QED
  BY <1>1, Invariance, PTL

\* A server that is the only one on its path always gets the path, also after a
\* crash that left the socket file behind (Start removes it).
THEOREM StartsAgain == Spec => []StartSucceeds
<1>1. IInv => StartSucceeds
  BY DEF IInv
<1> QED
  BY <1>1, Invariance, PTL

LEMMA SockKept ==
  ASSUME IInv, [Next]_vars, NEW s \in Server, lsn[s] = "open", sock = s, sock' # s
  PROVE  \/ sd[s] = "close"
         \/ \E t \in Server \ {s} : st[t] = "remove" \/ sd[t] \in {"close", "remove"}
<1>1. st[s] \in {"notify", "up"} /\ sd[s] # "remove" /\ s # NoServer
  BY ServerAssumption DEF IInv, ProcessOK
<1>2. \/ sock' = sock
      \/ \E t \in Server : RemoveSocket(t) \/ Listen(t) \/ CloseListener(t) \/ RemoveAtExit(t)
  BY DEF Next, StartStep, AcceptLoop, Shutdown, HandlerStep, Boot, StatSocket, Notify, Signal,
         AcceptErr, Accept, AddConn, AcceptClosed, SelectQuit, TakeSignal, Wait, Woken, Exit,
         Dial, Receive, Handled, HandlePanics, ReplySent, ReadEnds, ReplyFails, Return, vars
<1>3. PICK t \in Server : RemoveSocket(t) \/ Listen(t) \/ CloseListener(t) \/ RemoveAtExit(t)
  BY <1>2
<1>4. ~Listen(t)
  BY <1>1 DEF Listen
<1> QED
  BY <1>1, <1>3, <1>4 DEF RemoveSocket, CloseListener, RemoveAtExit

\* The file of a server that listens is removed by its own shutdown or by another
\* server on the same path, and by nobody else: no accept loop and no handler, no
\* failing request takes it away.
THEOREM SocketKept == Spec => SocketTakenByServers
<1>1. IInv /\ [Next]_vars =>
        [\A s \in Server : (lsn[s] = "open" /\ sock = s /\ sock' # s) =>
           \/ sd[s] = "close"
           \/ \E t \in Server \ {s} : st[t] = "remove" \/ sd[t] \in {"close", "remove"}]_vars
  BY SockKept
<1> QED
  BY <1>1, Invariance, PTL DEF Spec, SocketTakenByServers

----------------------------------------------------------------------------
\* What clients are promised: the invariant

\* Whatever ends the process takes its listener and its connections along.
LEMMA EndKeepsLines ==
  ASSUME SInv, NEW s \in Server, NEW why, EndProcess(s, why)
  PROVE  ListenerOK' /\ LinesOK'
<1>1. ListenerOK'
  BY DEF SInv, IInv, TypeOK, ListenerOK, EndProcess
<1>2. LinesOK'
  BY DEF SInv, IInv, TypeOK, ConnOK, LinesOK, Served, EndProcess
<1> QED BY <1>1, <1>2

LEMMA StartKeepsLines ==
  ASSUME SInv, NEW s \in Server, Boot(s) \/ StartStep(s) \/ Signal(s)
  PROVE  ListenerOK' /\ LinesOK'
<1> USE DEF bounds, connVars
<1>1. CASE \E why : EndProcess(s, why)
  BY <1>1, EndKeepsLines
<1>2. CASE Boot(s) \/ StatSocket(s)
  <2>1. ListenerOK'
    BY <1>2 DEF SInv, IInv, TypeOK, ProcessOK, ListenerOK, Boot, StatSocket
  <2>2. LinesOK'
    BY <1>2 DEF SInv, LinesOK, Served, Boot, StatSocket
  <2> QED BY <2>1, <2>2
<1>3. CASE st' = [st EXCEPT ![s] = "listen"] /\ UNCHANGED <<lsn, sd, connVars>> /\ st[s] = "remove"
  <2>1. ListenerOK'
    BY <1>3 DEF SInv, IInv, TypeOK, ProcessOK, ListenerOK
  <2>2. LinesOK'
    BY <1>3 DEF SInv, LinesOK, Served
  <2> QED BY <2>1, <2>2
<1>4. CASE lsn' = [lsn EXCEPT ![s] = "open"] /\ st' = [st EXCEPT ![s] = "notify"] /\ UNCHANGED <<sd, connVars>>
  <2>1. ListenerOK'
    BY <1>4 DEF SInv, IInv, TypeOK, ProcessOK, ListenerOK
  <2>2. LinesOK'
    BY <1>4 DEF SInv, IInv, TypeOK, LinesOK, Served
  <2> QED BY <2>1, <2>2
<1>5. CASE Notify(s)
  <2>1. ListenerOK'
    BY <1>5 DEF SInv, IInv, TypeOK, ProcessOK, ListenerOK, Notify
  <2>2. LinesOK'
    BY <1>5 DEF SInv, LinesOK, Served, Notify
  <2> QED BY <2>1, <2>2
<1>6. CASE UNCHANGED <<st, lsn, sd, connVars>>
  BY <1>6 DEF SInv, ListenerOK, LinesOK, Served
<1> QED BY <1>1, <1>2, <1>3, <1>4, <1>5, <1>6 DEF StartStep, RemoveSocket, Listen, Signal

LEMMA AcceptKeepsLines ==
  ASSUME SInv, NEW s \in Server, AcceptLoop(s) \/ AcceptErr(s)
  PROVE  ListenerOK' /\ LinesOK'
<1> USE DEF bounds, connVars
<1>1. ListenerOK'
  BY DEF SInv, ListenerOK, AcceptLoop, Accept, AddConn, AcceptClosed, SelectQuit, AcceptErr
<1>2. CASE Accept(s) \/ AddConn(s)
  <2>1. LinesOK'
    BY <1>2 DEF SInv, IInv, TypeOK, LinesOK, Served, Accept, AddConn
  <2> QED BY <1>1, <2>1
<1>3. CASE AcceptClosed(s) \/ SelectQuit(s) \/ AcceptErr(s)
  <2>1. LinesOK'
    BY <1>3 DEF SInv, LinesOK, Served, AcceptClosed, SelectQuit, AcceptErr
  <2> QED BY <1>1, <2>1
<1> QED BY <1>2, <1>3 DEF AcceptLoop

LEMMA ShutdownKeepsLines ==
  ASSUME SInv, NEW s \in Server, Shutdown(s)
  PROVE  ListenerOK' /\ LinesOK'
<1> USE DEF bounds, connVars
<1>1. CASE \E why : EndProcess(s, why)
  BY <1>1, EndKeepsLines
<1>2. CASE CloseListener(s)
  <2>1. ListenerOK'
    BY <1>2 DEF SInv, IInv, TypeOK, ProcessOK, ListenerOK, CloseListener
  <2>2. LinesOK'
    BY <1>2 DEF SInv, IInv, TypeOK, LinesOK, Served, CloseListener
  <2> QED BY <2>1, <2>2
<1>3. CASE /\ UNCHANGED <<st, lsn, connVars>> /\ \E x : sd' = [sd EXCEPT ![s] = x]
           /\ sd'[s] \in {"idle", "close"} => sd[s] = "idle"
  <2>1. ListenerOK'
    BY <1>3 DEF SInv, IInv, TypeOK, ListenerOK
  <2>2. LinesOK'
    BY <1>3 DEF SInv, LinesOK, Served
  <2> QED BY <2>1, <2>2
<1>4. TakeSignal(s) \/ Wait(s) \/ RemoveAtExit(s) => UNCHANGED <<st, lsn, connVars>>
  BY DEF TakeSignal, Wait, RemoveAtExit
<1>5. sd \in [Server -> {"off", "idle", "close", "wait", "asleep", "woken", "remove", "exit"}]
  BY DEF SInv, IInv, TypeOK
<1>6. CASE TakeSignal(s) \/ Wait(s) \/ RemoveAtExit(s)
  <2>1. /\ \E x : sd' = [sd EXCEPT ![s] = x]
        /\ sd'[s] \in {"idle", "close"} => sd[s] = "idle"
    BY <1>5, <1>6 DEF TakeSignal, Wait, RemoveAtExit
  <2> QED BY <1>3, <1>4, <1>6, <2>1
<1>7. CASE Woken(s) \/ Exit(s)
  <2>1. CASE sd' = [sd EXCEPT ![s] = "remove"] /\ UNCHANGED <<st, lsn, connVars>>
    BY <1>3, <1>5, <2>1
  <2> QED BY <1>1, <1>7, <2>1 DEF Woken, Exit
<1> QED BY <1>2, <1>6, <1>7 DEF Shutdown

LEMMA HandlersKeepLines ==
  ASSUME SInv, NEW c \in Client, Dial(c) \/ HandlerStep(c)
  PROVE  ListenerOK' /\ LinesOK'
<1> USE DEF bounds, connVars
<1>1. CASE HandlePanics(c)
  <2>1. srv[c] \in Server
    BY <1>1 DEF SInv, IInv, ConnOK, HandlePanics
  <2> QED BY <1>1, <2>1, EndKeepsLines DEF HandlePanics
<1>2. CASE Dial(c)
  <2>1. ListenerOK'
    BY <1>2 DEF SInv, ListenerOK, Dial
  <2>2. LinesOK'
    BY <1>2 DEF SInv, IInv, TypeOK, LinesOK, Served, Dial
  <2> QED BY <2>1, <2>2
<1>3. CASE Receive(c) \/ Handled(c) \/ ReplySent(c)
  <2>1. ListenerOK'
    BY <1>3 DEF SInv, ListenerOK, Receive, Handled, ReplySent
  <2>2. LinesOK'
    BY <1>3 DEF SInv, IInv, TypeOK, LinesOK, Served, Receive, Handled, ReplySent
  <2> QED BY <2>1, <2>2
<1>4. CASE Return(c)
  <2>1. \A s \in Server : sd'[s] \in {"idle", "close"} => sd[s] = sd'[s]
    BY <1>4 DEF SInv, IInv, TypeOK, Return
  <2>2. ListenerOK'
    BY <1>4, <2>1 DEF SInv, ListenerOK, Return
  <2>3. LinesOK'
    BY <1>4 DEF SInv, IInv, TypeOK, LinesOK, Served, Return
  <2> QED BY <2>2, <2>3
<1> QED BY <1>1, <1>2, <1>3, <1>4 DEF HandlerStep, ReadEnds, ReplyFails

\* The strengthened invariant holds throughout.
THEOREM ServiceInvariance == Spec => []SInv
<1>1. Init => SInv
  BY InitIInv DEF Init, SInv, ListenerOK, LinesOK, Served
<1>2. SInv /\ [Next]_vars => SInv'
  <2> SUFFICES ASSUME SInv, [Next]_vars PROVE ListenerOK' /\ LinesOK'
    BY NextKeeps DEF SInv
  <2>1. CASE UNCHANGED vars
    BY <2>1 DEF vars, SInv, ListenerOK, LinesOK, Served
  <2> QED
    BY <2>1, StartKeepsLines, AcceptKeepsLines, ShutdownKeepsLines, HandlersKeepLines DEF Next
<1> QED BY <1>1, <1>2, PTL DEF Spec

----------------------------------------------------------------------------
\* What clients are promised: the steps

LEMMA PhaseIs ==
  ASSUME NEW s \in Server
  PROVE  /\ Phase[s] = IF lsn[s] = "open" THEN "listening"
                       ELSE IF lsn[s] = "closed" THEN "draining" ELSE "off"
         /\ Phase'[s] = IF lsn'[s] = "open" THEN "listening"
                        ELSE IF lsn'[s] = "closed" THEN "draining" ELSE "off"
BY DEF Phase

LEMMA LineIs ==
  ASSUME NEW c \in Client
  PROVE  /\ Line[c] = IF conn[c] = "new" THEN "none"
                      ELSE IF conn[c] = "queued" THEN "waiting"
                      ELSE IF conn[c] \in {"accepted", "read"} THEN "open"
                      ELSE IF conn[c] \in {"busy", "reply"} THEN "asked" ELSE conn[c]
         /\ Line'[c] = IF conn'[c] = "new" THEN "none"
                       ELSE IF conn'[c] = "queued" THEN "waiting"
                       ELSE IF conn'[c] \in {"accepted", "read"} THEN "open"
                       ELSE IF conn'[c] \in {"busy", "reply"} THEN "asked" ELSE conn'[c]
BY DEF Line

LEMMA MapsAreFunctions ==
  /\ Phase = [s \in Server |-> Phase[s]] /\ Phase' = [s \in Server |-> Phase'[s]]
  /\ Line = [c \in Client |-> Line[c]] /\ Line' = [c \in Client |-> Line'[c]]
BY DEF Phase, Line

\* A step of the listener of s is one of its phase.
LEMMA PhaseSteps ==
  ASSUME SInv, NEW s \in Server, NEW l \in {"none", "open", "closed"}, lsn' = [lsn EXCEPT ![s] = l], srv' = srv
  PROVE  Svc!Becomes(s, IF l = "open" THEN "listening" ELSE IF l = "closed" THEN "draining" ELSE "off")
<1> DEFINE p == IF l = "open" THEN "listening" ELSE IF l = "closed" THEN "draining" ELSE "off"
<1>1. lsn'[s] = l /\ \A t \in Server : t # s => lsn'[t] = lsn[t]
  BY DEF SInv, IInv, TypeOK
<1>2. \A t \in Server : Phase'[t] = IF t = s THEN p ELSE Phase[t]
  BY <1>1, PhaseIs
<1> HIDE DEF p
<1>3. Phase' = [Phase EXCEPT ![s] = p]
  BY <1>2, MapsAreFunctions
<1> QED BY <1>3 DEF Svc!Becomes, p

\* A step of one connection
LEMMA LineSteps ==
  ASSUME SInv, NEW c \in Client, NEW x, conn' = [conn EXCEPT ![c] = x], NEW l, Line'[c] = l
  PROVE  Line' = [Line EXCEPT ![c] = l]
<1>1. \A d \in Client : d # c => conn'[d] = conn[d]
  BY DEF SInv, IInv, TypeOK
<1>2. \A d \in Client : Line'[d] = IF d = c THEN l ELSE Line[d]
  BY <1>1, LineIs
<1> QED BY <1>2, MapsAreFunctions

LEMMA Unseen ==
  ASSUME UNCHANGED <<lsn, conn, srv, how>>
  PROVE  UNCHANGED Svc!vars
BY DEF Svc!vars, Phase, Line, Stopped

\* What the exit status of s tells changes with how its process ended.
LEMMA StoppedSteps ==
  ASSUME SInv, NEW s \in Server, NEW why, how' = [how EXCEPT ![s] = why]
  PROVE  Stopped' = [Stopped EXCEPT ![s] = (why = "exit")]
<1>1. \A t \in Server : how'[t] = IF t = s THEN why ELSE how[t]
  BY DEF SInv, IInv, TypeOK
<1>2. \A t \in Server : (how'[t] = "exit") = IF t = s THEN (why = "exit") ELSE Stopped[t]
  BY <1>1 DEF Stopped
<1> QED BY <1>2, Zenon DEF Stopped

\* The end of a process that does not exit is the failure of its server.
LEMMA EndIsFailure ==
  ASSUME SInv, NEW s \in Server, NEW why \in {"failed", "killed", "panic"}, EndProcess(s, why)
  PROVE  Svc!Fail(s)
<1>1. /\ lsn' = [lsn EXCEPT ![s] = "none"] /\ srv' = srv
      /\ \A c \in Client : conn'[c] = IF srv[c] = s /\ conn[c] # "closed" THEN "cut" ELSE conn[c]
  BY DEF EndProcess
<1>2. \A c \in Client : srv[c] = s => conn[c] # "new"
  BY ServerAssumption DEF SInv, LinesOK
<1>3. conn \in [Client -> {"new", "queued", "accepted", "read", "busy", "reply", "closed", "cut"}]
  BY DEF SInv, IInv, TypeOK
<1>4. \A c \in Client : Line'[c] =
        IF srv[c] = s /\ Line[c] \in {"waiting", "open", "asked"} THEN "cut" ELSE Line[c]
  <2> SUFFICES ASSUME NEW c \in Client
               PROVE  Line'[c] = IF srv[c] = s /\ Line[c] \in {"waiting", "open", "asked"}
                                 THEN "cut" ELSE Line[c]
    OBVIOUS
  <2>1. conn[c] \in {"new", "queued", "accepted", "read", "busy", "reply", "closed", "cut"}
    BY <1>3
  <2> QED BY <1>1, <1>2, <2>1, LineIs
<1>5. Svc!Cut(s, {"waiting", "open", "asked"})
  BY <1>4, MapsAreFunctions DEF Svc!Cut
<1>6. Svc!Becomes(s, "off")
  BY <1>1, PhaseSteps
<1>7. Stopped' = [Stopped EXCEPT ![s] = FALSE]
  <2>1. how' = [how EXCEPT ![s] = why] /\ (why = "exit") = FALSE
    BY DEF EndProcess
  <2> QED BY <2>1, StoppedSteps
<1> QED BY <1>5, <1>6, <1>7 DEF Svc!Fail

LEMMA StartIsPromised ==
  ASSUME SInv, NEW s \in Server, Boot(s) \/ StartStep(s) \/ Signal(s)
  PROVE  Svc!Open(s) \/ Svc!Fail(s) \/ UNCHANGED Svc!vars
<1> USE DEF bounds, connVars
<1>1. CASE \E why \in {"failed", "killed", "panic"} : EndProcess(s, why)
  BY <1>1, EndIsFailure
<1>2. CASE UNCHANGED <<lsn, conn, srv, how>>
  BY <1>2, Unseen
<1>3. CASE st[s] = "listen" /\ lsn' = [lsn EXCEPT ![s] = "open"] /\ UNCHANGED <<conn, srv, how>>
  <2>1. lsn[s] = "none"
    BY <1>3 DEF SInv, IInv, TypeOK, ProcessOK, ListenerOK
  <2>2. Phase[s] = "off" /\ Svc!Becomes(s, "listening")
    BY <1>3, <2>1, PhaseIs, PhaseSteps
  <2>3. Line' = Line /\ Stopped' = Stopped
    BY <1>3 DEF Line, Stopped
  <2> QED BY <2>2, <2>3 DEF Svc!Open
<1> QED BY <1>1, <1>2, <1>3 DEF Boot, StartStep, StatSocket, RemoveSocket, Listen, Notify, Signal

LEMMA AcceptIsPromised ==
  ASSUME SInv, NEW s \in Server, AcceptLoop(s) \/ AcceptErr(s)
  PROVE  (\E c \in Client : Svc!Take(c)) \/ UNCHANGED Svc!vars
<1> USE DEF bounds, connVars
<1>1. CASE UNCHANGED <<lsn, conn, srv, how>>
  BY <1>1, Unseen
<1>2. CASE Accept(s)
  <2>1. PICK c \in Client : srv[c] = s /\ conn[c] = "queued" /\ conn' = [conn EXCEPT ![c] = "accepted"]
    BY <1>2 DEF Accept
  <2>2. lsn[s] = "open" /\ UNCHANGED <<lsn, srv, how>>
    BY <1>2 DEF Accept
  <2>3. Line[c] = "waiting" /\ Line'[c] = "open"
    BY <2>1, LineIs DEF SInv, IInv, TypeOK
  <2>4. Line' = [Line EXCEPT ![c] = "open"]
    BY <2>1, <2>3, LineSteps
  <2>5. Phase[srv[c]] = "listening" /\ Phase' = Phase /\ Stopped' = Stopped
    BY <2>1, <2>2 DEF Phase, Stopped
  <2> QED BY <2>2, <2>3, <2>4, <2>5 DEF Svc!Take, Svc!Moves
<1>3. CASE AddConn(s)
  <2>1. PICK c \in Client : srv[c] = s /\ conn[c] = "accepted" /\ conn' = [conn EXCEPT ![c] = "read"]
    BY <1>3 DEF AddConn
  <2>2. UNCHANGED <<lsn, srv, how>>
    BY <1>3 DEF AddConn
  <2>3. Line[c] = "open" /\ Line'[c] = "open"
    BY <2>1, LineIs DEF SInv, IInv, TypeOK
  <2>4. Line' = [Line EXCEPT ![c] = "open"]
    BY <2>1, <2>3, LineSteps
  <2>5. Line' = Line
    BY <2>3, <2>4, MapsAreFunctions
  <2> QED BY <2>2, <2>5 DEF Svc!vars, Phase, Stopped
<1> QED BY <1>1, <1>2, <1>3 DEF AcceptLoop, AcceptClosed, SelectQuit, AcceptErr

\* The shutdown: closing the listener drains the server, and exiting stops it, with one
\* connection left at most.
LEMMA ShutdownIsPromised ==
  ASSUME SInv, NEW s \in Server, Shutdown(s)
  PROVE  Svc!Drain(s) \/ Svc!Stop(s) \/ Svc!Fail(s) \/ UNCHANGED Svc!vars
<1> USE DEF bounds, connVars
<1>1. CASE CloseListener(s)
  <2>1. lsn[s] = "open"
    BY <1>1 DEF SInv, ListenerOK, CloseListener
  <2>2. Phase[s] = "listening" /\ Svc!Becomes(s, "draining")
    BY <1>1, <2>1, PhaseIs, PhaseSteps DEF CloseListener
  <2>3. \A c \in Client : conn'[c] = IF srv[c] = s /\ conn[c] = "queued" THEN "cut" ELSE conn[c]
    BY <1>1 DEF CloseListener
  <2>4. \A c \in Client : conn[c] \in {"new", "queued", "accepted", "read", "busy", "reply", "closed", "cut"}
    BY DEF SInv, IInv, TypeOK
  <2>5. \A c \in Client : Line'[c] = IF srv[c] = s /\ Line[c] \in {"waiting"} THEN "cut" ELSE Line[c]
    BY <2>3, <2>4, LineIs
  <2>6. Svc!Cut(s, {"waiting"})
    BY <2>5, MapsAreFunctions DEF Svc!Cut
  <2>7. Stopped' = Stopped
    BY <1>1 DEF CloseListener, Stopped
  <2> QED BY <2>2, <2>6, <2>7 DEF Svc!Drain
<1>2. CASE Exit(s)
  <2>1. EndProcess(s, "exit") /\ sd[s] = "exit"
    BY <1>2 DEF Exit
  <2>2. lsn[s] = "closed"
    BY <2>1 DEF SInv, IInv, ProcessOK
  <2>3. Phase[s] = "draining" /\ Svc!Becomes(s, "off")
    BY <2>1, <2>2, PhaseIs, PhaseSteps DEF EndProcess
  <2>4. \A c, d \in Svc!Taken(s) : c = d
    <3>1. \A c \in Svc!Taken(s) : c \in Accepted(s)
      BY LineIs DEF SInv, IInv, TypeOK, Svc!Taken, Accepted, Served
    <3> QED BY <2>1, <3>1 DEF SInv, IInv, AcceptOK
  <2>5. Svc!Cut(s, {"open", "asked"})
    <3>1. \A c \in Client : srv[c] = s => conn[c] \notin {"new", "queued"}
      BY <2>2, ServerAssumption DEF SInv, LinesOK
    <3>2. \A c \in Client : conn'[c] = IF srv[c] = s /\ conn[c] # "closed" THEN "cut" ELSE conn[c]
      BY <2>1 DEF EndProcess
    <3>3. \A c \in Client : conn[c] \in {"new", "queued", "accepted", "read", "busy", "reply", "closed", "cut"}
      BY DEF SInv, IInv, TypeOK
    <3>4. \A c \in Client : Line'[c] = IF srv[c] = s /\ Line[c] \in {"open", "asked"} THEN "cut" ELSE Line[c]
      BY <3>1, <3>2, <3>3, LineIs
    <3> QED BY <3>4, MapsAreFunctions DEF Svc!Cut
  <2>6. Stopped' = [Stopped EXCEPT ![s] = TRUE]
    <3>1. how' = [how EXCEPT ![s] = "exit"]
      BY <2>1 DEF EndProcess
    <3> QED BY <3>1, StoppedSteps
  <2> QED BY <2>3, <2>4, <2>5, <2>6 DEF Svc!Stop
<1>3. CASE UNCHANGED <<lsn, conn, srv, how>>
  BY <1>3, Unseen
<1>4. CASE Woken(s)
  BY <1>3, <1>4, EndIsFailure DEF Woken
<1> QED BY <1>1, <1>2, <1>3, <1>4 DEF Shutdown, TakeSignal, Wait, RemoveAtExit

LEMMA HandlerIsPromised ==
  ASSUME SInv, NEW c \in Client, Dial(c) \/ HandlerStep(c)
  PROVE  \/ Svc!Dial(c) \/ Svc!Ask(c) \/ Svc!Answer(c) \/ Svc!Leave(c)
         \/ \E s \in Server : Svc!Fail(s)
         \/ UNCHANGED Svc!vars
<1> USE DEF bounds, connVars
<1>0. ASSUME Served(c) PROVE srv[c] \in Server /\ Phase[srv[c]] # "off"
  <2>1. srv[c] \in Server /\ lsn[srv[c]] # "none"
    BY <1>0 DEF SInv, IInv, ConnOK, LinesOK, Served
  <2> QED BY <2>1, PhaseIs DEF SInv, IInv, TypeOK
<1>1. CASE HandlePanics(c)
  <2>1. srv[c] \in Server /\ EndProcess(srv[c], "panic")
    BY <1>0, <1>1 DEF HandlePanics, Served
  <2> QED BY <2>1, EndIsFailure
<1>2. CASE Dial(c)
  <2>1. /\ conn[c] = "new" /\ sock # NoServer /\ lsn[sock] = "open" /\ lsn' = lsn
        /\ conn' = [conn EXCEPT ![c] = "queued"] /\ srv' = [srv EXCEPT ![c] = sock]
        /\ how' = how
    BY <1>2 DEF Dial
  <2>2. sock \in Server
    BY <2>1 DEF SInv, IInv, TypeOK
  <2>3. Line[c] = "none" /\ Line'[c] = "waiting"
    BY <2>1, LineIs DEF SInv, IInv, TypeOK
  <2>4. Line' = [Line EXCEPT ![c] = "waiting"]
    BY <2>1, <2>3, LineSteps
  <2>5. Phase[sock] = "listening" /\ Phase' = Phase /\ Stopped' = Stopped
    BY <2>1, <2>2 DEF Phase, Stopped
  <2> QED BY <2>1, <2>2, <2>3, <2>4, <2>5 DEF Svc!Dial
<1>3. ASSUME Served(c), NEW x, conn' = [conn EXCEPT ![c] = x], UNCHANGED <<lsn, srv, how>>, NEW l, Line'[c] = l
      PROVE  Svc!Moves(c, l)
  BY <1>3, LineSteps DEF Svc!Moves, Phase, Stopped
<1>4. conn \in [Client -> {"new", "queued", "accepted", "read", "busy", "reply", "closed", "cut"}]
  BY DEF SInv, IInv, TypeOK
<1>5. CASE Receive(c)
  <2>1. conn[c] = "read" /\ conn' = [conn EXCEPT ![c] = "busy"] /\ UNCHANGED <<lsn, srv, how>>
    BY <1>5 DEF Receive
  <2>2. Line[c] = "open" /\ Line'[c] = "asked" /\ Served(c)
    BY <1>4, <2>1, LineIs DEF Served
  <2> QED BY <1>0, <1>3, <2>1, <2>2 DEF Svc!Ask
<1>6. CASE Handled(c)
  <2>1. conn[c] = "busy" /\ conn' = [conn EXCEPT ![c] = "reply"] /\ UNCHANGED <<lsn, srv, how>>
    BY <1>6 DEF Handled
  <2>2. Line[c] = "asked" /\ Line'[c] = "asked"
    BY <1>4, <2>1, LineIs
  <2>3. Line' = [Line EXCEPT ![c] = "asked"]
    BY <2>1, <2>2, LineSteps
  <2>4. Line' = Line
    BY <2>2, <2>3, MapsAreFunctions
  <2> QED BY <2>1, <2>4 DEF Svc!vars, Phase, Stopped
<1>7. CASE ReplySent(c)
  <2>1. conn[c] = "reply" /\ conn' = [conn EXCEPT ![c] = "read"] /\ UNCHANGED <<lsn, srv, how>>
    BY <1>7 DEF ReplySent
  <2>2. Line[c] = "asked" /\ Line'[c] = "open" /\ Served(c)
    BY <1>4, <2>1, LineIs DEF Served
  <2> QED BY <1>0, <1>3, <2>1, <2>2 DEF Svc!Answer
<1>8. CASE Served(c) /\ Return(c)
  <2>1. Served(c) /\ conn' = [conn EXCEPT ![c] = "closed"] /\ UNCHANGED <<lsn, srv, how>>
    BY <1>8 DEF Return
  <2>2. Line[c] \in {"open", "asked"} /\ Line'[c] = "closed"
    BY <1>4, <2>1, LineIs DEF Served
  <2> QED BY <1>0, <1>3, <2>1, <2>2 DEF Svc!Leave
<1> QED BY <1>1, <1>2, <1>5, <1>6, <1>7, <1>8 DEF HandlerStep, ReadEnds, ReplyFails, Served

\* UnixServer implements Service, for any servers, clients and bounds: in every
\* behaviour of UnixServer clients see what Service promises them and nothing else.
THEOREM ImplementsService == Spec => KeepsService
<1>1. ASSUME Init PROVE Svc!Init
  <2>1. Phase = [s \in Server |-> "off"] /\ Line = [c \in Client |-> "none"]
    BY <1>1 DEF Init, Phase, Line
  <2>2. \A s \in Server : (how[s] = "exit") = FALSE
    BY <1>1 DEF Init
  <2>3. Stopped = [s \in Server |-> FALSE]
    BY <2>2 DEF Stopped
  <2> QED BY <1>1, <2>1, <2>3 DEF Init, Svc!Init
<1>2. SInv /\ [Next]_vars => [Svc!Next]_(Svc!vars)
  <2> SUFFICES ASSUME SInv, [Next]_vars PROVE Svc!Next \/ UNCHANGED Svc!vars
    OBVIOUS
  <2>1. CASE UNCHANGED vars
    BY <2>1, Unseen DEF vars
  <2>2. CASE \E s \in Server : Boot(s) \/ StartStep(s) \/ Signal(s)
    BY <2>2, StartIsPromised DEF Svc!Next
  <2>3. CASE \E s \in Server : AcceptLoop(s) \/ AcceptErr(s)
    BY <2>3, AcceptIsPromised DEF Svc!Next
  <2>4. CASE \E s \in Server : Shutdown(s)
    BY <2>4, ShutdownIsPromised DEF Svc!Next
  <2>5. CASE \E c \in Client : Dial(c) \/ HandlerStep(c)
    BY <2>5, HandlerIsPromised DEF Svc!Next
  <2> QED BY <2>1, <2>2, <2>3, <2>4, <2>5 DEF Next
<1> QED BY <1>1, <1>2, ServiceInvariance, PTL DEF Spec, KeepsService, Svc!Spec
=============================================================================
