---------------------------- MODULE UnixServer -----------------------------
(***************************************************************************)
(* The Unix socket server (cmd/unix/unix.go): start, accept loop, one      *)
(* goroutine per connection, and the shutdown that a signal asks for.      *)
(*                                                                         *)
(* Each server is a process of its own: handleShutdown, acceptConnections  *)
(* and the connection handlers are its goroutines and share a WaitGroup    *)
(* and the quit channel.  Servers share the path of the socket: a process  *)
(* that is still draining and the one started in its place.  Requests are  *)
(* handled by HandleAio, which may return, panic or never return.          *)
(***************************************************************************)
EXTENDS Integers, FiniteSets

CONSTANTS
  Server,       \* server processes that use the socket path
  NoServer,     \* no server: no file at the path
  Client,       \* connections that clients open, each once
  Chatty,       \* clients that may go on sending requests for ever
  AcceptFails,  \* whether Accept may fail while the listener is open (EMFILE, ...)
  MaxMsgs,      \* bound: requests of a client that is not chatty
  MaxStarts,    \* bound: starts of each server
  MaxSignals    \* bound: signals sent to a server

ASSUME ServerAssumption ==
  /\ NoServer \notin Server
  /\ IsFiniteSet(Client) /\ Chatty \subseteq Client
  /\ AcceptFails \in BOOLEAN
  /\ MaxMsgs \in Nat /\ MaxSignals \in Nat
  /\ MaxStarts \in [Server -> Nat]

VARIABLES
  sock,     \* the server whose listener the socket file names, NoServer without a file
  st,       \* Server -> where main is
  how,      \* Server -> how its last process ended
  lsn,      \* Server -> its listener
  acc,      \* Server -> where acceptConnections is
  sd,       \* Server -> where handleShutdown is
  quit,     \* Server -> signals in the quit channel
  wg,       \* Server -> counter of the WaitGroup
  conn,     \* Client -> where its connection is
  srv,      \* Client -> the server that its connection is with
  msgs,     \* Client -> requests sent
  lost,     \* Server -> connections it had accepted and left unfinished at os.Exit(0)
  starts,   \* Server -> times started
  sigs      \* Server -> signals sent

vars == <<sock, st, how, lsn, acc, sd, quit, wg, conn, srv, msgs, lost, starts, sigs>>
bounds == <<starts, sigs>>
connVars == <<conn, srv, msgs>>

\* A handler goroutine runs for the connection.
Served(c) == conn[c] \in {"read", "busy", "reply"}
Handlers(s) == {c \in Client : srv[c] = s /\ Served(c)}
\* Connections that server s has accepted and not finished with.
Accepted(s) == {c \in Client : srv[c] = s /\ (Served(c) \/ conn[c] = "accepted")}

Init ==
  /\ sock = NoServer
  /\ st = [s \in Server |-> "down"] /\ how = [s \in Server |-> "none"]
  /\ lsn = [s \in Server |-> "none"]
  /\ acc = [s \in Server |-> "off"] /\ sd = [s \in Server |-> "off"]
  /\ quit = [s \in Server |-> 0] /\ wg = [s \in Server |-> 0]
  /\ conn = [c \in Client |-> "new"] /\ srv = [c \in Client |-> NoServer]
  /\ msgs = [c \in Client |-> 0]
  /\ lost = [s \in Server |-> {}]
  /\ starts = [s \in Server |-> 0] /\ sigs = [s \in Server |-> 0]

\* The process of s ends: its listener and connections go with it, a socket
\* file stays where it is.
EndProcess(s, why) ==
  /\ st' = [st EXCEPT ![s] = "down"] /\ how' = [how EXCEPT ![s] = why]
  /\ lsn' = [lsn EXCEPT ![s] = "none"]
  /\ acc' = [acc EXCEPT ![s] = "off"] /\ sd' = [sd EXCEPT ![s] = "off"]
  /\ quit' = [quit EXCEPT ![s] = 0] /\ wg' = [wg EXCEPT ![s] = 0]
  /\ conn' = [c \in Client |->
       IF srv[c] = s /\ conn[c] # "closed" THEN "cut" ELSE conn[c]]
  /\ lost' = IF why = "exit" THEN [lost EXCEPT ![s] = Accepted(s)] ELSE lost
  /\ UNCHANGED <<srv, msgs>>

----------------------------------------------------------------------------
\* Start

Boot(s) ==
  /\ st[s] = "down" /\ starts[s] < MaxStarts[s]
  /\ starts' = [starts EXCEPT ![s] = @ + 1]
  /\ st' = [st EXCEPT ![s] = "stat"]
  /\ lost' = [lost EXCEPT ![s] = {}]
  /\ UNCHANGED <<sock, how, lsn, acc, sd, quit, wg, connVars, sigs>>

\* Mutant of StatSocket: a file that is there is left there.
StatSocketSkips(s) ==
  /\ st[s] = "stat"
  /\ st' = [st EXCEPT ![s] = "listen"]
  /\ UNCHANGED <<sock, how, lsn, acc, sd, quit, wg, connVars, lost, bounds>>

StatSocket(s) ==
  /\ st[s] = "stat"
  /\ st' = [st EXCEPT ![s] = IF sock = NoServer THEN "listen" ELSE "remove"]
  /\ UNCHANGED <<sock, how, lsn, acc, sd, quit, wg, connVars, lost, bounds>>

\* os.Remove takes whatever file is there, and fails when it is gone.
RemoveSocket(s) ==
  /\ st[s] = "remove"
  /\ IF sock = NoServer
     THEN EndProcess(s, "failed") /\ sock' = sock
     ELSE /\ sock' = NoServer /\ st' = [st EXCEPT ![s] = "listen"]
          /\ UNCHANGED <<how, lsn, acc, sd, quit, wg, connVars, lost>>
  /\ UNCHANGED bounds

\* net.Listen creates the file and fails when there is one.
Listen(s) ==
  /\ st[s] = "listen"
  /\ IF sock # NoServer
     THEN EndProcess(s, "failed") /\ sock' = sock
     ELSE /\ sock' = s /\ lsn' = [lsn EXCEPT ![s] = "open"]
          /\ st' = [st EXCEPT ![s] = "notify"]
          /\ UNCHANGED <<how, acc, sd, quit, wg, connVars, lost>>
  /\ UNCHANGED bounds

\* Mutant of Notify: nobody waits for the signal.
NotifyOnly(s) ==
  /\ st[s] = "notify"
  /\ st' = [st EXCEPT ![s] = "up"]
  /\ acc' = [acc EXCEPT ![s] = "accept"]
  /\ UNCHANGED <<sock, how, lsn, sd, quit, wg, connVars, lost, bounds>>

\* signal.Notify, go s.handleShutdown(), go s.acceptConnections()
Notify(s) ==
  /\ st[s] = "notify"
  /\ st' = [st EXCEPT ![s] = "up"]
  /\ acc' = [acc EXCEPT ![s] = "accept"] /\ sd' = [sd EXCEPT ![s] = "idle"]
  /\ UNCHANGED <<sock, how, lsn, quit, wg, connVars, lost, bounds>>

\* SIGINT or SIGTERM: before Notify it ends the process, afterwards it goes into
\* the quit channel, which drops it when full.
Signal(s) ==
  /\ st[s] # "down" /\ sigs[s] < MaxSignals
  /\ sigs' = [sigs EXCEPT ![s] = @ + 1]
  /\ IF st[s] = "up"
     THEN /\ quit' = [quit EXCEPT ![s] = 1]
          /\ UNCHANGED <<st, how, lsn, acc, sd, wg, connVars, lost>>
     ELSE EndProcess(s, "killed")
  /\ UNCHANGED <<sock, starts>>

----------------------------------------------------------------------------
\* acceptConnections

Accept(s) ==
  /\ acc[s] = "accept" /\ lsn[s] = "open"
  /\ \E c \in Client :
       /\ srv[c] = s /\ conn[c] = "queued"
       /\ conn' = [conn EXCEPT ![c] = "accepted"]
  /\ acc' = [acc EXCEPT ![s] = "add"]
  /\ UNCHANGED <<sock, st, how, lsn, sd, quit, wg, srv, msgs, lost, bounds>>

\* s.wg.Add(1), go s.handleConnection(conn)
AddConn(s) ==
  /\ acc[s] = "add"
  /\ \E c \in Client :
       /\ srv[c] = s /\ conn[c] = "accepted"
       /\ conn' = [conn EXCEPT ![c] = "read"]
  /\ wg' = [wg EXCEPT ![s] = @ + 1]
  /\ acc' = [acc EXCEPT ![s] = "accept"]
  /\ UNCHANGED <<sock, st, how, lsn, sd, quit, srv, msgs, lost, bounds>>

\* net.ErrClosed
AcceptClosed(s) ==
  /\ acc[s] = "accept" /\ lsn[s] = "closed"
  /\ acc' = [acc EXCEPT ![s] = "done"]
  /\ UNCHANGED <<sock, st, how, lsn, sd, quit, wg, connVars, lost, bounds>>

\* Any other error of Accept.
AcceptErr(s) ==
  /\ AcceptFails
  /\ acc[s] = "accept" /\ lsn[s] = "open"
  /\ acc' = [acc EXCEPT ![s] = "select"]
  /\ UNCHANGED <<sock, st, how, lsn, sd, quit, wg, connVars, lost, bounds>>

\* Mutant of SelectQuit: giving up removes the socket.
SelectQuitRemoves(s) ==
  /\ acc[s] = "select"
  /\ acc' = [acc EXCEPT ![s] = IF quit[s] = 1 THEN "done" ELSE "accept"]
  /\ quit' = [quit EXCEPT ![s] = 0]
  /\ sock' = IF quit[s] = 1 THEN NoServer ELSE sock
  /\ UNCHANGED <<st, how, lsn, sd, wg, connVars, lost, bounds>>

\* select { case <-s.quit: return  default: continue }
SelectQuit(s) ==
  /\ acc[s] = "select"
  /\ acc' = [acc EXCEPT ![s] = IF quit[s] = 1 THEN "done" ELSE "accept"]
  /\ quit' = [quit EXCEPT ![s] = 0]
  /\ UNCHANGED <<sock, st, how, lsn, sd, wg, connVars, lost, bounds>>

AcceptLoop(s) == Accept(s) \/ AddConn(s) \/ AcceptClosed(s) \/ SelectQuit(s)

----------------------------------------------------------------------------
\* handleConnection

\* A client connects: its connection waits in the backlog of the listener.
Dial(c) ==
  /\ conn[c] = "new"
  /\ sock # NoServer /\ lsn[sock] = "open"
  /\ conn' = [conn EXCEPT ![c] = "queued"] /\ srv' = [srv EXCEPT ![c] = sock]
  /\ UNCHANGED <<sock, st, how, lsn, acc, sd, quit, wg, msgs, lost, bounds>>

\* A whole request arrived within the deadline and was decoded.
Receive(c) ==
  /\ conn[c] = "read"
  /\ c \in Chatty \/ msgs[c] < MaxMsgs
  /\ conn' = [conn EXCEPT ![c] = "busy"]
  /\ msgs' = IF c \in Chatty THEN msgs ELSE [msgs EXCEPT ![c] = @ + 1]
  /\ UNCHANGED <<sock, st, how, lsn, acc, sd, quit, wg, srv, lost, bounds>>

\* HandleAio returns and its reply is encoded.
Handled(c) ==
  /\ conn[c] = "busy"
  /\ conn' = [conn EXCEPT ![c] = "reply"]
  /\ UNCHANGED <<sock, st, how, lsn, acc, sd, quit, wg, srv, msgs, lost, bounds>>

\* HandleAio panics: nothing recovers, the process ends.
HandlePanics(c) ==
  /\ conn[c] = "busy"
  /\ EndProcess(srv[c], "panic")
  /\ UNCHANGED <<sock, bounds>>

ReplySent(c) ==
  /\ conn[c] = "reply"
  /\ conn' = [conn EXCEPT ![c] = "read"]
  /\ UNCHANGED <<sock, st, how, lsn, acc, sd, quit, wg, srv, msgs, lost, bounds>>

\* Mutant of Return: the goroutine ends without wg.Done.
ReturnUncounted(c) ==
  /\ conn' = [conn EXCEPT ![c] = "closed"]
  /\ UNCHANGED <<wg, sd>>
  /\ UNCHANGED <<sock, st, how, lsn, acc, quit, srv, msgs, lost, bounds>>

\* Mutant of Return: an explicit Done on top of the deferred one.
ReturnTwice(c) ==
  /\ conn' = [conn EXCEPT ![c] = "closed"]
  /\ wg' = [wg EXCEPT ![srv[c]] = @ - 2]
  /\ UNCHANGED sd
  /\ UNCHANGED <<sock, st, how, lsn, acc, quit, srv, msgs, lost, bounds>>

\* The deferred conn.Close and wg.Done; the last Done wakes the Wait.
Return(c) ==
  /\ conn' = [conn EXCEPT ![c] = "closed"]
  /\ wg' = [wg EXCEPT ![srv[c]] = @ - 1]
  /\ sd' = IF wg[srv[c]] = 1 /\ sd[srv[c]] = "asleep"
           THEN [sd EXCEPT ![srv[c]] = "woken"] ELSE sd
  /\ UNCHANGED <<sock, st, how, lsn, acc, quit, srv, msgs, lost, bounds>>

\* Deadline, end of file, an empty or undecodable request.
ReadEnds(c) == conn[c] = "read" /\ Return(c)

\* The reply cannot be encoded or written.
ReplyFails(c) == conn[c] \in {"busy", "reply"} /\ Return(c)

----------------------------------------------------------------------------
\* handleShutdown

\* <-s.quit
TakeSignal(s) ==
  /\ sd[s] = "idle" /\ quit[s] = 1
  /\ quit' = [quit EXCEPT ![s] = 0]
  /\ sd' = [sd EXCEPT ![s] = "close"]
  /\ UNCHANGED <<sock, st, how, lsn, acc, wg, connVars, lost, bounds>>

\* listener.Close removes the file at the path, whoever made it, and drops the
\* connections that nobody accepted.
CloseListener(s) ==
  /\ sd[s] = "close"
  /\ lsn' = [lsn EXCEPT ![s] = "closed"]
  /\ sock' = NoServer
  /\ conn' = [c \in Client |->
       IF srv[c] = s /\ conn[c] = "queued" THEN "cut" ELSE conn[c]]
  /\ sd' = [sd EXCEPT ![s] = "wait"]
  /\ UNCHANGED <<st, how, acc, quit, wg, srv, msgs, lost, bounds>>

\* Mutant of Wait: it does not wait.
WaitNot(s) ==
  /\ sd[s] = "wait"
  /\ sd' = [sd EXCEPT ![s] = "remove"]
  /\ UNCHANGED <<sock, st, how, lsn, acc, quit, wg, connVars, lost, bounds>>

\* s.wg.Wait: returns at once or sleeps until the last Done
Wait(s) ==
  /\ sd[s] = "wait"
  /\ sd' = [sd EXCEPT ![s] = IF wg[s] = 0 THEN "remove" ELSE "asleep"]
  /\ UNCHANGED <<sock, st, how, lsn, acc, quit, wg, connVars, lost, bounds>>

\* Wait wakes up; it panics when an Add came in between.
Woken(s) ==
  /\ sd[s] = "woken"
  /\ IF wg[s] = 0
     THEN /\ sd' = [sd EXCEPT ![s] = "remove"]
          /\ UNCHANGED <<st, how, lsn, acc, quit, wg, connVars, lost>>
     ELSE EndProcess(s, "panic")
  /\ UNCHANGED <<sock, bounds>>

\* os.Remove
RemoveAtExit(s) ==
  /\ sd[s] = "remove"
  /\ sock' = NoServer
  /\ sd' = [sd EXCEPT ![s] = "exit"]
  /\ UNCHANGED <<st, how, lsn, acc, quit, wg, connVars, lost, bounds>>

\* os.Exit(0)
Exit(s) ==
  /\ sd[s] = "exit"
  /\ EndProcess(s, "exit")
  /\ UNCHANGED <<sock, bounds>>

Shutdown(s) ==
  TakeSignal(s) \/ CloseListener(s) \/ Wait(s) \/ Woken(s) \/ RemoveAtExit(s) \/ Exit(s)

----------------------------------------------------------------------------
StartStep(s) == StatSocket(s) \/ RemoveSocket(s) \/ Listen(s) \/ Notify(s)

HandlerStep(c) ==
  Receive(c) \/ Handled(c) \/ HandlePanics(c) \/ ReplySent(c) \/ ReadEnds(c) \/ ReplyFails(c)

Next ==
  \/ \E s \in Server :
       \/ Boot(s) \/ StartStep(s) \/ Signal(s)
       \/ AcceptLoop(s) \/ AcceptErr(s)
       \/ Shutdown(s)
  \/ \E c \in Client : Dial(c) \/ HandlerStep(c)

Spec == Init /\ [][Next]_vars

\* Fairness: goroutines go on running and read deadlines expire.  HandleAio need
\* not return, a reply without a write deadline may block for ever, and a chatty
\* client may always send again.
FairSpec ==
  /\ Spec
  /\ \A s \in Server : WF_vars(StartStep(s)) /\ WF_vars(AcceptLoop(s)) /\ WF_vars(Shutdown(s))
  /\ \A c \in Client : WF_vars(ReadEnds(c))

----------------------------------------------------------------------------
\* Properties

\* Every variable holds a value of its type.
TypeOK ==
  /\ sock \in Server \cup {NoServer}
  /\ st \in [Server -> {"down", "stat", "remove", "listen", "notify", "up"}]
  /\ how \in [Server -> {"none", "failed", "killed", "panic", "exit"}]
  /\ lsn \in [Server -> {"none", "open", "closed"}]
  /\ acc \in [Server -> {"off", "accept", "add", "select", "done"}]
  /\ sd \in [Server -> {"off", "idle", "close", "wait", "asleep", "woken", "remove", "exit"}]
  /\ quit \in [Server -> 0 .. 1]
  /\ wg \in [Server -> Nat]
  /\ conn \in [Client -> {"new", "queued", "accepted", "read", "busy", "reply", "closed", "cut"}]
  /\ srv \in [Client -> Server \cup {NoServer}]
  /\ msgs \in [Client -> 0 .. MaxMsgs]
  /\ lost \in [Server -> SUBSET Client]
  /\ starts \in [Server -> Nat] /\ \A s \in Server : starts[s] <= MaxStarts[s]
  /\ sigs \in [Server -> 0 .. MaxSignals]

\* The WaitGroup counts the handlers that run, also while Accept and Wait race:
\* the shutdown sleeps only when some handler will wake it.
WaitGroupCounts ==
  \A s \in Server :
    /\ wg[s] = Cardinality(Handlers(s))
    /\ sd[s] = "asleep" => wg[s] > 0

\* A shutdown leaves at most one connection unfinished: the one that the accept
\* loop held, or handed to a handler, while Wait returned.
AtMostOneLost == \A s \in Server : \A c, d \in lost[s] : c = d

\* The file of a server that listens is taken away only by another server that
\* starts or shuts down on the same path, or by its own shutdown.
SocketTakenByServers ==
  [][\A s \in Server : (lsn[s] = "open" /\ sock = s /\ sock' # s) =>
       \/ sd[s] = "close"
       \/ \E t \in Server \ {s} : st[t] = "remove" \/ sd[t] \in {"close", "remove"}]_vars

\* Only another server on the same path keeps one from starting: the file that
\* its own crash left does not.
StartSucceeds ==
  \A s \in Server : how[s] = "failed" => \E t \in Server \ {s} : starts[t] > 0

----------------------------------------------------------------------------
\* The inductive invariant behind the theorems of UnixServerProofs

\* Goroutines run in a process that is up, and the shutdown waits behind a closed
\* listener.
ProcessOK ==
  \A s \in Server :
    /\ st[s] # "up" => acc[s] = "off" /\ sd[s] = "off"
    /\ lsn[s] = "open" => st[s] \in {"notify", "up"}
    /\ st[s] # "down" => starts[s] > 0
    /\ sd[s] \in {"wait", "asleep", "woken", "remove", "exit"} => lsn[s] = "closed"

\* The accept loop holds one connection at a time, and once Wait was done nothing
\* else is left.
AcceptOK ==
  \A s \in Server :
    /\ acc[s] # "add" => \A c \in Client : srv[c] = s => conn[c] # "accepted"
    /\ \A c, d \in Client :
         srv[c] = s /\ srv[d] = s /\ conn[c] = "accepted" /\ conn[d] = "accepted" => c = d
    /\ sd[s] \in {"woken", "remove", "exit"} => \A c, d \in Accepted(s) : c = d

\* A connection is with a server once its client has dialled.
ConnOK == \A c \in Client : conn[c] # "new" => srv[c] \in Server

\* Another server that uses the path has been started.
Company(s) == \E t \in Server \ {s} : starts[t] > 0

\* A server that starts alone finds the path as it left it.
PathOK ==
  \A s \in Server :
    /\ st[s] = "remove" => sock # NoServer \/ Company(s)
    /\ st[s] = "listen" => sock = NoServer \/ Company(s)

IInv ==
  /\ TypeOK /\ WaitGroupCounts /\ AtMostOneLost /\ StartSucceeds
  /\ ProcessOK /\ AcceptOK /\ ConnOK /\ PathOK

----------------------------------------------------------------------------
\* What clients are promised

Phase ==
  [s \in Server |-> IF lsn[s] = "open" THEN "listening"
                    ELSE IF lsn[s] = "closed" THEN "draining" ELSE "off"]

\* A request is in work until its reply is sent; a connection just accepted is taken.
Line ==
  [c \in Client |-> IF conn[c] = "new" THEN "none"
                    ELSE IF conn[c] = "queued" THEN "waiting"
                    ELSE IF conn[c] \in {"accepted", "read"} THEN "open"
                    ELSE IF conn[c] \in {"busy", "reply"} THEN "asked" ELSE conn[c]]

\* os.Exit(0), as its exit status tells
Stopped == [s \in Server |-> how[s] = "exit"]

Svc == INSTANCE Service WITH phase <- Phase, stopped <- Stopped, with <- srv, line <- Line

\* Every step of the servers is one that their clients are promised or one that these do
\* not see: no connection outlives its process or changes servers, a draining server
\* takes none, and it exits only when all that it took have ended, but for one at most.
KeepsService == Svc!Spec

\* The strengthening behind it: the listener is there from Listen until the signal is
\* taken, and closed only in a process that is up.
ListenerOK ==
  \A s \in Server :
    /\ lsn[s] = "closed" => st[s] = "up"
    /\ (st[s] = "notify" \/ sd[s] \in {"idle", "close"}) => lsn[s] = "open"

\* A connection that goes on has a server that goes on, one in the backlog a listener.
LinesOK ==
  \A c \in Client :
    /\ conn[c] = "new" => srv[c] = NoServer
    /\ conn[c] = "queued" => lsn[srv[c]] = "open"
    /\ conn[c] = "accepted" \/ Served(c) => lsn[srv[c]] # "none"

SInv == IInv /\ ListenerOK /\ LinesOK

----------------------------------------------------------------------------
\* Liveness

\* A signal that reaches the process starts the shutdown, unless the accept loop
\* takes it out of the quit channel after an error of Accept.
SignalStartsShutdown ==
  \A s \in Server : (quit[s] = 1) ~>
    (sd[s] \notin {"off", "idle"} \/ st[s] = "down" \/ acc[s] = "done")

\* A shutdown comes to its end, unless a connection is served for ever: its
\* request never returns or its client never stops.
ShutdownEnds ==
  \A s \in Server :
    ((sd[s] = "close") ~> (st[s] = "down")) \/ <>[](\E c \in Client : srv[c] = s /\ Served(c))
=============================================================================
