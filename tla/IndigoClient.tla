---------------------------- MODULE IndigoClient ----------------------------
(***************************************************************************)
(* The connection lifecycle of infrastructure/adapters/indigo_client.py:   *)
(* connect(), _establish_connection(), _read_loop(), _reconnect_loop() and *)
(* disconnect(), as the coroutines of one asyncio event loop over TCP      *)
(* connections that a failing network may kill at any moment.              *)
(*                                                                         *)
(* The duty to keep the client connected passes from coroutine to          *)
(* coroutine: a reconnect loop that succeeds creates a read loop and       *)
(* returns, a read loop that loses its connection creates a reconnect loop *)
(* and returns.  A member of Tasks is one such chain: pc says which        *)
(* coroutine of the chain is running and where it is suspended.  Only a    *)
(* coroutine that creates a successor and goes on itself (a handshake that *)
(* fails, line 379) needs a second member.                                 *)
(*                                                                         *)
(* Between two awaits a coroutine runs alone; each action is such a run.   *)
(* The bytes on a connection are abstracted to the connection they came    *)
(* from.  Two read loops on one connection are modelled by what asyncio's  *)
(* StreamReader does when a second coroutine waits in read(): it raises.   *)
(***************************************************************************)
EXTENDS Naturals, FiniteSets

CONSTANTS
  Tasks,        \* chains of coroutines
  NoTask,       \* a task attribute that is None, or whose task is done
  Conns,        \* TCP connections; one that nobody refers to is reused
  NoConn,       \* no connection
  MaxFailures   \* bound on the handshakes that fail (line 379)

ASSUME NoTaskAssumption == NoTask \notin Tasks
ASSUME NoConnAssumption == NoConn \notin Conns
ASSUME MaxFailuresAssumption == MaxFailures \in Nat

VARIABLES
  pc,             \* where each chain is suspended
  on,             \* the connection each chain opened or reads
  alive,          \* the connections both ends still hold
  network,        \* can the INDIGO server be reached?
  stream,         \* _reader and _writer
  connected,      \* _connected
  enabled,        \* _reconnect_enabled
  reconnectTask,  \* _reconnect_task
  readTask,       \* _read_task
  caller,         \* the chain that is still inside connect()
  stage,          \* how far connect() and disconnect() have got
  sources,        \* connections whose bytes _xml_buffer and the cache hold
  failures        \* handshakes that have failed so far

env       == <<alive, network>>
flags     == <<connected, enabled>>
handles   == <<reconnectTask, readTask, caller>>
vars      == <<pc, on, env, stream, flags, handles, stage, sources, failures>>

-----------------------------------------------------------------------------
(* Where a chain may be suspended. *)
Dialling == {"sleeping", "dialing", "opened", "draining"}
Reading  == {"ready", "waiting", "dispatching"}
Stages   == {"new", "running", "cancelling", "closing", "closed"}

TypeOK ==
  /\ pc \in [Tasks -> Dialling \cup Reading \cup {"idle"}]
  /\ on \in [Tasks -> Conns \cup {NoConn}]
  /\ alive \subseteq Conns
  /\ network \in BOOLEAN
  /\ stream \in Conns \cup {NoConn}
  /\ connected \in BOOLEAN
  /\ enabled \in BOOLEAN
  /\ {reconnectTask, readTask, caller} \subseteq Tasks \cup {NoTask}
  /\ stage \in Stages
  /\ sources \subseteq Conns
  /\ failures \in 0 .. MaxFailures

Init ==
  /\ pc = [t \in Tasks |-> "idle"]
  /\ on = [t \in Tasks |-> NoConn]
  /\ alive = {}
  /\ network \in BOOLEAN
  /\ stream = NoConn
  /\ connected = FALSE
  /\ enabled = TRUE
  /\ reconnectTask = NoTask
  /\ readTask = NoTask
  /\ caller = NoTask
  /\ stage = "new"
  /\ sources = {}
  /\ failures = 0

Owners == {t \in Tasks : pc[t] # "idle"}

(* A task attribute once the task t is done. *)
Without(handle, t) == IF handle = t THEN NoTask ELSE handle

(* Connections nobody refers to: a writer that was replaced without being  *)
(* closed is closed when it is collected.                                  *)
FreshConns == {c \in Conns \ {stream} : \A t \in Tasks : on[t] # c}

(* The event loop runs the tasks that are ready before it looks at timers  *)
(* and sockets again.                                                      *)
NoneReady == \A t \in Tasks : pc[t] # "ready"

-----------------------------------------------------------------------------
(* The network and the server at the other end. *)

NetworkChanges ==
  /\ network' = ~network
  /\ UNCHANGED <<pc, on, alive, stream, flags, handles, stage, sources, failures>>

(* While the network is down a connection may die.  MaxFailures bounds how *)
(* often one dies between the accept and the handshake.                    *)
ConnectionDies(c) ==
  /\ ~network
  /\ c \in alive
  /\ (\E t \in Tasks : pc[t] = "opened" /\ on[t] = c) => failures < MaxFailures
  /\ alive' = alive \ {c}
  /\ UNCHANGED <<pc, on, network, stream, flags, handles, stage, sources, failures>>

-----------------------------------------------------------------------------
(* Establishing a connection. *)

(* The lifespan of main.py calls connect() once, before anything else.     *)
Connect(t) ==
  /\ stage = "new"
  /\ stage' = "running"
  /\ caller' = t
  /\ pc' = [pc EXCEPT ![t] = "dialing"]
  /\ UNCHANGED <<on, env, stream, flags, reconnectTask, readTask, sources, failures>>

(* The backoff sleep is over.  Nothing re-reads _reconnect_enabled here.   *)
WakeUp(t) ==
  /\ pc[t] = "sleeping"
  /\ NoneReady
  /\ pc' = [pc EXCEPT ![t] = "dialing"]
  /\ UNCHANGED <<on, env, stream, flags, handles, stage, sources, failures>>

(* open_connection: the server accepts.  The coroutine resumes later.      *)
Accepted(t) ==
  /\ pc[t] = "dialing"
  /\ network
  /\ NoneReady
  /\ \E c \in FreshConns :
       /\ alive' = alive \cup {c}
       /\ on' = [on EXCEPT ![t] = c]
  /\ pc' = [pc EXCEPT ![t] = "opened"]
  /\ UNCHANGED <<network, stream, flags, handles, stage, sources, failures>>

\* Mutant of AfterFailure: connect() only re-raises.
AfterFailureOnlyRaises(t, task, next) ==
  IF t # caller /\ enabled
    THEN next = "sleeping" /\ reconnectTask' = task
    ELSE next = "idle" /\ reconnectTask' = Without(task, t)

\* Mutant of AfterFailure: a reconnect loop tries only once.
AfterFailureTriedOnce(t, task, next) ==
  IF t = caller /\ enabled /\ task = NoTask
    THEN next = "sleeping" /\ reconnectTask' = t
    ELSE next = "idle" /\ reconnectTask' = Without(task, t)

(* _establish_connection raised in the chain t: a reconnect loop goes on   *)
(* while it is enabled; connect() leaves a reconnect loop behind unless    *)
(* there already is one, and raises.  task is _reconnect_task, and next is *)
(* where the chain goes on.                                                *)
AfterFailure(t, task, next) ==
  IF t = caller
    THEN IF enabled /\ task = NoTask
           THEN next = "sleeping" /\ reconnectTask' = t
           ELSE next = "idle" /\ reconnectTask' = task
    ELSE IF enabled
           THEN next = "sleeping" /\ reconnectTask' = task
           ELSE next = "idle" /\ reconnectTask' = Without(task, t)

(* open_connection raises: nothing has been created yet.                   *)
Refused(t) ==
  /\ pc[t] = "dialing"
  /\ ~network
  /\ \E next \in {"sleeping", "idle"} :
       /\ AfterFailure(t, reconnectTask, next)
       /\ pc' = [pc EXCEPT ![t] = next]
  /\ caller' = Without(caller, t)
  /\ UNCHANGED <<on, env, stream, flags, readTask, stage, sources, failures>>

\* Mutant of Adopt: the buffer and the cache are not cleared.
AdoptWithoutClear(c, reader) ==
  /\ stream' = c
  /\ connected' = TRUE
  /\ readTask' = reader
  /\ UNCHANGED <<enabled, stage, env, sources>>

(* What _establish_connection assigns for the connection c and its new     *)
(* read task before it sends the handshake.                                *)
Adopt(c, reader) ==
  /\ stream' = c
  /\ connected' = TRUE
  /\ sources' = {}
  /\ readTask' = reader
  /\ UNCHANGED <<enabled, stage, env>>

\* Mutant of Established: the reconnect loop does not return (line 623).
EstablishedKeepsDialling(t) ==
  /\ pc[t] = "opened"
  /\ on[t] \in alive
  /\ \E r \in (Tasks \ Owners) \cup {t} :
       /\ Adopt(on[t], r)
       /\ IF t = caller
            THEN r = t /\ pc' = [pc EXCEPT ![t] = "ready"]
            ELSE r # t /\ pc' = [pc EXCEPT ![t] = "sleeping", ![r] = "ready"]
  /\ on' = [on EXCEPT ![t] = NoConn]
  /\ caller' = Without(caller, t)
  /\ UNCHANGED <<reconnectTask, failures>>

(* The handshake is sent: the dialling coroutine returns, and the chain    *)
(* goes on as the read task it created.                                    *)
Established(t) ==
  /\ pc[t] = "opened"
  /\ on[t] \in alive
  /\ Adopt(on[t], t)
  /\ pc' = [pc EXCEPT ![t] = "ready"]
  /\ on' = [on EXCEPT ![t] = NoConn]
  /\ reconnectTask' = Without(reconnectTask, t)
  /\ caller' = Without(caller, t)
  /\ UNCHANGED failures

(* The connection is already dead: the read task r exists and the          *)
(* handshake fails.  drain() raises at once when the transport reports an  *)
(* error, and after a turn of the event loop when it is only closing.      *)
HandshakeFails(t) ==
  /\ pc[t] = "opened"
  /\ on[t] \notin alive
  /\ failures < MaxFailures
  /\ failures' = failures + 1
  /\ \E r \in Tasks \ Owners :
       /\ Adopt(on[t], r)
       /\ \/ /\ pc' = [pc EXCEPT ![t] = "draining", ![r] = "ready"]
             /\ UNCHANGED <<reconnectTask, caller>>
          \/ /\ \E next \in {"sleeping", "idle"} :
                  /\ AfterFailure(t, reconnectTask, next)
                  /\ pc' = [pc EXCEPT ![t] = next, ![r] = "ready"]
             /\ caller' = Without(caller, t)
  /\ on' = [on EXCEPT ![t] = NoConn]

(* The turn is over; the read task created before it has run first.        *)
DrainRaises(t) ==
  /\ pc[t] = "draining"
  /\ NoneReady
  /\ \E next \in {"sleeping", "idle"} :
       /\ AfterFailure(t, reconnectTask, next)
       /\ pc' = [pc EXCEPT ![t] = next]
  /\ caller' = Without(caller, t)
  /\ UNCHANGED <<on, env, stream, flags, readTask, stage, sources, failures>>

-----------------------------------------------------------------------------
(* The read loop. *)

\* Mutant of Lost: _connected stays true (line 429).
LostSilently(t) ==
  /\ pc' = [pc EXCEPT ![t] = IF enabled THEN "sleeping" ELSE "idle"]
  /\ on' = [on EXCEPT ![t] = NoConn]
  /\ reconnectTask' = IF enabled THEN t ELSE reconnectTask
  /\ readTask' = Without(readTask, t)
  /\ UNCHANGED <<env, stream, flags, caller, stage, sources, failures>>

(* Its finally clause: the chain goes on as a new reconnect loop, whatever *)
(* _reconnect_task was.                                                    *)
Lost(t) ==
  /\ connected' = FALSE
  /\ pc' = [pc EXCEPT ![t] = IF enabled THEN "sleeping" ELSE "idle"]
  /\ on' = [on EXCEPT ![t] = NoConn]
  /\ reconnectTask' = IF enabled THEN t ELSE reconnectTask
  /\ readTask' = Without(readTask, t)
  /\ UNCHANGED <<env, stream, enabled, caller, stage, sources, failures>>

(* _reader.read() on the connection the client holds now, which need not   *)
(* be the one the loop read before, waits unless it raises or returns b"". *)
ReadWaits(t) ==
  /\ stream \in alive
  /\ \A r \in Tasks \ {t} : ~(pc[r] = "waiting" /\ on[r] = stream)

(* The first step of a read task, or the next round after its callbacks.   *)
ReadOn(t) ==
  /\ pc[t] \in {"ready", "dispatching"}
  /\ ReadWaits(t)
  /\ pc' = [pc EXCEPT ![t] = "waiting"]
  /\ on' = [on EXCEPT ![t] = stream]
  /\ UNCHANGED <<env, stream, flags, handles, stage, sources, failures>>

(* read() raises or returns b"".                                           *)
ReadFails(t) ==
  /\ \/ pc[t] = "ready" /\ stream # NoConn /\ ~ReadWaits(t)
     \/ pc[t] = "dispatching" /\ ~ReadWaits(t)
     \/ pc[t] = "waiting" /\ on[t] \notin alive
  /\ Lost(t)

(* A read task that first runs when the client has been closed returns.    *)
ReadReturns(t) ==
  /\ pc[t] = "ready"
  /\ stream = NoConn
  /\ pc' = [pc EXCEPT ![t] = "idle"]
  /\ readTask' = Without(readTask, t)
  /\ UNCHANGED <<on, env, stream, flags, reconnectTask, caller, stage, sources, failures>>

(* Bytes arrive and go into the buffer and the property cache; the         *)
(* callbacks they trigger may suspend the loop.                            *)
DataArrives(t) ==
  /\ pc[t] = "waiting"
  /\ on[t] \in alive
  /\ network
  /\ NoneReady
  /\ pc' = [pc EXCEPT ![t] = "dispatching"]
  /\ sources' = sources \cup {on[t]}
  /\ UNCHANGED <<on, env, stream, flags, handles, stage, failures>>

-----------------------------------------------------------------------------
(* disconnect(), called by the lifespan of main.py on shutdown. *)

\* Mutant of Cancelled: cancel() without waiting for the task to end.
CancelRequested(t) ==
  /\ pc' = IF t = NoTask THEN pc ELSE [pc EXCEPT ![t] = "cancelling"]
  /\ on' = IF t = NoTask THEN on ELSE [on EXCEPT ![t] = NoConn]

(* A task is cancelled, and awaited, unless it is None or done.            *)
Cancelled(t) ==
  /\ pc' = IF t = NoTask THEN pc ELSE [pc EXCEPT ![t] = "idle"]
  /\ on' = IF t = NoTask THEN on ELSE [on EXCEPT ![t] = NoConn]

\* Mutant of Disconnect: reconnection stays enabled (line 384).
DisconnectStillEnabled ==
  /\ stage = "running"
  /\ caller = NoTask
  /\ stage' = "cancelling"
  /\ Cancelled(reconnectTask)
  /\ alive' = IF reconnectTask = NoTask THEN alive ELSE alive \ {on[reconnectTask]}
  /\ reconnectTask' = NoTask
  /\ UNCHANGED <<network, stream, flags, readTask, caller, sources, failures>>

(* Reconnection is disabled and the reconnect task cancelled.  A dialling  *)
(* coroutine that is cancelled drops the connection it had opened.         *)
Disconnect ==
  /\ stage = "running"
  /\ caller = NoTask
  /\ stage' = "cancelling"
  /\ enabled' = FALSE
  /\ Cancelled(reconnectTask)
  /\ alive' = IF reconnectTask = NoTask THEN alive ELSE alive \ {on[reconnectTask]}
  /\ reconnectTask' = NoTask
  /\ UNCHANGED <<network, stream, connected, readTask, caller, sources, failures>>

(* The read task is cancelled; its finally clause runs unless it never     *)
(* started.                                                                *)
DisconnectReader ==
  /\ stage = "cancelling"
  /\ stage' = "closing"
  /\ Cancelled(readTask)
  /\ connected' = (connected /\ (readTask = NoTask \/ pc[readTask] = "ready"))
  /\ readTask' = NoTask
  /\ UNCHANGED <<env, stream, enabled, reconnectTask, caller, sources, failures>>

(* The writer is closed.  wait_closed() may raise the error that killed    *)
(* the connection, and then the last assignments are skipped.              *)
DisconnectStream ==
  /\ stage = "closing"
  /\ stage' = "closed"
  /\ alive' = alive \ {stream}
  /\ \/ stream' = NoConn /\ connected' = FALSE
     \/ stream \in Conns \ alive /\ UNCHANGED <<stream, connected>>
  /\ UNCHANGED <<pc, on, network, enabled, handles, sources, failures>>

-----------------------------------------------------------------------------
(* The steps of a chain that the event loop is bound to run. *)
Step(t) ==
  \/ WakeUp(t)
  \/ Accepted(t)
  \/ Refused(t)
  \/ Established(t)
  \/ HandshakeFails(t)
  \/ DrainRaises(t)
  \/ ReadOn(t)
  \/ ReadFails(t)
  \/ ReadReturns(t)

Next ==
  \/ NetworkChanges
  \/ \E c \in Conns : ConnectionDies(c)
  \/ \E t \in Tasks : Connect(t) \/ Step(t) \/ DataArrives(t)
  \/ Disconnect
  \/ DisconnectReader
  \/ DisconnectStream

Spec == Init /\ [][Next]_vars

(* The event loop resumes every coroutine whose awaited call has ended:    *)
(* sleeps end, open_connection answers or is refused, drain() and read()   *)
(* on a dead connection return.                                            *)
FairSpec == Spec /\ \A t \in Tasks : WF_vars(Step(t))

-----------------------------------------------------------------------------
(***************************************************************************)
(* Properties.                                                             *)
(***************************************************************************)

(* As long as no handshake has failed, at most one coroutine looks after   *)
(* the connection: reconnect loops and read loops hand the duty over and   *)
(* never multiply (lines 367, 376 and 439 each create a task).             *)
SingleOwner == failures = 0 => \A t, u \in Owners : t = u

(* As long as no handshake has failed, _xml_buffer and the property cache  *)
(* hold the bytes of one connection, the one the client holds (lines       *)
(* 374-375 clear them): no reader still feeds them from an older one.      *)
OneSource ==
  failures = 0 /\ stage # "closed" => sources \subseteq {stream}

(* is_connected is only true while the read task of the newest connection  *)
(* is there to notice that it is lost, failed handshakes or not.           *)
ConnectedIsRead ==
  stage = "running" /\ connected =>
    readTask # NoTask /\ pc[readTask] \in Reading

(* Whenever the running client is not connected, some coroutine is on its  *)
(* way to a connection, failed handshakes or not: no path through the      *)
(* exceptions of connect(), the loops and their finally clause drops the   *)
(* last reconnection.                                                      *)
NeverGivesUp ==
  stage = "running" /\ ~connected => \E t \in Tasks : pc[t] \in Dialling

(* "Close connection and stop all background tasks" (line 383): if no      *)
(* handshake has failed, nothing is left running once disconnect() has     *)
(* cancelled the read task, although it cancels only the two tasks the     *)
(* attributes name.                                                        *)
ClosedForGood ==
  failures = 0 /\ stage \in {"closing", "closed"} => Owners = {}

(* If the server can be reached for good and the client is not shut down,  *)
(* it is connected for good, provided that no handshake has ever failed.   *)
ReconnectsWithoutFailure ==
  [](failures = 0 /\ enabled) /\ <>[]network => <>[](stage = "new" \/ connected)

(* The same without the proviso: "Automatic reconnection with exponential  *)
(* backoff" (Architecture Spec, section 13.3).                             *)
Reconnects ==
  []enabled /\ <>[]network => <>[](stage = "new" \/ connected)

=============================================================================
