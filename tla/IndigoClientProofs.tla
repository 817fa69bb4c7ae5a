------------------------- MODULE IndigoClientProofs -------------------------
(***************************************************************************)
(* Theorems about the connection lifecycle of IndigoClient, for any number *)
(* of coroutines, connections and failed handshakes.                       *)
(***************************************************************************)
EXTENDS IndigoClient, TLAPS

-----------------------------------------------------------------------------
(* The inductive invariant, part by part. *)

(* connect() is called once, and disconnect() after it: before, nothing    *)
(* runs; after, reconnection is disabled.                                  *)
Lifecycle ==
  /\ stage = "new" => /\ ~connected
                      /\ caller = NoTask
                      /\ \A t \in Tasks : pc[t] = "idle"
  /\ stage \in {"new", "running"} => enabled
  /\ stage \in {"cancelling", "closing", "closed"} => ~enabled /\ caller = NoTask

(* What the task attributes point at is still running, and is what they    *)
(* are named for.                                                          *)
HandlesPoint ==
  /\ reconnectTask # NoTask => pc[reconnectTask] \in Dialling
  /\ readTask # NoTask => pc[readTask] \in Reading
  /\ caller # NoTask => pc[caller] \in Dialling /\ reconnectTask # caller

(* A coroutine that has opened a connection has one; while the client runs *)
(* its readers have a stream to read.                                      *)
StreamsExist ==
  /\ \A t \in Tasks : pc[t] = "opened" => on[t] \in Conns
  /\ stage = "running" /\ (\E t \in Tasks : pc[t] \in Reading) => stream # NoConn

(* A connected client has a read task.                                     *)
HasReader == stage = "running" /\ connected => readTask # NoTask

(* While no handshake has failed, whatever runs can be reached from the    *)
(* attributes, so that disconnect() can cancel it.                         *)
Reachable ==
  failures = 0 =>
    \A t \in Tasks :
      /\ pc[t] # "draining"
      /\ pc[t] \in Dialling => reconnectTask = t \/ caller = t
      /\ pc[t] \in Reading => readTask = t
      /\ stage = "cancelling" => pc[t] \notin Dialling
      /\ stage \in {"closing", "closed"} => pc[t] = "idle"

(* And a read loop waits for the bytes of the connection the client holds. *)
ReadsTheStream ==
  failures = 0 => \A t \in Tasks : pc[t] = "waiting" => on[t] = stream

Structure == Lifecycle /\ HandlesPoint /\ StreamsExist
Duty      == HasReader /\ NeverGivesUp
Calm      == Reachable /\ SingleOwner /\ ReadsTheStream /\ OneSource

Inv == Structure /\ Duty /\ Calm

-----------------------------------------------------------------------------
(* The types. *)

LEMMA InitType == Init => TypeOK
<1> SUFFICES ASSUME Init
             PROVE  TypeOK
  OBVIOUS
<1>1. /\ pc \in [Tasks -> Dialling \cup Reading \cup {"idle"}]
      /\ on \in [Tasks -> Conns \cup {NoConn}]
  BY DEF Init
<1>2. failures \in 0 .. MaxFailures
  BY MaxFailuresAssumption DEF Init
<1>3. stage \in Stages
  BY DEF Init, Stages
<1>4. QED
  BY <1>1, <1>2, <1>3 DEF Init, TypeOK

LEMMA TypeStep == TypeOK /\ [Next]_vars => TypeOK'
<1> SUFFICES ASSUME TypeOK, [Next]_vars
             PROVE  TypeOK'
  OBVIOUS
<1> USE MaxFailuresAssumption DEF TypeOK, Dialling, Reading, Stages, env, flags, handles
<1>1. ASSUME NetworkChanges
      PROVE  TypeOK'
  BY <1>1 DEF NetworkChanges
<1>2. ASSUME NEW c \in Conns, ConnectionDies(c)
      PROVE  TypeOK'
  BY <1>2 DEF ConnectionDies
<1>3. ASSUME NEW t \in Tasks, Connect(t)
      PROVE  TypeOK'
  BY <1>3 DEF Connect
<1>4. ASSUME NEW t \in Tasks, WakeUp(t)
      PROVE  TypeOK'
  BY <1>4 DEF WakeUp
<1>5. ASSUME NEW t \in Tasks, Accepted(t)
      PROVE  TypeOK'
  BY <1>5 DEF Accepted, FreshConns
<1>6. ASSUME NEW t \in Tasks, Refused(t)
      PROVE  TypeOK'
  BY <1>6 DEF Refused, AfterFailure, Without
<1>7. ASSUME NEW t \in Tasks, Established(t)
      PROVE  TypeOK'
  BY <1>7 DEF Established, Adopt, Without
<1>8. ASSUME NEW t \in Tasks, HandshakeFails(t)
      PROVE  TypeOK'
  BY <1>8 DEF HandshakeFails, Adopt, AfterFailure, Without
<1>9. ASSUME NEW t \in Tasks, DrainRaises(t)
      PROVE  TypeOK'
  BY <1>9 DEF DrainRaises, AfterFailure, Without
<1>10. ASSUME NEW t \in Tasks, ReadOn(t)
      PROVE  TypeOK'
  BY <1>10 DEF ReadOn, ReadWaits
<1>11. ASSUME NEW t \in Tasks, ReadFails(t)
      PROVE  TypeOK'
  BY <1>11 DEF ReadFails, ReadWaits, Lost, Without
<1>12. ASSUME NEW t \in Tasks, ReadReturns(t)
      PROVE  TypeOK'
  BY <1>12 DEF ReadReturns, Without
<1>13. ASSUME NEW t \in Tasks, DataArrives(t)
      PROVE  TypeOK'
  BY <1>13 DEF DataArrives
<1>14. ASSUME Disconnect
      PROVE  TypeOK'
  BY <1>14 DEF Disconnect, Cancelled
<1>15. ASSUME DisconnectReader
      PROVE  TypeOK'
  BY <1>15 DEF DisconnectReader, Cancelled
<1>16. ASSUME DisconnectStream
      PROVE  TypeOK'
  BY <1>16 DEF DisconnectStream
<1>17. CASE UNCHANGED vars
  BY <1>17 DEF vars
<1>18. QED
  BY <1>1, <1>2, <1>3, <1>4, <1>5, <1>6, <1>7, <1>8, <1>9,
     <1>10, <1>11, <1>12, <1>13, <1>14, <1>15, <1>16, <1>17
     DEF Next, Step

(* Every variable of the client keeps its type, and no more handshakes     *)
(* fail than MaxFailures: the bound of the model is respected everywhere.  *)
THEOREM TypeCorrect == Spec => []TypeOK
BY InitType, TypeStep, PTL DEF Spec

-----------------------------------------------------------------------------
(* The structure: lifecycle, task attributes and streams.                  *)
LEMMA StructureStep == TypeOK /\ Structure /\ [Next]_vars => Structure'
<1> SUFFICES ASSUME TypeOK, Structure, [Next]_vars
             PROVE  Structure'
  OBVIOUS
<1> USE NoTaskAssumption, NoConnAssumption
    DEF TypeOK, Structure, Lifecycle, HandlesPoint, StreamsExist,
        Dialling, Reading, Stages, env, flags, handles
<1>1. ASSUME NetworkChanges
      PROVE  Structure'
  BY <1>1 DEF NetworkChanges
<1>2. ASSUME NEW c \in Conns, ConnectionDies(c)
      PROVE  Structure'
  BY <1>2 DEF ConnectionDies
<1>3. ASSUME NEW t \in Tasks, Connect(t)
      PROVE  Structure'
  BY <1>3 DEF Connect
<1>4. ASSUME NEW t \in Tasks, WakeUp(t)
      PROVE  Structure'
  BY <1>4 DEF WakeUp
<1>5. ASSUME NEW t \in Tasks, Accepted(t)
      PROVE  Structure'
  BY <1>5 DEF Accepted, FreshConns
<1>6. ASSUME NEW t \in Tasks, Refused(t)
      PROVE  Structure'
  BY <1>6 DEF Refused, AfterFailure, Without
<1>7. ASSUME NEW t \in Tasks, Established(t)
      PROVE  Structure'
  BY <1>7 DEF Established, Adopt, Without
<1>8. ASSUME NEW t \in Tasks, HandshakeFails(t)
      PROVE  Structure'
  <2>1. Lifecycle'
    BY <1>8 DEF HandshakeFails, Adopt, AfterFailure, Without
  <2>2. HandlesPoint'
    <3>1. PICK r \in Tasks \ Owners :
            /\ readTask' = r
            /\ \/ /\ pc' = [pc EXCEPT ![t] = "draining", ![r] = "ready"]
                  /\ UNCHANGED <<reconnectTask, caller>>
               \/ /\ \E next \in {"sleeping", "idle"} :
                       /\ AfterFailure(t, reconnectTask, next)
                       /\ pc' = [pc EXCEPT ![t] = next, ![r] = "ready"]
                  /\ caller' = Without(caller, t)
      BY <1>8 DEF HandshakeFails, Adopt
    <3>2. pc[t] = "opened" /\ pc[r] = "idle"
      BY <1>8 DEF HandshakeFails, Owners
    <3>3. readTask' # NoTask => pc'[readTask'] \in Reading
      BY <3>1, <3>2
    <3>4. reconnectTask' # NoTask => pc'[reconnectTask'] \in Dialling
      BY <3>1, <3>2 DEF AfterFailure, Without
    <3>5. caller' # NoTask => pc'[caller'] \in Dialling /\ reconnectTask' # caller'
      BY <3>1, <3>2 DEF AfterFailure, Without
    <3>6. QED
      BY <3>3, <3>4, <3>5
  <2>3. StreamsExist'
    BY <1>8 DEF HandshakeFails, Adopt, AfterFailure, Without
  <2>4. QED
    BY <2>1, <2>2, <2>3
<1>9. ASSUME NEW t \in Tasks, DrainRaises(t)
      PROVE  Structure'
  BY <1>9 DEF DrainRaises, AfterFailure, Without
<1>10. ASSUME NEW t \in Tasks, ReadOn(t)
      PROVE  Structure'
  BY <1>10 DEF ReadOn, ReadWaits
<1>11. ASSUME NEW t \in Tasks, ReadFails(t)
      PROVE  Structure'
  <2>1. Lifecycle'
    BY <1>11 DEF ReadFails, ReadWaits, Lost, Without
  <2>2. HandlesPoint'
    BY <1>11 DEF ReadFails, ReadWaits, Lost, Without
  <2>3. StreamsExist'
    BY <1>11 DEF ReadFails, ReadWaits, Lost, Without
  <2>4. QED
    BY <2>1, <2>2, <2>3
<1>12. ASSUME NEW t \in Tasks, ReadReturns(t)
      PROVE  Structure'
  BY <1>12 DEF ReadReturns, Without
<1>13. ASSUME NEW t \in Tasks, DataArrives(t)
      PROVE  Structure'
  BY <1>13 DEF DataArrives
<1>14. ASSUME Disconnect
      PROVE  Structure'
  <2>1. Lifecycle'
    BY <1>14 DEF Disconnect, Cancelled
  <2>2. HandlesPoint'
    BY <1>14 DEF Disconnect, Cancelled
  <2>3. StreamsExist'
    BY <1>14 DEF Disconnect, Cancelled
  <2>4. QED
    BY <2>1, <2>2, <2>3
<1>15. ASSUME DisconnectReader
      PROVE  Structure'
  BY <1>15 DEF DisconnectReader, Cancelled
<1>16. ASSUME DisconnectStream
      PROVE  Structure'
  <2>1. Lifecycle'
    BY <1>16 DEF DisconnectStream
  <2>2. HandlesPoint'
    BY <1>16 DEF DisconnectStream
  <2>3. StreamsExist'
    BY <1>16 DEF DisconnectStream
  <2>4. QED
    BY <2>1, <2>2, <2>3
<1>17. CASE UNCHANGED vars
  BY <1>17 DEF vars
<1>18. QED
  BY <1>1, <1>2, <1>3, <1>4, <1>5, <1>6, <1>7, <1>8, <1>9,
     <1>10, <1>11, <1>12, <1>13, <1>14, <1>15, <1>16, <1>17
     DEF Next, Step

(* The duty: a coroutine reads, or one is on its way to a connection.  A   *)
(* failed connect() may return without leaving a reconnect loop behind     *)
(* only because _reconnect_task then points at another one (HandlesPoint). *)
LEMMA DutyStep == TypeOK /\ Structure /\ Duty /\ [Next]_vars => Duty'
<1> SUFFICES ASSUME TypeOK, Structure, Duty, [Next]_vars
             PROVE  Duty'
  OBVIOUS
<1> USE NoTaskAssumption
    DEF TypeOK, Structure, Lifecycle, HandlesPoint, StreamsExist, Duty, HasReader,
        NeverGivesUp, Dialling, Reading, Stages, env, flags, handles
<1>1. ASSUME NetworkChanges
      PROVE  Duty'
  BY <1>1 DEF NetworkChanges
<1>2. ASSUME NEW c \in Conns, ConnectionDies(c)
      PROVE  Duty'
  BY <1>2 DEF ConnectionDies
<1>3. ASSUME NEW t \in Tasks, Connect(t)
      PROVE  Duty'
  BY <1>3 DEF Connect
<1>4. ASSUME NEW t \in Tasks, WakeUp(t)
      PROVE  Duty'
  BY <1>4 DEF WakeUp
<1>5. ASSUME NEW t \in Tasks, Accepted(t)
      PROVE  Duty'
  BY <1>5 DEF Accepted, FreshConns
<1>6. ASSUME NEW t \in Tasks, Refused(t)
      PROVE  Duty'
  BY <1>6 DEF Refused, AfterFailure, Without
<1>7. ASSUME NEW t \in Tasks, Established(t)
      PROVE  Duty'
  BY <1>7 DEF Established, Adopt, Without
<1>8. ASSUME NEW t \in Tasks, HandshakeFails(t)
      PROVE  Duty'
  <2>1. HasReader'
    BY <1>8 DEF HandshakeFails, Adopt, AfterFailure, Without
  <2>2. NeverGivesUp'
    BY <1>8 DEF HandshakeFails, Adopt, AfterFailure, Without
  <2>3. QED
    BY <2>1, <2>2
<1>9. ASSUME NEW t \in Tasks, DrainRaises(t)
      PROVE  Duty'
  BY <1>9 DEF DrainRaises, AfterFailure, Without
<1>10. ASSUME NEW t \in Tasks, ReadOn(t)
      PROVE  Duty'
  BY <1>10 DEF ReadOn, ReadWaits
<1>11. ASSUME NEW t \in Tasks, ReadFails(t)
      PROVE  Duty'
  <2>1. HasReader'
    BY <1>11 DEF ReadFails, ReadWaits, Lost, Without
  <2>2. NeverGivesUp'
    BY <1>11 DEF ReadFails, ReadWaits, Lost, Without
  <2>3. QED
    BY <2>1, <2>2
<1>12. ASSUME NEW t \in Tasks, ReadReturns(t)
      PROVE  Duty'
  BY <1>12 DEF ReadReturns, Without
<1>13. ASSUME NEW t \in Tasks, DataArrives(t)
      PROVE  Duty'
  BY <1>13 DEF DataArrives
<1>14. ASSUME Disconnect
      PROVE  Duty'
  <2>1. HasReader'
    BY <1>14 DEF Disconnect, Cancelled
  <2>2. NeverGivesUp'
    BY <1>14 DEF Disconnect, Cancelled
  <2>3. QED
    BY <2>1, <2>2
<1>15. ASSUME DisconnectReader
      PROVE  Duty'
  BY <1>15 DEF DisconnectReader, Cancelled
<1>16. ASSUME DisconnectStream
      PROVE  Duty'
  BY <1>16 DEF DisconnectStream
<1>17. CASE UNCHANGED vars
  BY <1>17 DEF vars
<1>18. QED
  BY <1>1, <1>2, <1>3, <1>4, <1>5, <1>6, <1>7, <1>8, <1>9,
     <1>10, <1>11, <1>12, <1>13, <1>14, <1>15, <1>16, <1>17
     DEF Next, Step

(* What holds until a handshake fails.  Only HandshakeFails leaves two     *)
(* chains behind, and it falsifies the premise of every part.              *)
LEMMA CalmStep == TypeOK /\ Structure /\ Calm /\ [Next]_vars => Calm'
<1> SUFFICES ASSUME TypeOK, Structure, Calm, [Next]_vars
             PROVE  Calm'
  OBVIOUS
<1> USE NoTaskAssumption
    DEF TypeOK, Structure, Lifecycle, HandlesPoint, Calm, Reachable, SingleOwner,
        ReadsTheStream, OneSource, Owners, Dialling, Reading, Stages, env, flags, handles
<1>1. ASSUME NetworkChanges
      PROVE  Calm'
  BY <1>1 DEF NetworkChanges
<1>2. ASSUME NEW c \in Conns, ConnectionDies(c)
      PROVE  Calm'
  BY <1>2 DEF ConnectionDies
<1>3. ASSUME NEW t \in Tasks, Connect(t)
      PROVE  Calm'
  BY <1>3 DEF Connect
<1>4. ASSUME NEW t \in Tasks, WakeUp(t)
      PROVE  Calm'
  BY <1>4 DEF WakeUp
<1>5. ASSUME NEW t \in Tasks, Accepted(t)
      PROVE  Calm'
  <2>1. Reachable'
    BY <1>5 DEF Accepted, FreshConns
  <2>2. SingleOwner'
    BY <1>5 DEF Accepted, FreshConns
  <2>3. ReadsTheStream'
    BY <1>5 DEF Accepted, FreshConns
  <2>4. OneSource'
    BY <1>5 DEF Accepted, FreshConns
  <2>5. QED
    BY <2>1, <2>2, <2>3, <2>4
<1>6. ASSUME NEW t \in Tasks, Refused(t)
      PROVE  Calm'
  BY <1>6 DEF Refused, AfterFailure, Without
<1>7. ASSUME NEW t \in Tasks, Established(t)
      PROVE  Calm'
  <2>1. Reachable'
    BY <1>7 DEF Established, Adopt, Without
  <2>2. SingleOwner'
    BY <1>7 DEF Established, Adopt, Without
  <2>3. ReadsTheStream'
    BY <1>7 DEF Established, Adopt, Without
  <2>4. OneSource'
    BY <1>7 DEF Established, Adopt, Without
  <2>5. QED
    BY <2>1, <2>2, <2>3, <2>4
<1>8. ASSUME NEW t \in Tasks, HandshakeFails(t)
      PROVE  Calm'
  BY <1>8 DEF HandshakeFails, Adopt, AfterFailure, Without
<1>9. ASSUME NEW t \in Tasks, DrainRaises(t)
      PROVE  Calm'
  BY <1>9 DEF DrainRaises, AfterFailure, Without
<1>10. ASSUME NEW t \in Tasks, ReadOn(t)
      PROVE  Calm'
  <2>1. Reachable'
    BY <1>10 DEF ReadOn, ReadWaits
  <2>2. SingleOwner'
    BY <1>10 DEF ReadOn, ReadWaits
  <2>3. ReadsTheStream'
    BY <1>10 DEF ReadOn, ReadWaits
  <2>4. OneSource'
    BY <1>10 DEF ReadOn, ReadWaits
  <2>5. QED
    BY <2>1, <2>2, <2>3, <2>4
<1>11. ASSUME NEW t \in Tasks, ReadFails(t)
      PROVE  Calm'
  <2>1. Reachable'
    BY <1>11 DEF ReadFails, ReadWaits, Lost, Without
  <2>2. SingleOwner'
    BY <1>11 DEF ReadFails, ReadWaits, Lost, Without
  <2>3. ReadsTheStream'
    BY <1>11 DEF ReadFails, ReadWaits, Lost, Without
  <2>4. OneSource'
    BY <1>11 DEF ReadFails, ReadWaits, Lost, Without
  <2>5. QED
    BY <2>1, <2>2, <2>3, <2>4
<1>12. ASSUME NEW t \in Tasks, ReadReturns(t)
      PROVE  Calm'
  BY <1>12 DEF ReadReturns, Without
<1>13. ASSUME NEW t \in Tasks, DataArrives(t)
      PROVE  Calm'
  BY <1>13 DEF DataArrives
<1>14. ASSUME Disconnect
      PROVE  Calm'
  <2>1. Reachable'
    BY <1>14 DEF Disconnect, Cancelled
  <2>2. SingleOwner'
    BY <1>14 DEF Disconnect, Cancelled
  <2>3. ReadsTheStream'
    BY <1>14 DEF Disconnect, Cancelled
  <2>4. OneSource'
    BY <1>14 DEF Disconnect, Cancelled
  <2>5. QED
    BY <2>1, <2>2, <2>3, <2>4
<1>15. ASSUME DisconnectReader
      PROVE  Calm'
  <2>1. Reachable'
    BY <1>15 DEF DisconnectReader, Cancelled
  <2>2. SingleOwner'
    BY <1>15 DEF DisconnectReader, Cancelled
  <2>3. ReadsTheStream'
    BY <1>15 DEF DisconnectReader, Cancelled
  <2>4. OneSource'
    BY <1>15 DEF DisconnectReader, Cancelled
  <2>5. QED
    BY <2>1, <2>2, <2>3, <2>4
<1>16. ASSUME DisconnectStream
      PROVE  Calm'
  <2>1. Reachable'
    BY <1>16 DEF DisconnectStream
  <2>2. SingleOwner'
    BY <1>16 DEF DisconnectStream
  <2>3. ReadsTheStream'
    BY <1>16 DEF DisconnectStream
  <2>4. OneSource'
    BY <1>16 DEF DisconnectStream
  <2>5. QED
    BY <2>1, <2>2, <2>3, <2>4
<1>17. CASE UNCHANGED vars
  BY <1>17 DEF vars
<1>18. QED
  BY <1>1, <1>2, <1>3, <1>4, <1>5, <1>6, <1>7, <1>8, <1>9,
     <1>10, <1>11, <1>12, <1>13, <1>14, <1>15, <1>16, <1>17
     DEF Next, Step

-----------------------------------------------------------------------------
LEMMA InitInv == Init => Inv
BY DEF Init, Inv, Structure, Lifecycle, HandlesPoint, StreamsExist, Duty, HasReader,
       NeverGivesUp, Calm, Reachable, SingleOwner, ReadsTheStream, OneSource, Owners,
       Dialling, Reading

LEMMA Invariant == Spec => [](TypeOK /\ Inv)
<1>1. Init => TypeOK /\ Inv
  BY InitType, InitInv
<1>2. TypeOK /\ Inv /\ [Next]_vars => TypeOK' /\ Inv'
  BY TypeStep, StructureStep, DutyStep, CalmStep DEF Inv
<1>3. QED
  BY <1>1, <1>2, PTL DEF Spec

(* is_connected is never true without a read task that would notice the    *)
(* loss of the connection, however many handshakes have failed.            *)
THEOREM ConnectionIsRead == Spec => []ConnectedIsRead
<1>1. TypeOK /\ Inv => ConnectedIsRead
  BY DEF Inv, Structure, HandlesPoint, Duty, HasReader, ConnectedIsRead
<1>2. QED
  BY Invariant, <1>1, PTL

(* A running client that is not connected is on its way to a connection,   *)
(* however many handshakes have failed.                                    *)
THEOREM ReconnectionNeverDropped == Spec => []NeverGivesUp
<1>1. TypeOK /\ Inv => NeverGivesUp
  BY DEF Inv, Duty
<1>2. QED
  BY Invariant, <1>1, PTL

(* Until a handshake fails, one coroutine at most looks after the          *)
(* connection.                                                             *)
THEOREM OwnerIsUnique == Spec => []SingleOwner
<1>1. TypeOK /\ Inv => SingleOwner
  BY DEF Inv, Calm
<1>2. QED
  BY Invariant, <1>1, PTL

(* Until a handshake fails, the buffer and the property cache hold the     *)
(* bytes of no connection but the one the client holds.                    *)
THEOREM SourceIsUnique == Spec => []OneSource
<1>1. TypeOK /\ Inv => OneSource
  BY DEF Inv, Calm
<1>2. QED
  BY Invariant, <1>1, PTL

(* Until a handshake fails, disconnect() leaves nothing running.           *)
THEOREM NothingSurvives == Spec => []ClosedForGood
<1>1. TypeOK /\ Inv => ClosedForGood
  BY DEF Inv, Calm, Reachable, ClosedForGood, Owners
<1>2. QED
  BY Invariant, <1>1, PTL
=============================================================================
