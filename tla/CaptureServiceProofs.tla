------------------------ MODULE CaptureServiceProofs ------------------------
(***************************************************************************)
(* Theorems about CaptureService, for any number of captures, of updates   *)
(* under way and of aborting requests, and whichever of its tasks may be   *)
(* suspended: its types; that the adapter's exposure state catches up with *)
(* the server's; that a completed capture does not come back; that the     *)
(* flags reset after a publication were nobody else's; that the images are *)
(* given in order.  And, where nobody aborts and the link holds, that the  *)
(* exposures keep the promise of Exposure.                                 *)
(*                                                                         *)
(* The lemmas about the updates under way ask only that they form a        *)
(* sequence, of whatever messages: they serve the modules in which the     *)
(* camera says more than CaptureService has it say.                        *)
(***************************************************************************)
EXTENDS CaptureService, SequenceTheorems, TLAPS

-----------------------------------------------------------------------------
(* The updates, on their way and read. *)

LEMMA UpdateTypes ==
    /\ \A s \in PropertyStates : Set(s) \in Updates /\ Def(s) \in Updates
    /\ \A c \in Captures : Image(c) \in Updates
BY DEF Set, Def, Image, Updates

\* One update is not taken for another.
LEMMA UpdatesDiffer ==
    /\ \A s, t : Set(s) # Image(t) /\ Def(s) # Image(t) /\ Def(s) # Set(t)
    /\ \A s, t : Set(s) = Set(t) => s = t
    /\ \A c, d : Image(c) = Image(d) => c = d
BY DEF Set, Def, Image

\* What is emitted comes behind the updates under way.
LEMMA Emitted ==
    ASSUME NEW M, fromDevice \in Seq(M), NEW u \in Seq(M), Emit(u)
    PROVE  /\ fromDevice' \in Seq(M)
           /\ Len(fromDevice') = Len(fromDevice) + Len(u)
           /\ Len(fromDevice') <= MaxInFlight
           /\ \A i \in 1 .. Len(fromDevice) : fromDevice'[i] = fromDevice[i]
           /\ \A i \in 1 .. Len(u) : fromDevice'[Len(fromDevice) + i] = u[i]
BY ConcatProperties, LenProperties DEF Emit

\* What is received was at the front of the updates under way.
LEMMA Received ==
    ASSUME NEW M, fromDevice \in Seq(M), NEW update, Receive(update)
    PROVE  /\ update \in M /\ update = fromDevice[1]
           /\ fromDevice' \in Seq(M)
           /\ Len(fromDevice) > 0 /\ Len(fromDevice') = Len(fromDevice) - 1
           /\ \A i \in 1 .. Len(fromDevice') : fromDevice'[i] = fromDevice[i + 1]
BY HeadTailProperties, LenProperties, EmptySeq DEF Receive

\* When the link is lost, some of the updates under way are.
LEMMA CutOff ==
    ASSUME NEW M, fromDevice \in Seq(M), LinkLost
    PROVE  /\ fromDevice' \in Seq(M) /\ Len(fromDevice') <= Len(fromDevice)
           /\ \A i \in 1 .. Len(fromDevice') : fromDevice'[i] = fromDevice[i]
<1>1. PICK n \in 0 .. Len(fromDevice) : fromDevice' = SubSeq(fromDevice, 1, n)
  BY DEF LinkLost
<1>2. \A i \in 1 .. n : fromDevice[i] \in M
  BY ElementOfSeq, LenProperties
<1>3. QED
  BY <1>1, <1>2, SubSeqProperties, LenProperties

LEMMA NoneIsNoCapture == None \notin Captures
BY BoundsAssumption DEF None, Captures

\* What the server emits are updates, and the queue stays within its bound.
LEMMA QueueType ==
    ASSUME TypeOK
    PROVE  /\ \A u \in Seq(Updates) : Emit(u) \/ EmitIfUp(u) =>
                fromDevice' \in Seq(Updates) /\ Len(fromDevice') <= MaxInFlight
           /\ \A u : Receive(u) =>
                fromDevice' \in Seq(Updates) /\ Len(fromDevice') <= MaxInFlight
           /\ LinkLost =>
                fromDevice' \in Seq(Updates) /\ Len(fromDevice') <= MaxInFlight
<1>1. fromDevice \in Seq(Updates) /\ Len(fromDevice) \in Nat
      /\ Len(fromDevice) <= MaxInFlight /\ MaxInFlight \in Nat
  BY BoundsAssumption, LenProperties DEF TypeOK
<1>2. ASSUME NEW u \in Seq(Updates), Emit(u) \/ EmitIfUp(u)
      PROVE  fromDevice' \in Seq(Updates) /\ Len(fromDevice') <= MaxInFlight
  BY <1>1, <1>2, Emitted DEF EmitIfUp
<1>3. ASSUME NEW u, Receive(u)
      PROVE  fromDevice' \in Seq(Updates) /\ Len(fromDevice') <= MaxInFlight
  <2>1. fromDevice' \in Seq(Updates) /\ Len(fromDevice') = Len(fromDevice) - 1
    BY <1>1, <1>3, Received
  <2>2. QED
    BY <1>1, <2>1
<1>4. ASSUME LinkLost
      PROVE  fromDevice' \in Seq(Updates) /\ Len(fromDevice') <= MaxInFlight
  <2>1. fromDevice' \in Seq(Updates) /\ Len(fromDevice') <= Len(fromDevice)
    BY <1>1, <1>4, CutOff
  <2>2. QED
    BY <1>1, <2>1, LenProperties
<1>5. QED
  BY <1>2, <1>3, <1>4

\* The updates that the camera sends when it starts and when it is aborted.
LEMMA DeviceType ==
    ASSUME TypeOK
    PROVE  /\ \A c \in Captures : DeviceStart(c) =>
                /\ device' \in Captures \cup {None} /\ devState' \in PropertyStates
                /\ fromDevice' \in Seq(Updates) /\ Len(fromDevice') <= MaxInFlight
           /\ DeviceAbort =>
                /\ device' \in Captures \cup {None} /\ devState' \in PropertyStates
                /\ fromDevice' \in Seq(Updates) /\ Len(fromDevice') <= MaxInFlight
<1>1. <<Set("busy")>> \in Seq(Updates) /\ <<Set("alert")>> \in Seq(Updates)
  BY UpdateTypes DEF PropertyStates
<1>2. fromDevice \in Seq(Updates) /\ Len(fromDevice) <= MaxInFlight
      /\ device \in Captures \cup {None} /\ devState \in PropertyStates
  BY DEF TypeOK
<1>3. QED
  BY <1>1, <1>2, QueueType DEF DeviceStart, DeviceAbort, PropertyStates

\* What a handler does to the current capture keeps the types.
LEMMA HandlerType ==
    ASSUME TypeOK
    PROVE  /\ FailCurrent =>
                /\ status' \in [Captures -> CaptureStatus]
                /\ announced' \in [Captures -> SUBSET (Terminal \cup {"started"})]
                /\ reader' \in {"idle", "publishing"}
                /\ UNCHANGED <<file, current, okReceived, pendingImage>>
           /\ \A ok \in BOOLEAN, i \in Captures \cup {None} : TryComplete(ok, i) =>
                /\ status' \in [Captures -> CaptureStatus]
                /\ file' \in [Captures -> Captures \cup {None}]
                /\ announced' \in [Captures -> SUBSET (Terminal \cup {"started"})]
                /\ reader' \in {"idle", "publishing"}
                /\ okReceived' = ok /\ pendingImage' = i /\ UNCHANGED current
BY DEF TypeOK, FailCurrent, TryComplete, Announce, service, CaptureStatus, Terminal

LEMMA TypeInit == Init => TypeOK
<1> SUFFICES ASSUME Init
             PROVE  TypeOK
  OBVIOUS
<1>1. fromDevice \in Seq(Updates) /\ Len(fromDevice) <= MaxInFlight
  BY EmptySeq, BoundsAssumption DEF Init
<1>2. QED
  BY <1>1 DEF Init, TypeOK, CaptureStatus, PropertyStates, SendStages

LEMMA TypeStep == TypeOK /\ [Next]_vars => TypeOK'
<1> SUFFICES ASSUME TypeOK, [Next]_vars
             PROVE  TypeOK'
  OBVIOUS
<1> USE DEF TypeOK
<1>1. CASE StartExposure
  <2>1. current + 1 \in Captures /\ current' = current + 1
    BY <1>1, BoundsAssumption DEF StartExposure, Captures, None
  <2>2. /\ device' \in Captures \cup {None} /\ devState' \in PropertyStates
        /\ fromDevice' \in Seq(Updates) /\ Len(fromDevice') <= MaxInFlight
    BY <1>1, <2>1, DeviceType DEF StartExposure
  <2>3. status' \in [Captures -> CaptureStatus] /\ starting' \in [Captures -> SendStages]
    BY <1>1 DEF StartExposure, SendStage, SendStages, CaptureStatus
  <2>4. QED
    BY <1>1, <2>1, <2>2, <2>3 DEF StartExposure, ClearFlags
<1>2. ASSUME NEW c \in Captures, StartReturns(c) \/ StartRaises(c)
      PROVE  TypeOK'
  <2>1. CASE StartReturns(c)
    BY <2>1 DEF StartReturns, camera, Announce, SendStages, CaptureStatus
  <2>2. CASE StartRaises(c)
    BY <2>2 DEF StartRaises, camera, SendStages, CaptureStatus
  <2>3. QED
    BY <1>2, <2>1, <2>2
<1>3. ASSUME NEW a \in Aborters, AbortExposure(a)
      PROVE  TypeOK'
  BY <1>3, DeviceType DEF AbortExposure, SendStage, SendStages, service
<1>4. ASSUME NEW a \in Aborters, AbortReturns(a) \/ AbortRaises(a) \/ AbortPublished(a)
      PROVE  TypeOK'
  <2>1. ASSUME AbortReturns(a)
        PROVE  /\ status' \in [Captures -> CaptureStatus]
               /\ announced' \in [Captures -> SUBSET (Terminal \cup {"started"})]
    BY <2>1 DEF AbortReturns, Announce, CaptureStatus, Terminal
  <2>2. aborter' \in [Aborters -> SendStages \cup {"publishing"}]
    BY <1>4 DEF AbortReturns, AbortRaises, AbortPublished, SendStages
  <2>3. QED
    BY <1>4, <2>1, <2>2
       DEF AbortReturns, AbortRaises, AbortPublished, ClearFlags, camera, service
<1>5. CASE Read
  <2>1. ASSUME NEW u, Receive(u)
        PROVE  /\ fromDevice' \in Seq(Updates) /\ Len(fromDevice') <= MaxInFlight
               /\ UNCHANGED <<starting, aborter, device, devState, link>>
    BY <2>1, QueueType DEF Receive
  <2>2. CASE ReadDefinition \/ ReadUnremarkable \/ ReadInvisibleImage
    BY <2>1, <2>2 DEF ReadDefinition, ReadUnremarkable, ReadInvisibleImage, service
  <2>3. CASE ReadAlert \/ ReadVanishedImage
    BY <2>1, <2>3, HandlerType DEF ReadAlert, ReadVanishedImage, PropertyStates
  <2>4. CASE ReadOk
    BY <2>1, <2>4, HandlerType DEF ReadOk, PropertyStates
  <2>5. CASE ReadImage
    BY <2>1, <2>5, HandlerType DEF ReadImage
  <2>6. QED
    BY <1>5, <2>2, <2>3, <2>4, <2>5 DEF Read
<1>6. CASE ReaderPublished
  BY <1>6 DEF ReaderPublished, ClearFlags, camera
<1>7. CASE DeviceFinishes \/ DeviceFails
  <2>1. device \in Captures
    BY <1>7 DEF DeviceFinishes, DeviceFails
  <2>2. /\ <<Image(device), Set("ok")>> \in Seq(Updates)
        /\ <<Set("ok"), Image(device)>> \in Seq(Updates)
        /\ <<Set("alert")>> \in Seq(Updates)
    BY <2>1, UpdateTypes DEF PropertyStates
  <2>3. QED
    BY <1>7, <2>2, QueueType DEF DeviceFinishes, DeviceFails, service, PropertyStates
<1>8. CASE LinkLost
  BY <1>8, QueueType DEF LinkLost, SendStages, service
<1>9. CASE LinkRestored
  <2>1. <<Def(devState)>> \in Seq(Updates) /\ Len(<<Def(devState)>>) = 1
    BY UpdateTypes
  <2>2. QED
    BY <1>9, <2>1, BoundsAssumption DEF LinkRestored, service
<1>10. CASE UNCHANGED vars
  BY <1>10 DEF vars
<1>11. QED
  BY <1>1, <1>2, <1>3, <1>4, <1>5, <1>6, <1>7, <1>8, <1>9, <1>10 DEF Next

\* Every variable keeps its type, and the updates on their way stay within the
\* bound of the model.
THEOREM TypeCorrect == Spec => []TypeOK
BY TypeInit, TypeStep, PTL DEF Spec

-----------------------------------------------------------------------------
(* The exposure state.  Most of the time the adapter's lags behind the       *)
(* server's.  What holds throughout, while the link is up, is that the last  *)
(* word under way about it is the server's: the newest update that tells a   *)
(* state tells this one, or the adapter has it already and none tells any.   *)
Tells(u, s) == u = Set(s) \/ u = Def(s)

Speaks(u) == \E s \in PropertyStates : Tells(u, s)

\* From the i-th update under way, no update tells an exposure state.
SilentFrom(i) == \A j \in i .. Len(fromDevice) : ~Speaks(fromDevice[j])

LastWord ==
    \/ expState = devState /\ SilentFrom(1)
    \/ \E i \in 1 .. Len(fromDevice) : Tells(fromDevice[i], devState) /\ SilentFrom(i + 1)

StateInv ==
    /\ devState = "busy" <=> device # None
    /\ link = "up" => LastWord

\* An update tells one state, an image none.
LEMMA OneWord ==
    /\ \A u, s, t : Tells(u, s) /\ Tells(u, t) => s = t
    /\ \A s : Tells(Set(s), s) /\ Tells(Def(s), s)
    /\ \A c : ~Speaks(Image(c))
<1>1. \A s : Set(s).state = s /\ Def(s).state = s
  BY DEF Set, Def
<1>2. QED
  BY <1>1, UpdatesDiffer DEF Tells, Speaks

\* The new state of the server is emitted, alone or next to an image.
LEMMA WordEmitted ==
    ASSUME TypeOK, devState' \in PropertyStates,
           NEW u \in Seq(Updates), Emit(u), NEW k \in 1 .. Len(u), Tells(u[k], devState'),
           \A j \in k + 1 .. Len(u) : ~Speaks(u[j])
    PROVE  LastWord'
<1>1. fromDevice \in Seq(Updates)
  BY DEF TypeOK
<1>2. PICK n \in Nat : n = Len(fromDevice)
  BY <1>1, LenProperties
<1>3. PICK m \in Nat : m = Len(u)
  BY LenProperties
<1>4. Len(fromDevice') = n + m /\ \A i \in 1 .. m : fromDevice'[n + i] = u[i]
  BY <1>1, <1>2, <1>3, Emitted
<1>5. k \in 1 .. m /\ n + k \in 1 .. n + m /\ Tells(fromDevice'[n + k], devState')
  BY <1>3, <1>4
<1>6. ASSUME NEW j \in n + k + 1 .. n + m
      PROVE  ~Speaks(fromDevice'[j])
  <2>1. j - n \in k + 1 .. m /\ j - n \in 1 .. m /\ n + (j - n) = j
    BY <1>5, <1>6
  <2>2. QED
    BY <1>3, <1>4, <2>1
<1>7. QED
  BY <1>4, <1>5, <1>6 DEF LastWord, SilentFrom

\* What is read goes to the adapter, if it tells a state.
LEMMA WordRead ==
    ASSUME TypeOK, LastWord, UNCHANGED devState, NEW u, Receive(u),
           Speaks(u) => Tells(u, expState'),
           ~Speaks(u) => UNCHANGED expState
    PROVE  LastWord'
<1>1. fromDevice \in Seq(Updates)
  BY DEF TypeOK
<1>2. PICK n \in Nat : n = Len(fromDevice)
  BY <1>1, LenProperties
<1>3. /\ u = fromDevice[1] /\ n > 0 /\ Len(fromDevice') = n - 1
      /\ \A i \in 1 .. n - 1 : fromDevice'[i] = fromDevice[i + 1]
  BY <1>1, <1>2, Received
<1>4. ASSUME NEW i \in 1 .. n, SilentFrom(i + 1)
      PROVE  SilentFrom(i)'
  <2>1. ASSUME NEW j \in i .. n - 1
        PROVE  ~Speaks(fromDevice'[j])
    <3>1. j \in 1 .. n - 1 /\ j + 1 \in i + 1 .. n
      OBVIOUS
    <3>2. QED
      BY <1>2, <1>3, <1>4, <3>1 DEF SilentFrom
  <2>2. QED
    BY <1>3, <2>1 DEF SilentFrom
<1>5. CASE expState = devState /\ SilentFrom(1)
  <2>1. ~Speaks(u)
    BY <1>2, <1>3, <1>5 DEF SilentFrom
  <2>2. SilentFrom(2)
    BY <1>2, <1>5 DEF SilentFrom
  <2>3. SilentFrom(1)'
    BY <1>3, <1>4, <2>2
  <2>4. QED
    BY <1>5, <2>1, <2>3 DEF LastWord
<1>6. ASSUME NEW i \in 1 .. n, Tells(fromDevice[i], devState), SilentFrom(i + 1)
      PROVE  LastWord'
  <2>1. CASE i = 1
    <3>1. Tells(u, devState) /\ devState \in PropertyStates
      BY <1>3, <1>6, <2>1 DEF TypeOK
    <3>2. expState' = devState
      BY <3>1, OneWord DEF Speaks
    <3>3. SilentFrom(1)'
      BY <1>4, <1>6, <2>1
    <3>4. QED
      BY <3>2, <3>3 DEF LastWord
  <2>2. CASE i # 1
    <3>1. PICK k \in 1 .. n - 1 : k + 1 = i
      BY <2>2
    <3>2. Tells(fromDevice'[k], devState')
      BY <1>3, <1>6, <3>1
    <3>3. SilentFrom(k + 1)'
      BY <1>4, <1>6, <3>1
    <3>4. QED
      BY <1>3, <3>1, <3>2, <3>3 DEF LastWord
  <2>3. QED
    BY <2>1, <2>2
<1>7. QED
  BY <1>2, <1>5, <1>6 DEF LastWord

\* Each way the camera changes its state is emitted while the link is up.
LEMMA StateEmitted ==
    ASSUME TypeOK, NEW s \in PropertyStates, devState' = s, UNCHANGED link,
           \/ EmitIfUp(<<Set(s)>>)
           \/ \E c \in Captures : \/ EmitIfUp(<<Image(c), Set(s)>>)
                                  \/ EmitIfUp(<<Set(s), Image(c)>>)
    PROVE  link' = "up" => LastWord'
<1> SUFFICES ASSUME link = "up"
             PROVE  LastWord'
  OBVIOUS
<1>1. Set(s) \in Updates /\ \A c \in Captures : Image(c) \in Updates
  BY UpdateTypes
<1>2. CASE Emit(<<Set(s)>>)
  <2>1. PICK u : u = <<Set(s)>>
    OBVIOUS
  <2>2. u \in Seq(Updates) /\ Len(u) = 1 /\ u[1] = Set(s)
    BY <1>1, <2>1
  <2>3. 1 \in 1 .. Len(u) /\ \A j \in 1 + 1 .. Len(u) : ~Speaks(u[j])
    BY <2>2
  <2>4. QED
    BY <1>2, <2>1, <2>2, <2>3, OneWord, WordEmitted
<1>3. ASSUME NEW c \in Captures, Emit(<<Image(c), Set(s)>>)
      PROVE  LastWord'
  <2>1. PICK u : u = <<Image(c), Set(s)>>
    OBVIOUS
  <2>2. u \in Seq(Updates) /\ Len(u) = 2 /\ u[2] = Set(s)
    BY <1>1, <2>1
  <2>3. 2 \in 1 .. Len(u) /\ \A j \in 2 + 1 .. Len(u) : ~Speaks(u[j])
    BY <2>2
  <2>4. QED
    BY <1>3, <2>1, <2>2, <2>3, OneWord, WordEmitted
<1>4. ASSUME NEW c \in Captures, Emit(<<Set(s), Image(c)>>)
      PROVE  LastWord'
  <2>1. PICK u : u = <<Set(s), Image(c)>>
    OBVIOUS
  <2>2. u \in Seq(Updates) /\ Len(u) = 2 /\ u[1] = Set(s) /\ u[2] = Image(c)
    BY <1>1, <2>1
  <2>3. 1 \in 1 .. Len(u) /\ \A j \in 1 + 1 .. Len(u) : ~Speaks(u[j])
    BY <2>2, OneWord
  <2>4. Emit(u) /\ Tells(u[1], devState')
    BY <1>4, <2>1, <2>2, OneWord
  <2>5. QED
    BY <2>2, <2>3, <2>4, WordEmitted
<1>5. QED
  BY <1>2, <1>3, <1>4 DEF EmitIfUp

LEMMA StateStep == TypeOK /\ StateInv /\ [Next]_vars => StateInv'
<1> SUFFICES ASSUME TypeOK, StateInv, [Next]_vars
             PROVE  StateInv'
  OBVIOUS
<1>1. ASSUME UNCHANGED <<expState, fromDevice, device, devState, link>>
      PROVE  StateInv'
  BY <1>1 DEF StateInv, LastWord, SilentFrom
<1>2. ASSUME NEW s \in PropertyStates, devState' = s, s = "busy" <=> device' # None,
             UNCHANGED link,
             \/ EmitIfUp(<<Set(s)>>)
             \/ \E c \in Captures : \/ EmitIfUp(<<Image(c), Set(s)>>)
                                    \/ EmitIfUp(<<Set(s), Image(c)>>)
      PROVE  StateInv'
  BY <1>2, StateEmitted DEF StateInv
<1>3. CASE StartExposure
  <2>1. PICK c : c # None /\ DeviceStart(c)
    BY <1>3, BoundsAssumption DEF StartExposure, TypeOK, Captures, None
  <2>2. UNCHANGED <<expState, link>>
    BY <1>3 DEF StartExposure
  <2>3. QED
    BY <1>1, <1>2, <2>1, <2>2
       DEF DeviceStart, EmitIfUp, PropertyStates, StateInv
<1>4. ASSUME NEW a \in Aborters, AbortExposure(a)
      PROVE  StateInv'
  BY <1>1, <1>2, <1>4 DEF AbortExposure, DeviceAbort, EmitIfUp, PropertyStates
<1>5. CASE Read
  <2>1. ASSUME NEW u, Receive(u),
               Speaks(u) => Tells(u, expState'),
               ~Speaks(u) => UNCHANGED expState
        PROVE  StateInv'
    <3>1. UNCHANGED <<device, devState, link>>
      BY <2>1 DEF Receive
    <3>2. QED
      BY <2>1, <3>1, WordRead DEF StateInv
  <2>2. ASSUME NEW s \in PropertyStates, Receive(Set(s)) \/ Receive(Def(s)), expState' = s
        PROVE  StateInv'
    BY <2>1, <2>2, OneWord DEF Speaks
  <2>3. ASSUME NEW c \in Captures, Receive(Image(c)), UNCHANGED expState
        PROVE  StateInv'
    BY <2>1, <2>3, OneWord
  <2>4. QED
    BY <1>5, <2>2, <2>3
       DEF Read, ReadDefinition, ReadUnremarkable, ReadAlert, ReadOk, ReadImage,
           ReadInvisibleImage, ReadVanishedImage, PropertyStates
<1>6. CASE DeviceFinishes
  <2>1. device \in Captures /\ device' = None /\ devState' = "ok" /\ UNCHANGED link
    BY <1>6 DEF DeviceFinishes, TypeOK
  <2>2. QED
    BY <1>2, <1>6, <2>1 DEF DeviceFinishes, PropertyStates
<1>7. CASE DeviceFails
  BY <1>2, <1>7 DEF DeviceFails, PropertyStates
<1>8. CASE LinkLost
  BY <1>8 DEF LinkLost, StateInv
<1>9. CASE LinkRestored
  <2>1. /\ fromDevice' = <<Def(devState)>> /\ UNCHANGED <<device, devState>>
        /\ Len(fromDevice') = 1 /\ fromDevice'[1] = Def(devState')
    BY <1>9 DEF LinkRestored
  <2>2. SilentFrom(2)'
    BY <2>1 DEF SilentFrom
  <2>3. LastWord'
    BY <2>1, <2>2, OneWord DEF LastWord
  <2>4. QED
    BY <2>1, <2>3 DEF StateInv
<1>10. QED
  BY <1>1, <1>3, <1>4, <1>5, <1>6, <1>7, <1>8, <1>9
     DEF Next, vars, camera, StartReturns, StartRaises, AbortReturns, AbortRaises,
         AbortPublished, ReaderPublished

\* Whatever was lost with a link, aborted or rejected: when everything has been
\* read the adapter has the server's exposure state, and so the end of an exposure
\* that the camera is making will be a change of it, which is what is notified.
THEOREM EndsAreNotified == Spec => []EndWillBeNotified
<1>1. Init => StateInv
  <2> SUFFICES ASSUME Init
               PROVE  StateInv
    OBVIOUS
  <2>1. Len(fromDevice) = 0
    BY EmptySeq DEF Init
  <2>2. QED
    BY <2>1 DEF Init, StateInv, LastWord, SilentFrom
<1>2. StateInv => EndWillBeNotified
  <2> SUFFICES ASSUME StateInv, link = "up", fromDevice = <<>>
               PROVE  expState = devState /\ (device # None => expState = "busy")
    BY DEF EndWillBeNotified
  <2>1. Len(fromDevice) = 0
    BY EmptySeq
  <2>2. QED
    BY <2>1 DEF StateInv, LastWord
<1>3. QED
  BY <1>1, <1>2, StateStep, TypeCorrect, PTL DEF Spec

-----------------------------------------------------------------------------
(* The life of a capture: why CompletedNeverExposesAgain is inductive.  A   *)
(* start call that is still suspended could yet make its capture exposing,  *)
(* so a capture must not be completed before its start has returned; only   *)
(* an exposing one is, and a capture is exposing only after that.           *)
Life(c) ==
    /\ c > current => /\ status[c] = "unborn" /\ starting[c] = "no"
                      /\ announced[c] = {} /\ file[c] = None
    /\ status[c] = "exposing" => starting[c] = "no"
    /\ "completed" \in announced[c] => status[c] \in Terminal /\ starting[c] = "no"
    /\ file[c] # None => "completed" \in announced[c]

LifeInv == \A c \in Captures : Life(c)

\* The types that the proofs about captures use, the queue's aside.
CaptureTypes ==
    /\ status \in [Captures -> CaptureStatus]
    /\ file \in [Captures -> Captures \cup {None}]
    /\ announced \in [Captures -> SUBSET (Terminal \cup {"started"})]
    /\ starting \in [Captures -> SendStages]
    /\ current \in Nat
    /\ \A c \in Captures : c \in Nat \ {0}

LEMMA TypeOKCaptures == TypeOK => CaptureTypes
BY BoundsAssumption DEF TypeOK, CaptureTypes, Captures, None

\* Completing or failing the current capture fits into its life.
LEMMA LifeHandled ==
    ASSUME CaptureTypes, LifeInv, UNCHANGED starting,
           \/ FailCurrent
           \/ \E ok \in BOOLEAN, i \in Captures \cup {None} : TryComplete(ok, i)
    PROVE  LifeInv'
<1> USE DEF CaptureTypes, LifeInv, Life, Announce, Terminal
<1>1. CASE FailCurrent
  BY <1>1 DEF FailCurrent, service
<1>2. ASSUME NEW ok \in BOOLEAN, NEW i \in Captures \cup {None}, TryComplete(ok, i)
      PROVE  LifeInv'
  BY <1>2 DEF TryComplete, Exposing
<1>3. QED
  BY <1>1, <1>2

LEMMA LifeStep == TypeOK /\ LifeInv /\ [Next]_vars => LifeInv'
<1> SUFFICES ASSUME TypeOK, LifeInv, [Next]_vars
             PROVE  LifeInv'
  OBVIOUS
<1>0. CaptureTypes
  BY TypeOKCaptures
<1>1. CASE StartExposure
  BY <1>0, <1>1
     DEF StartExposure, CaptureTypes, LifeInv, Life
<1>2. ASSUME NEW c \in Captures, StartReturns(c) \/ StartRaises(c)
      PROVE  LifeInv'
  BY <1>0, <1>2
     DEF StartReturns, StartRaises, CaptureTypes, LifeInv, Life, Announce, Terminal
<1>3. ASSUME NEW a \in Aborters, AbortReturns(a)
      PROVE  LifeInv'
  BY <1>0, <1>3
     DEF AbortReturns, CaptureTypes, LifeInv, Life, Announce, Terminal
<1>4. CASE Read
  <2>1. UNCHANGED starting
    BY <1>4 DEF Read, ReadDefinition, ReadUnremarkable, ReadAlert, ReadOk, ReadImage,
                ReadInvisibleImage, ReadVanishedImage, Receive
  <2>2. CASE UNCHANGED service
    BY <2>1, <2>2 DEF service, LifeInv, Life
  <2>3. QED
    BY <1>0, <1>4, <2>1, <2>2, LifeHandled
       DEF Read, ReadDefinition, ReadUnremarkable, ReadAlert, ReadOk, ReadImage,
           ReadInvisibleImage, ReadVanishedImage, TypeOK
<1>5. CASE UNCHANGED <<status, file, current, announced>>
           /\ \A c \in Captures : (starting'[c] = "no") = (starting[c] = "no")
  BY <1>5 DEF LifeInv, Life
<1>6. CASE LinkLost
  BY <1>0, <1>5, <1>6 DEF LinkLost, service, CaptureTypes
<1>7. QED
  BY <1>1, <1>2, <1>3, <1>4, <1>5, <1>6
     DEF Next, vars, service, AbortExposure, AbortRaises, AbortPublished,
         ReaderPublished, DeviceFinishes, DeviceFails, LinkRestored

LEMMA LifeInit == Init => LifeInv
BY DEF Init, LifeInv, Life

\* However starts, aborts, link losses and late notifications interleave, a
\* capture that was announced completed does not come back to life.
THEOREM CompletedStaysCompleted == Spec => []CompletedNeverExposesAgain
<1>1. LifeInv => CompletedNeverExposesAgain
  BY DEF LifeInv, Life, CompletedNeverExposesAgain
<1>2. QED
  BY <1>1, LifeInit, LifeStep, TypeCorrect, PTL DEF Spec

-----------------------------------------------------------------------------
(* The flags.  While a handler is in its publication, the flags belong to   *)
(* the capture that it has completed or failed, or are empty: a new start   *)
(* empties them, and the read loop is not there to fill them.               *)
HandledOrEmpty ==
    reader = "publishing" =>
        /\ current # None
        /\ \/ "completed" \in announced[current]
           \/ "failed" \in announced[current]
           \/ ~okReceived /\ pendingImage = None

LEMMA FlagsStep ==
    TypeOK /\ LifeInv /\ HandledOrEmpty /\ [Next]_vars => HandledOrEmpty'
<1> SUFFICES ASSUME TypeOK, LifeInv, HandledOrEmpty, [Next]_vars
             PROVE  HandledOrEmpty'
  OBVIOUS
<1> USE DEF HandledOrEmpty
<1>0. CaptureTypes /\ None \notin Captures /\ current \in Captures \cup {None}
  BY TypeOKCaptures, NoneIsNoCapture DEF TypeOK
<1>1. CASE StartExposure
  BY <1>0, <1>1 DEF StartExposure, ClearFlags, CaptureTypes, None
<1>2. ASSUME NEW c \in Captures, StartReturns(c)
      PROVE  HandledOrEmpty'
  BY <1>0, <1>2 DEF StartReturns, Announce, CaptureTypes
<1>3. ASSUME NEW a \in Aborters, AbortReturns(a) \/ AbortPublished(a)
      PROVE  HandledOrEmpty'
  BY <1>0, <1>3 DEF AbortReturns, AbortPublished, ClearFlags, Announce, CaptureTypes
<1>4. CASE Read
  <2>1. \A u : Receive(u) => reader = "idle"
    BY DEF Receive
  <2>2. CASE UNCHANGED reader
    BY <1>4, <2>1, <2>2
       DEF Read, ReadDefinition, ReadUnremarkable, ReadAlert, ReadOk, ReadImage,
           ReadInvisibleImage, ReadVanishedImage
  <2>3. ASSUME FailCurrent
        PROVE  HandledOrEmpty'
    BY <1>0, <2>2, <2>3 DEF FailCurrent, Announce, CaptureTypes, service
  <2>4. ASSUME NEW ok, NEW i, TryComplete(ok, i)
        PROVE  HandledOrEmpty'
    BY <1>0, <2>2, <2>4 DEF TryComplete, Exposing, Announce, CaptureTypes
  <2>5. QED
    BY <1>4, <2>2, <2>3, <2>4
       DEF Read, ReadDefinition, ReadUnremarkable, ReadAlert, ReadOk, ReadImage,
           ReadInvisibleImage, ReadVanishedImage
<1>5. CASE ReaderPublished
  BY <1>5 DEF ReaderPublished
<1>6. CASE UNCHANGED <<announced, current, okReceived, pendingImage, reader>>
  BY <1>6
<1>7. QED
  BY <1>1, <1>2, <1>3, <1>4, <1>5, <1>6
     DEF Next, vars, service, StartRaises, AbortExposure, AbortRaises,
         DeviceFinishes, DeviceFails, LinkLost, LinkRestored

\* The flags that a handler clears when its publication returns hold nothing of
\* an exposure that was started meanwhile.
THEOREM ReaderResetIsHarmless == Spec => []ReaderResetLosesNothing
<1>1. TypeOK /\ LifeInv /\ HandledOrEmpty => ReaderResetLosesNothing
  BY DEF LifeInv, Life, TypeOK, HandledOrEmpty, ReaderResetLosesNothing, Exposing, Terminal
<1>2. Init => HandledOrEmpty
  BY DEF Init, HandledOrEmpty
<1>3. QED
  BY <1>1, <1>2, FlagsStep, LifeInit, LifeStep, TypeCorrect, PTL DEF Spec

-----------------------------------------------------------------------------
(* The images.  An image travels from the camera through the queue and      *)
(* pendingImage to the file of a capture.  At every place it is newer than  *)
(* what is further on and older than what is further back, because the      *)
(* camera makes one exposure after the other, the queue keeps the order,    *)
(* and a start clears pendingImage.                                         *)
ToCome(k) == pendingImage < k /\ \A c \in Captures : file[c] < k

\* The image pending is newer than every file, or has just become the newest.
PendingIsNewest ==
    pendingImage # None => \A c \in Captures :
        file[c] < pendingImage \/ (c = current /\ file[c] = pendingImage)

\* What the image k has ahead and behind, when it is the update number i.
InTurn(i, k) ==
    /\ k <= current /\ ToCome(k)
    /\ device # None => k < device
    /\ \A j \in i + 1 .. Len(fromDevice), l \in Captures : fromDevice[j] = Image(l) => k < l

QueueInTurn ==
    \A i \in 1 .. Len(fromDevice), k \in Captures : fromDevice[i] = Image(k) => InTurn(i, k)

ImageInv ==
    /\ device <= current /\ pendingImage <= current
    /\ device # None => ToCome(device)
    /\ PendingIsNewest
    /\ QueueInTurn
    /\ ImagesInOrder

ImageTypes ==
    /\ CaptureTypes /\ current \in Captures \cup {None}
    /\ device \in Captures \cup {None} /\ pendingImage \in Captures \cup {None}
    /\ fromDevice \in Seq(Updates) /\ Len(fromDevice) \in Nat

LEMMA TypeOKImages == TypeOK => ImageTypes
BY TypeOKCaptures, LenProperties DEF TypeOK, ImageTypes, None

LEMMA TypeOKImagesNext == TypeOK' => ImageTypes'
BY TypeOKImages, PTL

LEMMA ImageInit == Init => ImageInv
<1> SUFFICES ASSUME Init
             PROVE  ImageInv
  OBVIOUS
<1>1. Len(fromDevice) = 0
  BY EmptySeq DEF Init
<1>2. QED
  BY <1>1, BoundsAssumption
     DEF Init, ImageInv, PendingIsNewest, QueueInTurn, ImagesInOrder, None, Captures

\* Reading an update moves the others forward; its handler may take what is newest
\* so far, but nothing newer than the images that remain.
LEMMA QueueAdvances ==
    ASSUME ImageTypes, QueueInTurn, UNCHANGED <<current, device>>, NEW u, Receive(u),
           \A i \in 1 .. Len(fromDevice'), k \in Captures :
               fromDevice'[i] = Image(k) /\ ToCome(k) => ToCome(k)'
    PROVE  QueueInTurn'
<1> USE DEF ImageTypes, QueueInTurn, InTurn
<1> SUFFICES ASSUME NEW i \in 1 .. Len(fromDevice'), NEW k \in Captures,
                    fromDevice'[i] = Image(k)
             PROVE  InTurn(i, k)'
  OBVIOUS
<1>1. /\ i \in Nat /\ Len(fromDevice') \in Nat /\ Len(fromDevice') = Len(fromDevice) - 1
      /\ \A j \in 1 .. Len(fromDevice') : fromDevice'[j] = fromDevice[j + 1]
  BY Received, LenProperties
<1>2. InTurn(i + 1, k)
  BY <1>1
<1>3. ASSUME NEW j \in i + 1 .. Len(fromDevice'), NEW l \in Captures,
             fromDevice'[j] = Image(l)
      PROVE  k < l
  <2>1. j + 1 \in (i + 1) + 1 .. Len(fromDevice) /\ fromDevice[j + 1] = Image(l)
    BY <1>1, <1>3
  <2>2. QED
    BY <1>2, <2>1
<1>4. QED
  BY <1>2, <1>3

\* The image that is read is the next one, and those behind it are newer.
LEMMA ImageRead ==
    ASSUME ImageTypes, QueueInTurn, NEW c \in Captures, Receive(Image(c))
    PROVE  /\ c <= current /\ ToCome(c) /\ (device # None => c < device)
           /\ \A i \in 1 .. Len(fromDevice'), k \in Captures :
                 fromDevice'[i] = Image(k) => c < k
<1>1. /\ Len(fromDevice) \in Nat /\ Len(fromDevice') = Len(fromDevice) - 1
      /\ Len(fromDevice) > 0 /\ fromDevice[1] = Image(c)
      /\ \A j \in 1 .. Len(fromDevice') : fromDevice'[j] = fromDevice[j + 1]
  BY Received, LenProperties DEF ImageTypes
<1>2. InTurn(1, c)
  BY <1>1 DEF QueueInTurn
<1>3. ASSUME NEW i \in 1 .. Len(fromDevice'), NEW k \in Captures, fromDevice'[i] = Image(k)
      PROVE  c < k
  <2>1. i + 1 \in 1 + 1 .. Len(fromDevice) /\ fromDevice[i + 1] = Image(k)
    BY <1>1, <1>3
  <2>2. QED
    BY <1>2, <2>1 DEF InTurn
<1>4. QED
  BY <1>2, <1>3 DEF InTurn

\* Updates that are no images come in, or updates are lost at the end.
NoImageAdded ==
    \A i \in 1 .. Len(fromDevice'), k \in Captures :
        fromDevice'[i] = Image(k) => i \in 1 .. Len(fromDevice) /\ fromDevice[i] = Image(k)

LEMMA StatesAreNoImages ==
    ASSUME ImageTypes
    PROVE  /\ \A s \in PropertyStates : Emit(<<Set(s)>>) => NoImageAdded
           /\ LinkLost => NoImageAdded
           /\ UNCHANGED fromDevice => NoImageAdded
           /\ LinkRestored => NoImageAdded
<1>1. ASSUME NEW s \in PropertyStates, Emit(<<Set(s)>>)
      PROVE  NoImageAdded
  <2> DEFINE u == <<Set(s)>>
  <2>1. u \in Seq(Updates) /\ Len(u) = 1 /\ u[1] = Set(s)
    BY UpdateTypes
  <2>2. Emit(u)
    BY <1>1
  <2>3. /\ Len(fromDevice) \in Nat /\ Len(fromDevice') = Len(fromDevice) + 1
        /\ \A i \in 1 .. Len(fromDevice) : fromDevice'[i] = fromDevice[i]
        /\ fromDevice'[Len(fromDevice) + 1] = Set(s)
    <3> HIDE DEF u
    <3>1. /\ Len(fromDevice') = Len(fromDevice) + Len(u)
          /\ \A i \in 1 .. Len(fromDevice) : fromDevice'[i] = fromDevice[i]
          /\ \A i \in 1 .. Len(u) : fromDevice'[Len(fromDevice) + i] = u[i]
      BY <2>1, <2>2, Emitted DEF ImageTypes
    <3>2. 1 \in 1 .. Len(u)
      BY <2>1
    <3>3. QED
      BY <2>1, <3>1, <3>2 DEF ImageTypes
  <2>4. QED
    BY <2>3, UpdatesDiffer DEF NoImageAdded
<1>2. LinkLost => NoImageAdded
  BY CutOff, LenProperties DEF ImageTypes, NoImageAdded
<1>3. UNCHANGED fromDevice => NoImageAdded
  BY DEF NoImageAdded
<1>4. LinkRestored => NoImageAdded
  BY UpdatesDiffer DEF LinkRestored, NoImageAdded
<1>5. QED
  BY <1>1, <1>2, <1>3, <1>4

\* The images stay in turn if none is added, and a new exposure is newer.
LEMMA QueueStays ==
    ASSUME ImageTypes, ImageTypes', QueueInTurn, NoImageAdded, UNCHANGED file,
           current' >= current, pendingImage' \in {pendingImage, None},
           device' \in {device, None} \/ device' > current
    PROVE  QueueInTurn'
<1> SUFFICES ASSUME NEW i \in 1 .. Len(fromDevice'), NEW k \in Captures,
                    fromDevice'[i] = Image(k)
             PROVE  InTurn(i, k)'
  BY DEF QueueInTurn
<1>1. i \in 1 .. Len(fromDevice) /\ fromDevice[i] = Image(k) /\ InTurn(i, k)
  BY DEF NoImageAdded, QueueInTurn
<1>2. k \in Nat \ {0} /\ current \in Nat /\ current' \in Nat /\ pendingImage' \in Nat
      /\ device' \in Nat
  BY DEF ImageTypes, CaptureTypes, None
<1>3. k <= current' /\ ToCome(k)' /\ (device' # None => k < device')
  BY <1>1, <1>2 DEF InTurn, ToCome, ImageTypes, CaptureTypes, None
<1>4. ASSUME NEW j \in i + 1 .. Len(fromDevice'), NEW l \in Captures,
             fromDevice'[j] = Image(l)
      PROVE  k < l
  <2>1. j \in 1 .. Len(fromDevice')
    BY <1>1
  <2>2. j \in i + 1 .. Len(fromDevice) /\ fromDevice[j] = Image(l)
    BY <1>1, <1>4, <2>1 DEF NoImageAdded
  <2>3. QED
    BY <1>1, <2>2 DEF InTurn
<1>5. QED
  BY <1>3, <1>4 DEF InTurn
\* The end of an exposure adds its image, which is the newest.
LEMMA ImageTaken ==
    ASSUME ImageTypes, ImageInv, DeviceFinishes
    PROVE  QueueInTurn'
<1> DEFINE n == Len(fromDevice)
<1>1. /\ device \in Captures /\ device' = None /\ n \in Nat
      /\ UNCHANGED <<current, pendingImage, file>>
  BY DEF DeviceFinishes, service, ImageTypes
<1>2. CASE UNCHANGED fromDevice
  <2>1. ImageTypes' /\ current' >= current
    BY <1>1, <1>2 DEF ImageTypes, CaptureTypes, None, DeviceFinishes, service
  <2>2. QED
    BY <1>1, <1>2, <2>1, StatesAreNoImages, QueueStays DEF ImageInv
<1>3. ASSUME NEW u \in Seq(Updates), Emit(u), Len(u) = 2,
             NEW k \in 1 .. 2, u[k] = Image(device), u[3 - k] = Set("ok")
      PROVE  QueueInTurn'
  <2>1. /\ Len(fromDevice') = n + 2
        /\ \A i \in 1 .. n : fromDevice'[i] = fromDevice[i]
        /\ \A i \in 1 .. Len(u) : fromDevice'[n + i] = u[i]
    BY <1>3, Emitted DEF ImageTypes
  <2>2. fromDevice'[n + k] = Image(device) /\ fromDevice'[n + (3 - k)] = Set("ok")
    <3>1. k \in 1 .. Len(u) /\ 3 - k \in 1 .. Len(u)
      BY <1>3
    <3>2. QED
      BY <1>3, <2>1, <3>1
  <2>3. ASSUME NEW j \in 1 .. Len(fromDevice'), NEW l \in Captures, fromDevice'[j] = Image(l)
        PROVE  \/ j \in 1 .. n /\ fromDevice[j] = Image(l)
               \/ j = n + k /\ l = device
    <3>1. j \in 1 .. n \/ j = n + k \/ j = n + (3 - k)
      BY <1>1, <1>3, <2>1, <2>3
    <3>2. QED
      BY <2>1, <2>2, <2>3, <3>1, UpdatesDiffer
  <2> SUFFICES ASSUME NEW i \in 1 .. Len(fromDevice'), NEW c \in Captures,
                      fromDevice'[i] = Image(c)
               PROVE  InTurn(i, c)'
    BY DEF QueueInTurn
  <2>4. CASE i \in 1 .. n /\ fromDevice[i] = Image(c)
    <3>1. InTurn(i, c) /\ c < device
      BY <1>1, <2>4, NoneIsNoCapture DEF ImageInv, QueueInTurn, InTurn
    <3>2. QED
      BY <1>1, <1>3, <2>3, <3>1 DEF InTurn, ToCome
  <2>5. CASE i = n + k /\ c = device
    <3>1. ToCome(c) /\ c <= current
      BY <1>1, <2>5, NoneIsNoCapture DEF ImageInv
    <3>2. \A j \in i + 1 .. Len(fromDevice'), l \in Captures : fromDevice'[j] # Image(l)
      BY <1>1, <1>3, <2>1, <2>3, <2>5
    <3>3. QED
      BY <1>1, <3>1, <3>2 DEF InTurn, ToCome
  <2>6. QED
    BY <2>3, <2>4, <2>5
<1>4. PICK u \in {<<Image(device), Set("ok")>>, <<Set("ok"), Image(device)>>} : EmitIfUp(u)
  BY DEF DeviceFinishes
<1>5. u \in Seq(Updates) /\ Len(u) = 2
  <2>1. Image(device) \in Updates /\ Set("ok") \in Updates
    BY <1>1, UpdateTypes DEF PropertyStates
  <2>2. CASE u = <<Image(device), Set("ok")>>
    BY <2>1, <2>2
  <2>3. CASE u = <<Set("ok"), Image(device)>>
    BY <2>1, <2>3
  <2>4. QED
    BY <1>4, <2>2, <2>3
<1>6. \E k \in 1 .. 2 : u[k] = Image(device) /\ u[3 - k] = Set("ok")
  <2>1. CASE u = <<Image(device), Set("ok")>>
    <3>1. u[1] = Image(device) /\ u[3 - 1] = Set("ok")
      BY <2>1
    <3>2. QED
      BY <3>1
  <2>2. CASE u = <<Set("ok"), Image(device)>>
    <3>1. u[2] = Image(device) /\ u[3 - 2] = Set("ok")
      BY <2>2
    <3>2. QED
      BY <3>1
  <2>3. QED
    BY <1>4, <2>1, <2>2
<1>7. QED
  BY <1>2, <1>3, <1>4, <1>5, <1>6 DEF EmitIfUp

\* The image read becomes the pending one, newer than all files; completing the
\* current capture with it, or with the one that was pending, keeps the order.
LEMMA ImageHandled ==
    ASSUME ImageTypes, LifeInv, NEW ok, NEW i \in Captures \cup {None}, TryComplete(ok, i),
           i <= current, ImagesInOrder,
           i # None => \A c \in Captures : file[c] < i \/ (c = current /\ file[c] = i)
    PROVE  /\ ImagesInOrder' /\ PendingIsNewest'
           /\ \A k \in Nat : i < k /\ (\A c \in Captures : file[c] < k) => ToCome(k)'
<1>1. current \in Nat /\ current' = current /\ pendingImage' = i
      /\ \A c \in Captures : c \in Nat \ {0}
      /\ file \in [Captures -> Captures \cup {None}]
  BY DEF TryComplete, ImageTypes, CaptureTypes, None
<1>2. CASE UNCHANGED file
  BY <1>1, <1>2 DEF ImagesInOrder, PendingIsNewest, ToCome
<1>3. CASE /\ i # None /\ status[current] = "exposing" /\ current \in Captures
           /\ file' = [file EXCEPT ![current] = i]
  <2>1. file[current] = None /\ \A c \in Captures : c > current => file[c] = None
    BY <1>1, <1>3 DEF LifeInv, Life, Terminal
  <2>2. \A c \in Captures : file[c] < i
    BY <1>1, <1>3, <2>1
  <2>3. QED
    BY <1>1, <1>3, <2>1, <2>2 DEF ImagesInOrder, PendingIsNewest, ToCome
<1>4. QED
  BY <1>2, <1>3 DEF TryComplete, Exposing, ImageTypes
\* Nothing new comes in and no image is given to a capture.
LEMMA ImageQuiet ==
    ASSUME ImageTypes, ImageTypes', ImageInv, NoImageAdded, UNCHANGED <<file, current>>,
           pendingImage' \in {pendingImage, None}, device' \in {device, None}
    PROVE  ImageInv'
<1>1. QueueInTurn'
  BY QueueStays DEF ImageInv, ImageTypes, CaptureTypes, None
<1>2. QED
  BY <1>1 DEF ImageInv, ImageTypes, CaptureTypes, None, PendingIsNewest, ImagesInOrder, ToCome

LEMMA ImageStart ==
    ASSUME TypeOK, TypeOK', LifeInv, ImageInv, StartExposure
    PROVE  ImageInv'
<1>1. ImageTypes /\ ImageTypes'
  BY TypeOKImages, TypeOKImagesNext
<1>2. /\ current' = current + 1 /\ pendingImage' = None
      /\ UNCHANGED file /\ device' \in {device, current'}
  BY DEF StartExposure, ClearFlags, DeviceStart
<1>3. NoImageAdded
  BY <1>1, StatesAreNoImages DEF StartExposure, DeviceStart, PropertyStates
<1>4. QueueInTurn'
  BY <1>1, <1>2, <1>3, QueueStays DEF ImageInv, ImageTypes, CaptureTypes, None
<1>5. ASSUME NEW c \in Captures
      PROVE  file[c] <= current /\ file[c] \in Nat
  <2>0. /\ \A d \in Captures : d \in Nat \ {0}
        /\ current \in Nat
        /\ file \in [Captures -> Captures \cup {None}]
    BY <1>1 DEF ImageTypes, CaptureTypes, None
  <2>1. c \in Nat /\ file[c] \in Nat
    BY <2>0 DEF None
  <2>2. file[c] <= c /\ (c > current => file[c] = None)
    BY DEF LifeInv, Life, ImageInv, ImagesInOrder
  <2>3. QED
    BY <2>0, <2>1, <2>2 DEF None
<1>6. /\ \A c \in Captures : c \in Nat \ {0}
      /\ current \in Nat
      /\ device \in Nat /\ device' \in Nat
  BY <1>1 DEF ImageTypes, CaptureTypes, None
<1>7. device' # None => ToCome(device)'
  <2>1. CASE device' = current'
    BY <1>2, <1>5, <1>6, <2>1 DEF ToCome, None
  <2>2. CASE device' = device
    BY <1>2, <1>6, <2>2 DEF ImageInv, ToCome, None
  <2>3. QED
    BY <1>2, <2>1, <2>2
<1>8. QED
  BY <1>2, <1>4, <1>6, <1>7 DEF ImageInv, PendingIsNewest, ImagesInOrder, None

LEMMA ImageReadStep ==
    ASSUME TypeOK, TypeOK', LifeInv, ImageInv, Read
    PROVE  ImageInv'
<1>0. ImageTypes /\ ImageTypes'
  BY TypeOKImages, TypeOKImagesNext
<1>1. ASSUME NEW u, Receive(u), UNCHANGED <<file, current, pendingImage>>
      PROVE  ImageInv'
  <2>1. UNCHANGED device /\ \A k : ToCome(k) => ToCome(k)'
    BY <1>1 DEF Receive, ToCome
  <2>2. QueueInTurn'
    BY <1>0, <1>1, <2>1, QueueAdvances DEF ImageInv
  <2>3. QED
    BY <1>1, <2>1, <2>2 DEF ImageInv, PendingIsNewest, ImagesInOrder
<1>2. ASSUME NEW u, Receive(u), NEW ok, TryComplete(ok, pendingImage)
      PROVE  ImageInv'
  <2>1. /\ UNCHANGED <<device, current, pendingImage>>
        /\ pendingImage \in Captures \cup {None} /\ pendingImage <= current
    BY <1>0, <1>2 DEF Receive, TryComplete, ImageInv, ImageTypes
  <2>2. /\ ImagesInOrder' /\ PendingIsNewest'
        /\ \A k \in Nat : pendingImage < k /\ (\A c \in Captures : file[c] < k) => ToCome(k)'
    BY <1>0, <1>2, <2>1, ImageHandled DEF ImageInv, PendingIsNewest
  <2>3. \A k \in Captures : ToCome(k) => ToCome(k)'
    BY <1>0, <2>2 DEF ToCome, ImageTypes, CaptureTypes, None
  <2>4. QueueInTurn'
    BY <1>0, <1>2, <2>1, <2>3, QueueAdvances DEF ImageInv
  <2>5. QED
    BY <1>0, <2>1, <2>2, <2>3, <2>4 DEF ImageInv, ImageTypes
<1>3. ASSUME NEW i \in Captures, Receive(Image(i)), NEW ok, TryComplete(ok, i)
      PROVE  ImageInv'
  <2>1. UNCHANGED <<device, current>> /\ pendingImage' = i
    BY <1>3 DEF Receive, TryComplete
  <2>2. /\ i <= current /\ ToCome(i) /\ (device # None => i < device)
        /\ \A j \in 1 .. Len(fromDevice'), k \in Captures :
              fromDevice'[j] = Image(k) => i < k
    BY <1>0, <1>3, ImageRead DEF ImageInv
  <2>3. /\ ImagesInOrder' /\ PendingIsNewest'
        /\ \A k \in Nat : i < k /\ (\A c \in Captures : file[c] < k) => ToCome(k)'
    BY <1>0, <1>3, <2>2, ImageHandled DEF ImageInv, ToCome
  <2>4. \A k \in Captures : i < k /\ ToCome(k) => ToCome(k)'
    BY <1>0, <2>3 DEF ToCome, ImageTypes, CaptureTypes, None
  <2>5. QueueInTurn'
    BY <1>0, <1>3, <2>1, <2>2, <2>4, QueueAdvances DEF ImageInv
  <2>6. QED
    BY <1>0, <2>1, <2>2, <2>3, <2>4, <2>5 DEF ImageInv, ImageTypes
<1>4. CASE ReadDefinition \/ ReadUnremarkable \/ ReadInvisibleImage
  BY <1>1, <1>4 DEF ReadDefinition, ReadUnremarkable, ReadInvisibleImage, service
<1>5. CASE ReadAlert \/ ReadVanishedImage
  BY <1>1, <1>5 DEF ReadAlert, ReadVanishedImage, FailCurrent, service
<1>6. CASE ReadOk
  BY <1>2, <1>6 DEF ReadOk
<1>7. CASE ReadImage
  BY <1>3, <1>7 DEF ReadImage
<1>8. QED
  BY <1>4, <1>5, <1>6, <1>7 DEF Read

LEMMA ImageStep == TypeOK /\ LifeInv /\ ImageInv /\ [Next]_vars => ImageInv'
<1> SUFFICES ASSUME TypeOK, LifeInv, ImageInv, [Next]_vars
             PROVE  ImageInv'
  OBVIOUS
<1>0. TypeOK' /\ ImageTypes /\ ImageTypes'
  BY TypeStep, TypeOKImages, TypeOKImagesNext
<1>1. CASE StartExposure
  BY <1>0, <1>1, ImageStart
<1>2. CASE Read
  BY <1>0, <1>2, ImageReadStep
<1>3. CASE DeviceFinishes
  <2>1. QueueInTurn'
    BY <1>0, <1>3, ImageTaken
  <2>2. QED
    BY <1>0, <1>3, <2>1
       DEF ImageInv, DeviceFinishes, service, ToCome, PendingIsNewest, ImagesInOrder,
           ImageTypes, CaptureTypes, None
<1>4. ASSUME UNCHANGED <<file, current, fromDevice, device>>,
             pendingImage' \in {pendingImage, None}
      PROVE  ImageInv'
  BY <1>0, <1>4, StatesAreNoImages, ImageQuiet
<1>5. CASE \/ \E c \in Captures : StartReturns(c) \/ StartRaises(c)
           \/ \E a \in Aborters : AbortReturns(a) \/ AbortRaises(a) \/ AbortPublished(a)
           \/ ReaderPublished \/ UNCHANGED vars
  BY <1>4, <1>5
     DEF StartReturns, StartRaises, AbortReturns, AbortRaises, AbortPublished,
         ReaderPublished, vars, service, camera, ClearFlags
<1>6. ASSUME UNCHANGED <<file, current, pendingImage>>, NoImageAdded,
             device' \in {device, None}
      PROVE  ImageInv'
  BY <1>0, <1>6, ImageQuiet
<1>7. ASSUME NEW a \in Aborters, AbortExposure(a)
      PROVE  ImageInv'
  BY <1>0, <1>6, <1>7, StatesAreNoImages
     DEF AbortExposure, DeviceAbort, service, PropertyStates
<1>8. CASE DeviceFails
  BY <1>0, <1>6, <1>8, StatesAreNoImages
     DEF DeviceFails, EmitIfUp, service, PropertyStates
<1>9. CASE LinkLost \/ LinkRestored
  BY <1>0, <1>6, <1>9, StatesAreNoImages DEF LinkLost, LinkRestored, service
<1>10. QED
  BY <1>1, <1>2, <1>3, <1>5, <1>7, <1>8, <1>9 DEF Next

\* Whatever is interleaved, lost or late, no image is given to two captures, and
\* none to a capture older than the exposure that made it.
THEOREM ImagesKeepOrder == Spec => []ImagesInOrder
<1>1. ImageInv => ImagesInOrder
  BY DEF ImageInv
<1>2. QED
  BY <1>1, ImageInit, ImageStep, LifeInit, LifeStep, TypeCorrect, PTL DEF Spec

-----------------------------------------------------------------------------
(* Without aborts and with a link that holds and takes commands at once,    *)
(* the captures have a simple story.  A capture in progress waits for one   *)
(* decisive thing: the camera that exposes, then an alert or its image on   *)
(* the way, then the Ok after its image; a stale Ok of an earlier capture   *)
(* may be under way as well, but decides nothing by itself.                 *)
InProgress == current # None /\ status[current] \in {"pending", "exposing"}

Decisive(m) == m = Set("alert") \/ \E k \in Captures : m = Image(k)

Outstanding == {i \in 1 .. Len(fromDevice) : Decisive(fromDevice[i])}

Told(c) == IF status[c] \in {"unborn", "pending"} THEN {}
           ELSE IF status[c] = "exposing" THEN {"started"}
           ELSE {"started", status[c]}

Story(c) ==
    /\ c < current => status[c] \in {"completed", "failed"}
    /\ c = current => status[c] \in {"pending", "exposing", "completed", "failed"}
    /\ c > current => status[c] = "unborn"
    /\ starting[c] = IF status[c] = "pending" THEN "draining" ELSE "no"
    /\ announced[c] = Told(c)
    /\ file[c] = IF status[c] = "completed" THEN c ELSE None

OneDecisive ==
    /\ device # None =>
         device = current /\ InProgress /\ Outstanding = {} /\ pendingImage = None
    /\ \A i \in Outstanding :
         /\ InProgress /\ fromDevice[i] \in {Set("alert"), Image(current)}
         /\ \A j \in Outstanding : i = j
    /\ InProgress /\ pendingImage # None => pendingImage = current /\ Outstanding = {}

CalmInv == link = "up" /\ (\A c \in Captures : Story(c)) /\ OneDecisive

CalmTypes ==
    /\ CaptureTypes /\ current \in Captures \cup {None} /\ None \notin Captures
    /\ device \in Captures \cup {None} /\ pendingImage \in Captures \cup {None}

LEMMA TypeOKCalm == TypeOK => CalmTypes
BY TypeOKCaptures, NoneIsNoCapture DEF TypeOK, CalmTypes

LEMMA CalmInit == Init => CalmInv
<1> SUFFICES ASSUME Init
             PROVE  CalmInv
  OBVIOUS
<1>1. Len(fromDevice) = 0 /\ Outstanding = {}
  <2>1. Len(fromDevice) = 0
    BY EmptySeq DEF Init
  <2>2. QED
    BY <2>1 DEF Outstanding
<1>2. OneDecisive
  BY <1>1 DEF Init, OneDecisive, InProgress
<1>3. \A c \in Captures : Story(c)
  BY BoundsAssumption DEF Init, Story, Told, Captures, None
<1>4. QED
  BY <1>2, <1>3 DEF Init, CalmInv

\* What a request to start finds: nothing is in progress and nothing under way.
LEMMA CalmFree ==
    ASSUME SendSuspends = FALSE, CalmTypes, CalmInv, LoopFree
    PROVE  /\ \A c \in Captures : status[c] # "pending"
           /\ ~Exposing(current) => ~InProgress /\ device = None /\ Outstanding = {}
<1>1. ASSUME NEW c \in Captures
      PROVE  status[c] # "pending"
  BY DEF LoopFree, StartRuns, CalmInv, Story
<1>2. QED
  BY <1>1 DEF CalmTypes, CalmInv, OneDecisive, InProgress, Exposing

\* After an update has been read: if it was decisive, nothing else is; if not,
\* the decisive ones under way are those that were.
LEMMA CalmReceived ==
    ASSUME NEW M, fromDevice \in Seq(M), CalmTypes, CalmInv, NEW u, Receive(u)
    PROVE  /\ Decisive(u) =>
                /\ InProgress /\ u \in {Set("alert"), Image(current)}
                /\ Outstanding' = {} /\ device = None /\ pendingImage = None
           /\ \A i \in Outstanding' :
                /\ i + 1 \in Outstanding /\ fromDevice'[i] = fromDevice[i + 1]
<1>1. /\ Len(fromDevice) \in Nat /\ Len(fromDevice) > 0 /\ u = fromDevice[1]
      /\ Len(fromDevice') = Len(fromDevice) - 1
      /\ \A i \in 1 .. Len(fromDevice') : fromDevice'[i] = fromDevice[i + 1]
  BY Received, LenProperties
<1>2. ASSUME NEW i \in Outstanding'
      PROVE  i \in Nat \ {0} /\ i + 1 \in Outstanding /\ fromDevice'[i] = fromDevice[i + 1]
  <2>1. i \in 1 .. Len(fromDevice') /\ Decisive(fromDevice'[i])
    BY <1>2 DEF Outstanding, Decisive
  <2>2. QED
    BY <1>1, <2>1 DEF Outstanding
<1>3. ASSUME Decisive(u)
      PROVE  /\ InProgress /\ u \in {Set("alert"), Image(current)}
             /\ Outstanding' = {} /\ device = None /\ pendingImage = None
  <2>1. 1 \in Outstanding
    BY <1>1, <1>3 DEF Outstanding
  <2>2. /\ InProgress /\ u \in {Set("alert"), Image(current)}
        /\ \A j \in Outstanding : j = 1
    BY <1>1, <2>1 DEF CalmInv, OneDecisive
  <2>3. device = None /\ pendingImage = None
    BY <2>1, <2>2 DEF CalmInv, OneDecisive
  <2>4. Outstanding' = {}
    BY <1>2, <2>2
  <2>5. QED
    BY <2>2, <2>3, <2>4
<1>4. QED
  BY <1>2, <1>3

\* The decisive update is read: the capture in progress takes or fails by it.
LEMMA CalmDecided ==
    ASSUME SendSuspends = FALSE, CalmTypes, CalmInv, UNCHANGED <<starting, device, link>>,
           LoopFree, InProgress, Outstanding' = {}, device = None,
           \/ FailCurrent
           \/ \E ok \in BOOLEAN : TryComplete(ok, current)
    PROVE  CalmInv'
<1>1. \A c \in Captures : status[c] # "pending"
  BY CalmFree
<1>2. current \in Captures /\ status[current] = "exposing" /\ current' = current
  BY <1>1 DEF InProgress, CalmTypes, FailCurrent, TryComplete
<1>3. OneDecisive'
  <2>1. InProgress' => pendingImage' = current'
    BY <1>2 DEF InProgress, FailCurrent, TryComplete, CalmTypes, CaptureTypes
  <2>2. QED
    BY <2>1 DEF OneDecisive
<1>4. ASSUME NEW c \in Captures
      PROVE  Story(c)'
  <2>1. Story(c) /\ Story(current)
    BY <1>2 DEF CalmInv
  <2>2. CASE FailCurrent
    <3>1. CASE c = current
      BY <1>1, <1>2, <2>1, <2>2, <3>1
         DEF Story, Told, FailCurrent, Announce, CalmTypes, CaptureTypes
    <3>2. CASE c # current
      BY <1>1, <1>2, <2>1, <2>2, <3>2
         DEF Story, Told, FailCurrent, Announce, CalmTypes, CaptureTypes
    <3>3. QED
      BY <3>1, <3>2
  <2>3. ASSUME NEW ok \in BOOLEAN, TryComplete(ok, current)
        PROVE  Story(c)'
    BY <1>1, <1>2, <2>1, <2>3
       DEF Story, Told, TryComplete, Announce, CalmTypes, CaptureTypes
  <2>4. QED
    BY <2>2, <2>3
<1>5. QED
  BY <1>3, <1>4 DEF CalmInv

\* An update that decides nothing by itself is read: nothing happens, or the Ok
\* completes the capture whose image was waiting for it.
LEMMA CalmUndecided ==
    ASSUME SendSuspends = FALSE, NEW M, fromDevice \in Seq(M), CalmTypes, CalmInv,
           NEW u, Receive(u),
           \/ UNCHANGED service
           \/ TryComplete(TRUE, pendingImage)
    PROVE  CalmInv'
<1>1. LoopFree /\ UNCHANGED <<starting, device, link>>
  BY DEF Receive
<1>2. \A i \in Outstanding' : i + 1 \in Outstanding /\ fromDevice'[i] = fromDevice[i + 1]
  BY CalmReceived
<1>3. OneDecisive \/ Outstanding' = {}
  BY DEF CalmInv
<1>4. CASE UNCHANGED <<status, file, current, pendingImage, announced>>
  <2>1. Outstanding \subseteq Nat /\ Outstanding' \subseteq Nat
    BY <1>1, Received, LenProperties DEF Outstanding
  <2>2. ASSUME NEW i \in Outstanding', NEW j \in Outstanding'
        PROVE  i = j
    <3>1. i + 1 \in Outstanding /\ j + 1 \in Outstanding
      BY <1>2
    <3>2. i + 1 = j + 1
      BY <3>1 DEF CalmInv, OneDecisive
    <3>3. QED
      BY <2>1, <3>2
  <2>3. OneDecisive'
    BY <1>1, <1>2, <1>4, <2>2 DEF CalmInv, OneDecisive, InProgress
  <2>4. QED
    BY <1>1, <1>4, <2>3 DEF CalmInv, Story, Told
<1>5. CASE TryComplete(TRUE, pendingImage) /\ Exposing(current) /\ pendingImage # None
  <2>1. InProgress /\ pendingImage = current /\ Outstanding = {} /\ device = None
    BY <1>5 DEF CalmInv, OneDecisive, InProgress, Exposing
  <2>2. Outstanding' = {} /\ TryComplete(TRUE, current)
    BY <1>2, <1>5, <2>1
  <2>3. QED
    BY <1>1, <2>1, <2>2, CalmDecided
<1>6. QED
  BY <1>4, <1>5 DEF TryComplete, service

LEMMA CalmRead ==
    ASSUME SendSuspends = FALSE, NEW M, fromDevice \in Seq(M), CalmTypes, CalmInv,
           okReceived \in BOOLEAN, Read
    PROVE  CalmInv'
<1>1. CASE ReadDefinition \/ ReadUnremarkable \/ ReadInvisibleImage
  BY <1>1, CalmUndecided DEF ReadDefinition, ReadUnremarkable, ReadInvisibleImage
<1>2. CASE ReadOk
  BY <1>2, CalmUndecided DEF ReadOk
<1>3. ASSUME NEW u, Receive(u), Decisive(u),
             \/ FailCurrent
             \/ u = Image(current) /\ TryComplete(okReceived, current)
      PROVE  CalmInv'
  <2>1. InProgress /\ Outstanding' = {} /\ device = None
    BY <1>3, CalmReceived
  <2>2. LoopFree /\ UNCHANGED <<starting, device, link>>
    BY <1>3 DEF Receive
  <2>3. QED
    BY <1>3, <2>1, <2>2, CalmDecided
<1>4. CASE ReadAlert \/ ReadVanishedImage
  BY <1>3, <1>4 DEF ReadAlert, ReadVanishedImage, Decisive
<1>5. CASE ReadImage
  <2>1. PICK c \in Captures : Receive(Image(c)) /\ TryComplete(okReceived, c)
    BY <1>5 DEF ReadImage
  <2>2. Decisive(Image(c))
    BY DEF Decisive
  <2>3. Image(c) \in {Set("alert"), Image(current)}
    BY <2>1, <2>2, CalmReceived
  <2>4. c = current
    BY <2>3, UpdatesDiffer
  <2>5. QED
    BY <1>3, <2>1, <2>2, <2>4
<1>6. QED
  BY <1>1, <1>2, <1>4, <1>5 DEF Read

\* Only an exposing capture is completed or failed.
LEMMA CalmOutcome ==
    ASSUME SendSuspends = FALSE, NEW M, fromDevice \in Seq(M), CalmTypes, CalmInv, Read
    PROVE  Exposing(current) \/ UNCHANGED <<status, announced, file, reader>>
<1>1. CASE ReadAlert \/ ReadVanishedImage
  <2>1. PICK u : Receive(u) /\ Decisive(u) /\ FailCurrent
    BY <1>1 DEF ReadAlert, ReadVanishedImage, Decisive
  <2>2. InProgress /\ LoopFree
    BY <2>1, CalmReceived DEF Receive
  <2>3. \A c \in Captures : status[c] # "pending"
    BY <2>2, CalmFree
  <2>4. QED
    BY <2>2, <2>3 DEF InProgress, Exposing, CalmTypes
<1>2. QED
  BY <1>1 DEF Read, ReadDefinition, ReadUnremarkable, ReadInvisibleImage, ReadOk, ReadImage,
              TryComplete, service

\* What the server adds: at most one decisive update, and only at the end of the
\* exposure in progress or when it refuses one.
LEMMA CalmEmitted ==
    ASSUME NEW M, fromDevice \in Seq(M), NEW u \in Seq(M), Emit(u), Outstanding = {}
    PROVE  \A i \in Outstanding' :
             /\ i - Len(fromDevice) \in 1 .. Len(u)
             /\ fromDevice'[i] = u[i - Len(fromDevice)]
             /\ Decisive(u[i - Len(fromDevice)])
<1> DEFINE n == Len(fromDevice)
<1>1. /\ n \in Nat /\ Len(u) \in Nat /\ Len(fromDevice') = n + Len(u)
      /\ \A i \in 1 .. n : fromDevice'[i] = fromDevice[i]
      /\ \A i \in 1 .. Len(u) : fromDevice'[n + i] = u[i]
  BY Emitted, LenProperties
<1>2. ASSUME NEW i \in Outstanding'
      PROVE  /\ i - n \in 1 .. Len(u)
             /\ fromDevice'[i] = u[i - n]
             /\ Decisive(u[i - n])
  <2>1. i \in 1 .. Len(fromDevice') /\ Decisive(fromDevice'[i])
    BY <1>2 DEF Outstanding, Decisive
  <2>2. i \notin 1 .. n
    BY <1>1, <2>1 DEF Outstanding
  <2>3. i - n \in 1 .. Len(u) /\ n + (i - n) = i
    BY <1>1, <2>1, <2>2
  <2>4. fromDevice'[n + (i - n)] = u[i - n]
    BY <1>1, <2>3
  <2>5. QED
    BY <2>1, <2>3, <2>4
<1>3. QED
  BY <1>2

\* The camera that was exposing ends it with one decisive update.
LEMMA CalmDevice ==
    ASSUME NEW M, Updates \subseteq M, fromDevice \in Seq(M), CalmTypes, CalmInv,
           DeviceFinishes \/ DeviceFails
    PROVE  CalmInv'
<1>1. /\ device = current /\ InProgress /\ Outstanding = {} /\ pendingImage = None
      /\ current \in Captures /\ link = "up"
  BY DEF DeviceFinishes, DeviceFails, CalmInv, OneDecisive, CalmTypes
<1>2. Image(current) \in M /\ Set("ok") \in M /\ Set("alert") \in M
  BY <1>1, UpdateTypes DEF PropertyStates
<1>3. /\ UNCHANGED <<status, file, current, announced, pendingImage, starting, link>>
      /\ device' = None
  BY DEF DeviceFinishes, DeviceFails, service
<1>4. /\ \A i \in Outstanding' : fromDevice'[i] \in {Set("alert"), Image(current)}
      /\ \A i, j \in Outstanding' : i = j
  <2>0. Set("ok") # Set("alert") /\ ~Decisive(Set("ok"))
    BY UpdatesDiffer DEF Decisive
  <2>1. ASSUME Emit(<<Set("alert")>>)
        PROVE  /\ \A i \in Outstanding' : fromDevice'[i] \in {Set("alert"), Image(current)}
               /\ \A i, j \in Outstanding' : i = j
    <3>1. <<Set("alert")>> \in Seq(M) /\ Len(<<Set("alert")>>) = 1
      BY <1>2
    <3>2. \A i \in Outstanding' :
            /\ i - Len(fromDevice) \in 1 .. 1
            /\ fromDevice'[i] = <<Set("alert")>>[i - Len(fromDevice)]
      BY <1>1, <2>1, <3>1, CalmEmitted
    <3>3. Len(fromDevice) \in Nat /\ \A i \in Outstanding' : i \in Int
      BY LenProperties DEF Outstanding
    <3>4. QED
      BY <3>2, <3>3
  <2>2. ASSUME NEW k \in 1 .. 2, NEW u \in Seq(M), Len(u) = 2, Emit(u),
               u[k] = Image(current), u[3 - k] = Set("ok")
        PROVE  /\ \A i \in Outstanding' : fromDevice'[i] \in {Set("alert"), Image(current)}
               /\ \A i, j \in Outstanding' : i = j
    <3>1. \A i \in Outstanding' :
            /\ i - Len(fromDevice) \in 1 .. 2
            /\ fromDevice'[i] = u[i - Len(fromDevice)]
            /\ Decisive(u[i - Len(fromDevice)])
      BY <1>1, <2>2, CalmEmitted
    <3>2. Len(fromDevice) \in Nat /\ \A i \in Outstanding' : i \in Int
      BY LenProperties DEF Outstanding
    <3>3. \A m \in 1 .. 2 : m = k \/ m = 3 - k
      BY <2>2
    <3>4. \A i \in Outstanding' : i - Len(fromDevice) = k
      BY <2>0, <2>2, <3>1, <3>3
    <3>5. QED
      BY <2>2, <3>1, <3>2, <3>4
  <2>3. CASE DeviceFails
    BY <1>1, <2>1, <2>3 DEF DeviceFails, EmitIfUp
  <2>4. CASE DeviceFinishes
    <3>1. Emit(<<Image(current), Set("ok")>>) \/ Emit(<<Set("ok"), Image(current)>>)
      BY <1>1, <2>4 DEF DeviceFinishes, EmitIfUp
    <3>2. CASE Emit(<<Image(current), Set("ok")>>)
      <4> DEFINE u == <<Image(current), Set("ok")>>
      <4>1. u \in Seq(M) /\ Len(u) = 2 /\ u[1] = Image(current) /\ u[3 - 1] = Set("ok")
        BY <1>2
      <4>2. 1 \in 1 .. 2 /\ Emit(u)
        BY <3>2
      <4> HIDE DEF u
      <4>3. QED
        BY <2>2, <4>1, <4>2
    <3>3. CASE Emit(<<Set("ok"), Image(current)>>)
      <4> DEFINE u == <<Set("ok"), Image(current)>>
      <4>1. u \in Seq(M) /\ Len(u) = 2 /\ u[2] = Image(current) /\ u[3 - 2] = Set("ok")
        BY <1>2
      <4>2. 2 \in 1 .. 2 /\ Emit(u)
        BY <3>3
      <4> HIDE DEF u
      <4>3. QED
        BY <2>2, <4>1, <4>2
    <3>4. QED
      BY <3>1, <3>2, <3>3
  <2>5. QED
    BY <2>3, <2>4
<1>5. OneDecisive' /\ \A c \in Captures : Story(c)'
  BY <1>1, <1>3, <1>4 DEF CalmInv, OneDecisive, InProgress, Story, Told
<1>6. QED
  BY <1>1, <1>3, <1>5 DEF CalmInv

\* An abort that is on its way is one more decisive update, if the camera is
\* still exposing, and nothing otherwise.
LEMMA CalmAborting ==
    ASSUME NEW M, Updates \subseteq M, fromDevice \in Seq(M), CalmTypes, CalmInv,
           NEW a \in Aborters, AbortExposure(a)
    PROVE  CalmInv'
<1>1. UNCHANGED <<status, file, current, announced, pendingImage, starting, link>>
  BY DEF AbortExposure, service
<1>2. CASE UNCHANGED <<device, fromDevice>>
  <2>1. Outstanding' = Outstanding
    BY <1>2 DEF Outstanding, Decisive
  <2>2. QED
    BY <1>1, <1>2, <2>1 DEF CalmInv, OneDecisive, InProgress, Story, Told
<1>3. CASE device # None /\ device' = None /\ Emit(<<Set("alert")>>)
  <2>1. InProgress /\ Outstanding = {} /\ pendingImage = None
    BY <1>3 DEF CalmInv, OneDecisive
  <2>2. <<Set("alert")>> \in Seq(M) /\ Len(<<Set("alert")>>) = 1
    BY UpdateTypes DEF PropertyStates
  <2>3. \A i \in Outstanding' :
          /\ i - Len(fromDevice) \in 1 .. 1
          /\ fromDevice'[i] = <<Set("alert")>>[i - Len(fromDevice)]
    BY <1>3, <2>1, <2>2, CalmEmitted
  <2>4. Len(fromDevice) \in Nat /\ \A i \in Outstanding' : i \in Int
    BY LenProperties DEF Outstanding
  <2>5. \A i \in Outstanding' : /\ fromDevice'[i] = Set("alert")
                                /\ \A j \in Outstanding' : i = j
    BY <2>3, <2>4
  <2>6. QED
    BY <1>1, <1>3, <2>1, <2>5 DEF CalmInv, OneDecisive, InProgress, Story, Told
<1>4. QED
  BY <1>2, <1>3 DEF AbortExposure, DeviceAbort

LEMMA CalmStart ==
    ASSUME SendSuspends = FALSE, NEW M, Updates \subseteq M, fromDevice \in Seq(M),
           CalmTypes, CalmInv, StartExposure
    PROVE  CalmInv'
<1>1. /\ ~InProgress /\ device = None /\ Outstanding = {} /\ link = "up" /\ link' = "up"
      /\ \A c \in Captures : status[c] # "pending"
  BY CalmFree DEF StartExposure, MayStart, CalmInv
<1>2. /\ current' = current + 1 /\ current + 1 \in Captures /\ pendingImage' = None
      /\ UNCHANGED <<file, announced>>
      /\ status' = [status EXCEPT ![current + 1] = "pending"]
      /\ starting' = [starting EXCEPT ![current + 1] = "draining"]
  BY <1>1, BoundsAssumption
     DEF StartExposure, ClearFlags, SendStage, CalmTypes, CaptureTypes, Captures, None
<1>3. InProgress'
  BY <1>2 DEF InProgress, CalmTypes, CaptureTypes
<1>4. \/ device' = current' /\ Outstanding' = {}
      \/ device' = None /\ \A i \in Outstanding' :
                              /\ fromDevice'[i] = Set("alert")
                              /\ \A j \in Outstanding' : i = j
  <2>0. Set("busy") \in M /\ Set("alert") \in M /\ ~Decisive(Set("busy"))
    BY UpdateTypes, UpdatesDiffer DEF PropertyStates, Decisive
  <2>1. ASSUME NEW s, Set(s) \in M, Emit(<<Set(s)>>)
        PROVE  \A i \in Outstanding' : /\ fromDevice'[i] = Set(s) /\ Decisive(Set(s))
                                       /\ \A j \in Outstanding' : i = j
    <3>1. <<Set(s)>> \in Seq(M) /\ Len(<<Set(s)>>) = 1
      BY <2>1
    <3>2. \A i \in Outstanding' :
            /\ i - Len(fromDevice) \in 1 .. 1
            /\ fromDevice'[i] = <<Set(s)>>[i - Len(fromDevice)]
            /\ Decisive(<<Set(s)>>[i - Len(fromDevice)])
      BY <1>1, <2>1, <3>1, CalmEmitted
    <3>3. Len(fromDevice) \in Nat /\ \A i \in Outstanding' : i \in Int
      BY LenProperties DEF Outstanding
    <3>4. \A i \in Outstanding' : i - Len(fromDevice) = 1 /\ <<Set(s)>>[1] = Set(s)
      BY <3>2, <3>3
    <3>5. \A i \in Outstanding' : fromDevice'[i] = Set(s) /\ Decisive(Set(s))
      BY <3>2, <3>4
    <3>6. QED
      BY <3>3, <3>4, <3>5
  <2>2. DeviceStart(current + 1)
    BY DEF StartExposure
  <2>3. CASE device' = current + 1 /\ Emit(<<Set("busy")>>)
    BY <1>2, <2>0, <2>1, <2>3
  <2>4. CASE device' = device /\ Emit(<<Set("alert")>>)
    BY <1>1, <2>0, <2>1, <2>4
  <2>5. QED
    BY <1>1, <2>2, <2>3, <2>4 DEF DeviceStart
<1>5. OneDecisive'
  BY <1>2, <1>3, <1>4 DEF OneDecisive
<1>6. ASSUME NEW c \in Captures
      PROVE  Story(c)'
  <2>1. Story(c)
    BY DEF CalmInv
  <2>2. c = current => status[c] \in {"completed", "failed"}
    BY <1>1, <2>1 DEF Story, InProgress, CalmTypes
  <2>3. /\ c \in Nat /\ current \in Nat
        /\ status \in [Captures -> CaptureStatus] /\ starting \in [Captures -> SendStages]
    BY DEF CalmTypes, CaptureTypes
  <2>4. CASE c = current + 1
    <3>1. status[c] = "unborn"
      BY <2>1, <2>3, <2>4 DEF Story
    <3>2. status'[c] = "pending" /\ starting'[c] = "draining"
      BY <1>2, <2>3, <2>4
    <3>3. QED
      BY <1>2, <2>1, <2>3, <2>4, <3>1, <3>2 DEF Story, Told
  <2>5. CASE c # current + 1
    <3>1. status'[c] = status[c] /\ starting'[c] = starting[c]
      BY <1>2, <2>3, <2>5
    <3>2. c < current + 1 => c <= current
      BY <2>3
    <3>3. QED
      BY <1>2, <2>1, <2>2, <2>3, <2>5, <3>1, <3>2 DEF Story, Told
  <2>6. QED
    BY <2>4, <2>5
<1>7. QED
  BY <1>1, <1>5, <1>6 DEF CalmInv

\* A start call that returns was that of the current capture.
LEMMA CalmReturns ==
    ASSUME CalmTypes, CalmInv, NEW c \in Captures, StartReturns(c)
    PROVE  c = current /\ status[c] = "pending" /\ CalmInv'
<1>1. c = current /\ status[c] = "pending"
  <2>1. Story(c)
    BY DEF CalmInv
  <2>2. QED
    BY <2>1 DEF StartReturns, Story, CalmTypes, CaptureTypes
<1>2. Outstanding' = Outstanding /\ UNCHANGED <<current, device, pendingImage, file, link>>
  BY DEF StartReturns, camera, Outstanding, Decisive
<1>3. InProgress' = InProgress
  BY <1>1, <1>2 DEF StartReturns, InProgress, CalmTypes, CaptureTypes
<1>4. OneDecisive'
  BY <1>2, <1>3 DEF StartReturns, camera, CalmInv, OneDecisive
<1>5. ASSUME NEW d \in Captures
      PROVE  Story(d)'
  <2>1. Story(d)
    BY DEF CalmInv
  <2>2. CASE d = c
    BY <1>1, <1>2, <2>1, <2>2
       DEF StartReturns, Story, Told, Announce, CalmTypes, CaptureTypes
  <2>3. CASE d # c
    BY <1>1, <1>2, <2>1, <2>3
       DEF StartReturns, Story, Told, Announce, CalmTypes, CaptureTypes
  <2>4. QED
    BY <2>2, <2>3
<1>6. QED
  BY <1>1, <1>2, <1>4, <1>5 DEF CalmInv

LEMMA CalmPublished ==
    ASSUME CalmInv, ReaderPublished \/ \E a \in Aborters : AbortPublished(a)
    PROVE  CalmInv'
<1>1. /\ UNCHANGED <<status, file, current, announced, starting, device, link>>
      /\ UNCHANGED fromDevice /\ pendingImage' = None /\ Outstanding' = Outstanding
  BY DEF ReaderPublished, AbortPublished, ClearFlags, camera, Outstanding, Decisive
<1>2. QED
  BY <1>1 DEF CalmInv, OneDecisive, InProgress, Story, Told

LEMMA CalmStutters == CalmInv /\ UNCHANGED vars => CalmInv'
<1> SUFFICES ASSUME CalmInv, UNCHANGED vars
             PROVE  CalmInv'
  OBVIOUS
<1>1. UNCHANGED <<status, file, current, announced, starting, pendingImage, device, link>>
      /\ Outstanding' = Outstanding /\ UNCHANGED fromDevice
  BY DEF vars, Outstanding, Decisive
<1>2. QED
  BY <1>1 DEF CalmInv, OneDecisive, InProgress, Story, Told

\* The types are kept, whatever else travels in the queue.
LEMMA CalmTypesKept ==
    ASSUME CalmTypes, okReceived \in BOOLEAN,
           \/ StartExposure \/ Read \/ \E c \in Captures : StartReturns(c)
           \/ ReaderPublished \/ DeviceFinishes \/ DeviceFails
    PROVE  CalmTypes' /\ okReceived' \in BOOLEAN
<1> USE DEF CalmTypes, CaptureTypes, CaptureStatus, SendStages, Terminal
<1>1. CASE StartExposure
  <2>1. current + 1 \in Captures /\ current + 1 \in Nat /\ SendStage \in {"draining", "broken"}
    BY <1>1, BoundsAssumption DEF StartExposure, Captures, None, SendStage
  <2>2. /\ current' = current + 1 /\ status' = [status EXCEPT ![current + 1] = "pending"]
        /\ starting' = [starting EXCEPT ![current + 1] = SendStage]
        /\ UNCHANGED <<file, announced>> /\ okReceived' = FALSE /\ pendingImage' = None
        /\ device' \in {device, current + 1}
    BY <1>1 DEF StartExposure, DeviceStart, ClearFlags
  <2>3. QED
    BY <2>1, <2>2
<1>2. ASSUME NEW c \in Captures, StartReturns(c)
      PROVE  CalmTypes' /\ okReceived' \in BOOLEAN
  BY <1>2 DEF StartReturns, Announce, camera
<1>3. ASSUME FailCurrent, UNCHANGED <<starting, device>>
      PROVE  CalmTypes' /\ okReceived' \in BOOLEAN
  BY <1>3 DEF FailCurrent, service, Announce
<1>4. ASSUME NEW ok \in BOOLEAN, NEW i \in Captures \cup {None}, TryComplete(ok, i),
             UNCHANGED <<starting, device>>
      PROVE  CalmTypes' /\ okReceived' \in BOOLEAN
  BY <1>4 DEF TryComplete, Announce, Exposing
<1>5. CASE Read
  <2>1. UNCHANGED <<starting, device>>
    BY <1>5 DEF Read, ReadDefinition, ReadUnremarkable, ReadAlert, ReadOk, ReadImage,
                ReadInvisibleImage, ReadVanishedImage, Receive
  <2>2. \/ UNCHANGED service \/ FailCurrent
        \/ \E ok \in BOOLEAN, i \in Captures \cup {None} : TryComplete(ok, i)
    BY <1>5 DEF Read, ReadDefinition, ReadUnremarkable, ReadAlert, ReadOk, ReadImage,
                ReadInvisibleImage, ReadVanishedImage
  <2>3. QED
    BY <1>3, <1>4, <2>1, <2>2 DEF service
<1>6. CASE ReaderPublished
  BY <1>6 DEF ReaderPublished, ClearFlags, camera
<1>7. CASE DeviceFinishes \/ DeviceFails
  BY <1>7 DEF DeviceFinishes, DeviceFails, service
<1>8. QED
  BY <1>1, <1>2, <1>5, <1>6, <1>7

LEMMA CalmStep ==
    ASSUME Aborters = {}, LinkDrops = FALSE, SendSuspends = FALSE,
           TypeOK, CalmInv, [Next]_vars
    PROVE  CalmInv'
<1>1. CalmTypes /\ fromDevice \in Seq(Updates) /\ Updates \subseteq Updates
      /\ okReceived \in BOOLEAN
  BY TypeOKCalm DEF TypeOK
<1>2. ASSUME NEW c \in Captures
      PROVE  ~StartRaises(c)
  BY DEF CalmInv, Story, StartRaises
<1>3. CASE UNCHANGED vars
  BY <1>3, CalmStutters
<1>4. ~LinkLost /\ ~LinkRestored
  BY DEF LinkLost, LinkRestored, CalmInv
<1>5. CASE StartExposure
  BY <1>1, <1>5, CalmStart
<1>6. CASE Read
  BY <1>1, <1>6, CalmRead
<1>7. CASE DeviceFinishes \/ DeviceFails
  BY <1>1, <1>7, CalmDevice
<1>8. CASE \E c \in Captures : StartReturns(c)
  BY <1>1, <1>8, CalmReturns
<1>9. QED
  BY <1>2, <1>3, <1>4, <1>5, <1>6, <1>7, <1>8, CalmPublished DEF Next

-----------------------------------------------------------------------------
(* The refinement: an exposure begins when its start call returns and ends  *)
(* when its alert, or the later of its image and its Ok, is read; every     *)
(* other step changes nothing that the promise speaks of.                   *)
Phases == [c \in Captures |-> Phase(c)]

LEMMA PhaseChanges ==
    ASSUME CaptureTypes, NEW c \in Captures, NEW s \in {"exposing", "completed", "failed"},
           status' = [status EXCEPT ![c] = s]
    PROVE  Phases' = [Phases EXCEPT ![c] = s]
BY DEF CaptureTypes, Phases, Phase

LEMMA Begins ==
    ASSUME CalmTypes, CalmInv, NEW c \in Captures, StartReturns(c)
    PROVE  Promise!Start(c)
<1>1. c = current /\ status[c] = "pending" /\ Story(c) /\ c \in Nat /\ CaptureTypes
  BY CalmReturns DEF CalmInv, CalmTypes, CaptureTypes
<1>2. Phases[c] = "new" /\ Phases' = [Phases EXCEPT ![c] = "exposing"]
  BY <1>1, PhaseChanges DEF Phases, Phase, StartReturns
<1>3. \A d \in 1 .. c - 1 : Phases[d] \in {"completed", "failed"}
  <2> SUFFICES ASSUME NEW d \in 1 .. c - 1
               PROVE  Phases[d] \in {"completed", "failed"}
    OBVIOUS
  <2>1. d \in Captures /\ d < current
    BY <1>1, BoundsAssumption DEF Captures
  <2>2. status[d] \in {"completed", "failed"}
    BY <2>1 DEF CalmInv, Story
  <2>3. QED
    BY <2>1, <2>2 DEF Phases, Phase
<1>4. announced' = [announced EXCEPT ![c] = {"started"}] /\ UNCHANGED file
  BY <1>1 DEF StartReturns, Announce, Story, Told, CaptureTypes
<1>5. QED
  BY <1>2, <1>3, <1>4 DEF Promise!Start, Phases

LEMMA Completes ==
    ASSUME CalmTypes, CalmInv, NEW ok, NEW i, TryComplete(ok, i),
           Exposing(current) => i \in {current, None}
    PROVE  \/ current \in Captures /\ Promise!Ends(current)
           \/ UNCHANGED <<status, file, announced>>
<1>1. CASE Exposing(current) /\ ok /\ i # None
  <2>1. current \in Captures /\ status[current] = "exposing" /\ Story(current)
        /\ i = current /\ CaptureTypes
    BY <1>1 DEF Exposing, CalmTypes, CalmInv
  <2>2. /\ status' = [status EXCEPT ![current] = "completed"]
        /\ file' = [file EXCEPT ![current] = current]
        /\ announced' = Announce(current, "completed")
    BY <1>1, <2>1 DEF TryComplete
  <2>3. Phases[current] = "exposing" /\ Phases' = [Phases EXCEPT ![current] = "completed"]
    BY <2>1, <2>2, PhaseChanges DEF Phases, Phase
  <2>4. announced' = [announced EXCEPT ![current] = {"started", "completed"}]
    BY <2>1, <2>2 DEF Announce, Story, Told, CaptureTypes
  <2>5. QED
    BY <2>1, <2>2, <2>3, <2>4 DEF Promise!Ends, Promise!End, Phases
<1>2. CASE ~(Exposing(current) /\ ok /\ i # None)
  BY <1>2 DEF TryComplete
<1>3. QED
  BY <1>1, <1>2

LEMMA Fails ==
    ASSUME CalmTypes, CalmInv, FailCurrent, Exposing(current)
    PROVE  current \in Captures /\ Promise!Ends(current)
<1>1. current \in Captures /\ status[current] = "exposing" /\ Story(current) /\ CaptureTypes
  BY DEF Exposing, CalmTypes, CalmInv
<1>2. /\ status' = [status EXCEPT ![current] = "failed"]
      /\ announced' = Announce(current, "failed")
      /\ file' = file
  BY DEF FailCurrent, Exposing
<1>3. Phases[current] = "exposing" /\ Phases' = [Phases EXCEPT ![current] = "failed"]
  BY <1>1, <1>2, PhaseChanges DEF Phases, Phase
<1>4. announced' = [announced EXCEPT ![current] = {"started", "failed"}]
  BY <1>1, <1>2 DEF Announce, Story, Told, CaptureTypes
<1>5. file' = [file EXCEPT ![current] = 0]
  BY <1>1, <1>2 DEF Story, CaptureTypes, None
<1>6. QED
  BY <1>1, <1>3, <1>4, <1>5 DEF Promise!Ends, Promise!End, Phases

LEMMA PromiseInit == Init => Promise!EInit
<1> SUFFICES ASSUME Init
             PROVE  Promise!EInit
  OBVIOUS
<1>1. Phases = [c \in Captures |-> "new"]
  BY DEF Init, Phases, Phase
<1>2. QED
  BY <1>1 DEF Init, Promise!EInit, Promise!Exposures, Phases, Captures, None

LEMMA PromiseRead ==
    ASSUME SendSuspends = FALSE, NEW M, fromDevice \in Seq(M), CalmTypes, CalmInv, Read
    PROVE  \/ current \in Captures /\ Promise!Ends(current)
           \/ UNCHANGED <<status, file, announced>>
<1>1. CalmTypes /\ fromDevice \in Seq(M)
  OBVIOUS
<1>2. CASE ReadDefinition \/ ReadUnremarkable \/ ReadInvisibleImage
  BY <1>2 DEF ReadDefinition, ReadUnremarkable, ReadInvisibleImage, service
<1>3. CASE ReadOk
  <2>1. Exposing(current) => pendingImage \in {current, None}
    BY DEF CalmInv, OneDecisive, InProgress, Exposing
  <2>2. QED
    BY <1>1, <1>3, <2>1, Completes DEF ReadOk
<1>4. CASE ReadImage
  <2>1. PICK c \in Captures : Receive(Image(c)) /\ TryComplete(okReceived, c)
    BY <1>4 DEF ReadImage
  <2>2. Decisive(Image(c))
    BY DEF Decisive
  <2>3. Image(c) \in {Set("alert"), Image(current)}
    BY <1>1, <2>1, <2>2, CalmReceived
  <2>4. c = current
    BY <2>3, UpdatesDiffer
  <2>5. QED
    BY <1>1, <2>1, <2>4, Completes
<1>5. CASE ReadAlert \/ ReadVanishedImage
  BY <1>1, <1>5, CalmOutcome, Fails
     DEF ReadAlert, ReadVanishedImage, FailCurrent, service
<1>6. QED
  BY <1>2, <1>3, <1>4, <1>5 DEF Read

LEMMA PromiseMoves ==
    ASSUME SendSuspends = FALSE, NEW M, fromDevice \in Seq(M), CalmTypes, CalmInv,
           \/ StartExposure \/ Read \/ \E c \in Captures : StartReturns(c)
           \/ UNCHANGED <<status, file, announced>>
    PROVE  [Promise!ENext]_(Promise!exposureVars)
<1>1. CalmTypes
  OBVIOUS
<1>2. CASE UNCHANGED <<status, file, announced>>
  BY <1>2 DEF Promise!exposureVars, Phase
<1>3. CASE StartExposure
  <2>1. current + 1 \in Captures /\ Story(current + 1) /\ CaptureTypes
    BY <1>1, <1>3, BoundsAssumption
       DEF StartExposure, CalmInv, CalmTypes, CaptureTypes, Captures, None
  <2>2. status[current + 1] = "unborn" /\ status' = [status EXCEPT ![current + 1] = "pending"]
    BY <1>3, <2>1 DEF Story, StartExposure, CaptureTypes
  <2>3. Phases' = Phases /\ UNCHANGED <<file, announced>>
    BY <1>3, <2>1, <2>2 DEF Phases, Phase, CaptureTypes, StartExposure
  <2>4. QED
    BY <2>3 DEF Promise!exposureVars, Phases
<1>4. ASSUME NEW c \in Captures, StartReturns(c)
      PROVE  Promise!ENext
  BY <1>1, <1>4, Begins DEF Promise!ENext, Promise!Exposures, Captures
<1>5. CASE Read
  BY <1>2, <1>5, PromiseRead DEF Promise!ENext, Promise!Exposures, Captures
<1>6. QED
  BY <1>2, <1>3, <1>4, <1>5

LEMMA PromiseStep ==
    ASSUME Aborters = {}, LinkDrops = FALSE, SendSuspends = FALSE,
           TypeOK, CalmInv, [Next]_vars
    PROVE  [Promise!ENext]_(Promise!exposureVars)
<1>1. CalmTypes /\ fromDevice \in Seq(Updates)
  BY TypeOKCalm DEF TypeOK
<1>2. ASSUME NEW c \in Captures
      PROVE  ~StartRaises(c)
  BY DEF CalmInv, Story, StartRaises
<1>3. \/ StartExposure \/ Read \/ \E c \in Captures : StartReturns(c)
      \/ UNCHANGED <<status, file, announced>>
  BY <1>2 DEF Next, vars, service, ReaderPublished, DeviceFinishes, DeviceFails, LinkLost,
              LinkRestored
<1>4. QED
  BY <1>1, <1>3, PromiseMoves

\* Without aborts and over a link that holds, however slow the WebSockets are and
\* in whatever order the two notifications come, the exposures are made one after
\* the other, each announced once when it starts and once when it ends, with its
\* own image or none.  That each one ends is left to the model checker.
THEOREM KeepsExposureSafely ==
    ASSUME Aborters = {}, LinkDrops = FALSE, SendSuspends = FALSE
    PROVE  Spec => Promise!ESafety
<1>1. TypeOK /\ CalmInv /\ [Next]_vars =>
        CalmInv' /\ [Promise!ENext]_(Promise!exposureVars)
  BY CalmStep, PromiseStep
<1>2. QED
  BY <1>1, CalmInit, PromiseInit, TypeCorrect, PTL DEF Spec, Promise!ESafety
=============================================================================
