---------------------------- MODULE ImagerProofs ----------------------------
(***************************************************************************)
(* Theorems about Imager, for any number of leases, captures, updates,     *)
(* aborting requests, sequences and counts: the sequence counter has one   *)
(* ticker; a sidecar names the lease its capture was started under unless  *)
(* that lease has ended; the captures are those of CaptureService, so that *)
(* its theorems hold of them; a configuration does not reach an exposure   *)
(* without an outcome; and the health routes tell the truth.               *)
(***************************************************************************)
EXTENDS Imager, Sequences, FiniteSetTheorems, TLAPS

-----------------------------------------------------------------------------
(* The sequence counter. *)

(* OneTicker is inductive once the variables have their types. *)
TickerInv == SQ!TypeOK /\ SQ!OneTicker

LEMMA TickerInit == SQ!Init => TickerInv
<1> SUFFICES ASSUME SQ!Init PROVE TickerInv
    OBVIOUS
<1>1. running = FALSE /\ \A s \in Sequences : ticker[s] = "unborn"
    BY DEF SQ!Init
<1>2. SQ!OneTicker
    BY <1>1 DEF SQ!OneTicker
<1>3. SQ!TypeOK
    BY DEF SQ!Init, SQ!TypeOK, SQ!Stages
<1> QED
    BY <1>2, <1>3 DEF TickerInv

(* A start finds no ticker alive and makes its own the only one. *)
LEMMA TickerStart ==
  ASSUME TickerInv, NEW s \in Sequences, NEW n \in Counts, SQ!SequenceStart(s, n)
  PROVE  TickerInv'
BY NoSequenceAssumption, CountsAssumption
   DEF TickerInv, SQ!TypeOK, SQ!OneTicker, SQ!Stages, SQ!SequenceStart

(* A stop reaches the one ticker there is. *)
LEMMA TickerStop == TickerInv /\ SQ!SequenceStop => TickerInv'
<1> SUFFICES ASSUME TickerInv, SQ!SequenceStop PROVE TickerInv'
    OBVIOUS
<1>1. \A stage \in SQ!Stages :
         SQ!Cancel(stage) \in SQ!Stages \ {"created", "sleeping"}
    BY DEF SQ!Stages, SQ!Cancel
<1>2. SQ!TypeOK'
    BY <1>1 DEF TickerInv, SQ!TypeOK, SQ!SequenceStop
<1>3. \A s \in Sequences : ticker'[s] \notin {"created", "sleeping"}
    BY <1>1 DEF TickerInv, SQ!TypeOK, SQ!OneTicker, SQ!SequenceStop
<1> QED
    BY <1>2, <1>3 DEF TickerInv, SQ!OneTicker, SQ!SequenceStop

(* A ticker goes on, ends its sequence with itself, or is gone already. *)
LEMMA TickerTick ==
  ASSUME TickerInv, NEW s \in Sequences, SQ!Tick(s)
  PROVE  TickerInv'
<1> USE NoSequenceAssumption DEF TickerInv, SQ!TypeOK, SQ!OneTicker, SQ!Stages
<1>1. CASE SQ!TickerStarts(s)
    BY <1>1 DEF SQ!TickerStarts, SQ!Loop
<1>2. CASE SQ!TickerWakes(s)
    BY <1>2 DEF SQ!TickerWakes, SQ!Loop
<1>3. CASE SQ!TickerCancelled(s)
    BY <1>3 DEF SQ!TickerCancelled
<1>4. CASE SQ!TickerDropped(s)
    BY <1>4 DEF SQ!TickerDropped
<1> QED
    BY <1>1, <1>2, <1>3, <1>4 DEF SQ!Tick

LEMMA TickerStutter == TickerInv /\ UNCHANGED sequenceVars => TickerInv'
BY DEF TickerInv, SQ!TypeOK, SQ!OneTicker, sequenceVars

LEMMA TickerStep == TickerInv /\ [Next]_vars => TickerInv'
<1> SUFFICES ASSUME TickerInv, [Next]_vars PROVE TickerInv'
    OBVIOUS
<1>1. CASE SequenceRequest
    BY <1>1, TickerStart, TickerStop DEF SequenceRequest
<1>2. CASE SequenceTick
    BY <1>2, TickerTick DEF SequenceTick
<1>3. CASE UNCHANGED sequenceVars
    BY <1>3, TickerStutter
<1>4. SequenceRequest \/ SequenceTick \/ UNCHANGED sequenceVars
    BY DEF Next, vars, LeaseStep, ExposureStart, StartReturns, ExposureAbort,
           AbortReturns, AbortPublished, CameraConfig, Read, ReaderPublished, Camera
<1> QED
    BY <1>1, <1>2, <1>3, <1>4

(* However stops, starts and late cancellations interleave, the ticker     *)
(* that goes on is the running sequence's, and a stop reaches it.          *)
THEOREM TickerIsUnique == Spec => []OneTicker
<1>1. Init => TickerInv
    BY TickerInit DEF Init
<1>2. TickerInv => OneTicker
    BY DEF TickerInv, OneTicker
<1> QED
    BY <1>1, <1>2, TickerStep, PTL DEF Spec

-----------------------------------------------------------------------------
(* The sidecars. *)

(* A capture that has been started has its lease among the spent ones; one *)
(* that has not has no sidecar.                                            *)
Owned(c) == IF c <= capture THEN under[c] \in spent ELSE sidecar[c] = NoLease

SidecarInv ==
  /\ spent \subseteq Leases
  /\ valid \in spent \cup {NoLease}
  /\ capture \in Nat
  /\ under \in [Captures -> Leases \cup {NoLease}]
  /\ sidecar \in [Captures -> Leases \cup {NoLease, "unknown"}]
  /\ \A c \in Captures : Owned(c)
  /\ SidecarNamesHolder

LEMMA SidecarInit == Init => SidecarInv
BY CapturesAssumption
   DEF Init, LV!VInit, CS!Init, CS!None, SidecarInv, Owned, Captures, SidecarNamesHolder

(* The lease of no capture comes back when another is granted. *)
LEMMA SidecarLease == SidecarInv /\ LeaseStep => SidecarInv'
<1> SUFFICES ASSUME SidecarInv, LeaseStep PROVE SidecarInv'
    OBVIOUS
<1> USE NoLeaseAssumption DEF SidecarInv, Owned, SidecarNamesHolder, Captures
<1>0. UNCHANGED <<capture, under, sidecar>>
    BY DEF LeaseStep, captureVars, appVars
<1>1. CASE LV!Ended
    BY <1>0, <1>1 DEF LV!Ended
<1>2. ASSUME NEW l \in Leases, LV!Granted(l)
      PROVE  SidecarInv'
    BY <1>0, <1>2 DEF LV!Granted
<1> QED
    BY <1>1, <1>2 DEF LeaseStep, LV!VNext

(* A new capture is under the valid lease, and without a sidecar. *)
LEMMA SidecarStart == SidecarInv /\ ExposureStart => SidecarInv'
<1> SUFFICES ASSUME SidecarInv, ExposureStart PROVE SidecarInv'
    OBVIOUS
<1> USE NoLeaseAssumption, CapturesAssumption
    DEF SidecarInv, Owned, SidecarNamesHolder, Captures
<1>1. capture' = capture + 1 /\ capture' \in Captures
    BY DEF ExposureStart, CS!StartExposure
<1>2. valid \in spent
    BY DEF ExposureStart, Authorized
<1>3. /\ under' = [under EXCEPT ![capture'] = valid]
      /\ UNCHANGED <<valid, spent, sidecar>>
    BY DEF ExposureStart, leaseVars
<1> QED
    BY <1>1, <1>2, <1>3

(* The sidecar written names the valid lease, or that there is none. *)
LEMMA SidecarRead == SidecarInv /\ Read => SidecarInv'
<1> SUFFICES ASSUME SidecarInv, Read PROVE SidecarInv'
    OBVIOUS
<1> USE NoLeaseAssumption, CapturesAssumption
    DEF SidecarInv, Owned, SidecarNamesHolder, Captures
<1>1. UNCHANGED capture
    BY DEF Read, CS!Read, CS!ReadDefinition, CS!ReadUnremarkable, CS!ReadAlert,
           CS!ReadOk, CS!ReadImage, CS!ReadInvisibleImage, CS!ReadVanishedImage,
           CS!FailCurrent, CS!TryComplete, CS!service
<1>2. UNCHANGED <<valid, spent, under>>
    BY DEF Read, leaseVars
<1>3. CASE UNCHANGED sidecar
    BY <1>1, <1>2, <1>3
<1>4. CASE sidecar' = [sidecar EXCEPT ![capture] = SidecarOwner(capture)]
  <2>1. SidecarOwner(capture) \in Leases \cup {NoLease, "unknown"}
      BY DEF SidecarOwner
  <2>2. sidecar' \in [Captures -> Leases \cup {NoLease, "unknown"}]
      BY <1>4, <2>1
  <2>3. \A c \in Captures : Owned(c)'
      BY <1>1, <1>2, <1>4
  <2>4. ASSUME NEW c \in Captures, sidecar'[c] \notin {NoLease, under[c]}
        PROVE  under[c] # valid
    <3>1. CASE c = capture
        BY <1>4, <2>4, <3>1 DEF SidecarOwner
    <3>2. CASE c # capture
        BY <1>4, <2>4, <3>2
    <3> QED
        BY <3>1, <3>2
  <2> QED
      BY <1>1, <1>2, <2>2, <2>3, <2>4
<1> QED
    BY <1>3, <1>4 DEF Read

LEMMA SidecarStep == SidecarInv /\ [Next]_vars => SidecarInv'
<1> SUFFICES ASSUME SidecarInv, [Next]_vars PROVE SidecarInv'
    OBVIOUS
<1>1. CASE LeaseStep
    BY <1>1, SidecarLease
<1>2. CASE ExposureStart
    BY <1>2, SidecarStart
<1>3. CASE Read
    BY <1>3, SidecarRead
<1>4. CASE UNCHANGED <<valid, spent, capture, under, sidecar>>
    BY <1>4 DEF SidecarInv, Owned, SidecarNamesHolder
<1>5. CASE StartReturns \/ AbortReturns \/ AbortPublished \/ ReaderPublished
    BY <1>4, <1>5 DEF StartReturns, AbortReturns, AbortPublished, ReaderPublished,
       CS!StartReturns, CS!AbortReturns, CS!AbortPublished, CS!ReaderPublished,
       CS!service, leaseVars, appVars
<1>6. CASE ExposureAbort \/ Camera
    BY <1>4, <1>6 DEF ExposureAbort, Camera, CS!AbortExposure, CS!DeviceFinishes,
       CS!DeviceFails, CS!service, leaseVars, appVars
<1>7. CASE CameraConfig \/ SequenceRequest \/ SequenceTick \/ UNCHANGED vars
    BY <1>4, <1>7 DEF CameraConfig, SequenceRequest, SequenceTick, vars, leaseVars,
       captureVars, appVars
<1> QED
    BY <1>1, <1>2, <1>3, <1>5, <1>6, <1>7 DEF Next

(* A sidecar that names another lease than its capture's, or none, says    *)
(* that the capture's lease has ended: it is not the valid one.            *)
THEOREM SidecarsNameHolders == Spec => []SidecarNamesHolder
<1>1. SidecarInv => SidecarNamesHolder
    BY DEF SidecarInv
<1> QED
    BY <1>1, SidecarInit, SidecarStep, PTL DEF Spec

-----------------------------------------------------------------------------
(* The captures.  What CaptureServiceProofs shows of a capture service     *)
(* holds of the one behind the routes: every step of Imager is one of its  *)
(* steps or leaves it alone.                                               *)
CSP == INSTANCE CaptureServiceProofs WITH
         current <- capture,
         PublishSuspends <- TRUE, SendSuspends <- FALSE, LinkDrops <- FALSE

LEMMA SameLoop == CS!LoopFree <=> CSP!LoopFree
BY DEF CS!LoopFree, CS!StartRuns, CS!AbortRuns, CS!ReaderRuns, CS!Captures,
       CSP!LoopFree, CSP!StartRuns, CSP!AbortRuns, CSP!ReaderRuns, CSP!Captures

LEMMA SameStarts ==
  /\ CS!Init <=> CSP!Init
  /\ CS!StartExposure <=> CSP!StartExposure
  /\ \A c : CS!StartReturns(c) <=> CSP!StartReturns(c)
<1>1. CS!Init <=> CSP!Init
    BY DEF CS!Init, CS!Captures, CS!None, CSP!Init, CSP!Captures, CSP!None
<1>2. CS!StartExposure <=> CSP!StartExposure
  <2>1. \A c : CS!DeviceStart(c) <=> CSP!DeviceStart(c)
      BY DEF CS!DeviceStart, CS!Emit, CS!Set, CS!None,
             CSP!DeviceStart, CSP!Emit, CSP!Set, CSP!None
  <2> QED
      BY <2>1, SameLoop
         DEF CS!StartExposure, CS!MayStart, CS!Exposing, CS!SendStage, CS!ClearFlags, CS!None,
             CSP!StartExposure, CSP!MayStart, CSP!Exposing, CSP!SendStage, CSP!ClearFlags,
             CSP!None
<1>3. ASSUME NEW c PROVE CS!StartReturns(c) <=> CSP!StartReturns(c)
    BY SameLoop
       DEF CS!StartReturns, CS!MayRunStart, CS!StartRuns, CS!Announce, CS!camera,
           CSP!StartReturns, CSP!MayRunStart, CSP!StartRuns, CSP!Announce, CSP!camera
<1> QED
    BY <1>1, <1>2, <1>3

LEMMA SameAborts ==
  \A a : /\ CS!AbortExposure(a) <=> CSP!AbortExposure(a)
         /\ CS!AbortReturns(a) <=> CSP!AbortReturns(a)
         /\ CS!AbortPublished(a) <=> CSP!AbortPublished(a)
<1> SUFFICES ASSUME NEW a
             PROVE  /\ CS!AbortExposure(a) <=> CSP!AbortExposure(a)
                    /\ CS!AbortReturns(a) <=> CSP!AbortReturns(a)
                    /\ CS!AbortPublished(a) <=> CSP!AbortPublished(a)
    OBVIOUS
<1>1. CS!DeviceAbort <=> CSP!DeviceAbort
    BY DEF CS!DeviceAbort, CS!Emit, CS!Set, CS!None,
           CSP!DeviceAbort, CSP!Emit, CSP!Set, CSP!None
<1>2. CS!AbortExposure(a) <=> CSP!AbortExposure(a)
    BY <1>1, SameLoop
       DEF CS!AbortExposure, CS!Exposing, CS!SendStage, CS!service, CS!None,
           CSP!AbortExposure, CSP!Exposing, CSP!SendStage, CSP!service, CSP!None
<1>3. CS!MayRunAbort(a) <=> CSP!MayRunAbort(a)
    BY SameLoop DEF CS!MayRunAbort, CS!AbortRuns, CSP!MayRunAbort, CSP!AbortRuns
<1>4. CS!AbortReturns(a) <=> CSP!AbortReturns(a)
    BY <1>3 DEF CS!AbortReturns, CS!Announce, CS!camera,
                CSP!AbortReturns, CSP!Announce, CSP!camera
<1>5. CS!AbortPublished(a) <=> CSP!AbortPublished(a)
    BY <1>3 DEF CS!AbortPublished, CS!ClearFlags, CS!None, CS!camera,
                CSP!AbortPublished, CSP!ClearFlags, CSP!None, CSP!camera
<1> QED
    BY <1>2, <1>4, <1>5

LEMMA SameReader ==
  /\ CS!Read <=> CSP!Read
  /\ CS!ReaderPublished <=> CSP!ReaderPublished
<1>1. \A u : CS!Receive(u) <=> CSP!Receive(u)
    BY SameLoop DEF CS!Receive, CSP!Receive
<1>2. /\ \A s : CS!Set(s) = CSP!Set(s) /\ CS!Def(s) = CSP!Def(s)
      /\ \A c : CS!Image(c) = CSP!Image(c)
      /\ CS!PropertyStates = CSP!PropertyStates /\ CS!Captures = CSP!Captures
    BY DEF CS!Set, CS!Def, CS!Image, CS!PropertyStates, CS!Captures,
           CSP!Set, CSP!Def, CSP!Image, CSP!PropertyStates, CSP!Captures
<1>3. CS!FailCurrent <=> CSP!FailCurrent
    BY DEF CS!FailCurrent, CS!None, CS!service, CS!Announce,
           CSP!FailCurrent, CSP!None, CSP!service, CSP!Announce
<1>4. \A ok, i : CS!TryComplete(ok, i) <=> CSP!TryComplete(ok, i)
    BY DEF CS!TryComplete, CS!None, CS!Exposing, CS!Announce,
           CSP!TryComplete, CSP!None, CSP!Exposing, CSP!Announce
<1>5. CS!service = CSP!service /\ CS!service' = CSP!service'
    BY DEF CS!service, CSP!service
<1>6. CS!ReadDefinition <=> CSP!ReadDefinition
    BY <1>1, <1>2, <1>5 DEF CS!ReadDefinition, CSP!ReadDefinition
<1>7. CS!ReadUnremarkable <=> CSP!ReadUnremarkable
    BY <1>1, <1>2, <1>5 DEF CS!ReadUnremarkable, CSP!ReadUnremarkable
<1>8. CS!ReadAlert <=> CSP!ReadAlert
    BY <1>1, <1>2, <1>3 DEF CS!ReadAlert, CSP!ReadAlert
<1>9. CS!ReadOk <=> CSP!ReadOk
    BY <1>1, <1>2, <1>4 DEF CS!ReadOk, CSP!ReadOk
<1>10. CS!ReadImage <=> CSP!ReadImage
    BY <1>1, <1>2, <1>4 DEF CS!ReadImage, CSP!ReadImage
<1>11. CS!ReadInvisibleImage <=> CSP!ReadInvisibleImage
    BY <1>1, <1>2, <1>5 DEF CS!ReadInvisibleImage, CSP!ReadInvisibleImage
<1>12. CS!ReadVanishedImage <=> CSP!ReadVanishedImage
    BY <1>1, <1>2, <1>3 DEF CS!ReadVanishedImage, CSP!ReadVanishedImage
<1>13. CS!ReaderPublished <=> CSP!ReaderPublished
    BY SameLoop
       DEF CS!ReaderPublished, CS!MayRunReader, CS!ReaderRuns, CS!ClearFlags, CS!None,
           CS!camera, CSP!ReaderPublished, CSP!MayRunReader, CSP!ReaderRuns,
           CSP!ClearFlags, CSP!None, CSP!camera
<1> QED
    BY <1>6, <1>7, <1>8, <1>9, <1>10, <1>11, <1>12, <1>13 DEF CS!Read, CSP!Read

LEMMA SameCamera ==
  /\ CS!DeviceFinishes <=> CSP!DeviceFinishes
  /\ CS!DeviceFails <=> CSP!DeviceFails
BY DEF CS!DeviceFinishes, CS!DeviceFails, CS!EmitIfUp, CS!Emit, CS!Set, CS!Image,
       CS!None, CS!service, CSP!DeviceFinishes, CSP!DeviceFails, CSP!EmitIfUp,
       CSP!Emit, CSP!Set, CSP!Image, CSP!None, CSP!service

LEMMA CaptureStep == [Next]_vars => [CSP!Next]_captureVars
<1> SUFFICES ASSUME [Next]_vars PROVE [CSP!Next]_captureVars
    OBVIOUS
<1>1. CASE UNCHANGED captureVars
    BY <1>1
<1>2. CASE ExposureStart
    BY <1>2, SameStarts DEF ExposureStart, CSP!Next
<1>3. CASE StartReturns
    BY <1>3, SameStarts DEF StartReturns, CSP!Next, Captures, CSP!Captures
<1>4. CASE ExposureAbort \/ AbortReturns \/ AbortPublished
    BY <1>4, SameAborts DEF ExposureAbort, AbortReturns, AbortPublished, CSP!Next
<1>5. CASE Read \/ ReaderPublished
    BY <1>5, SameReader DEF Read, ReaderPublished, CSP!Next
<1>6. CASE Camera
    BY <1>6, SameCamera DEF Camera, CSP!Next
<1> QED
    BY <1>1, <1>2, <1>3, <1>4, <1>5, <1>6
       DEF Next, vars, LeaseStep, CameraConfig, SequenceRequest, SequenceTick

(* The service behind the routes, whatever they are asked, is one of those *)
(* that CaptureService describes, which guard their own state alone.       *)
THEOREM KeepsCaptureService == Spec => CSP!Spec
<1>1. Init => CSP!Init
    BY SameStarts DEF Init
<1>2. [Next]_vars => [CSP!Next]_(CSP!vars)
    BY CaptureStep DEF captureVars, CSP!vars
<1> QED
    BY <1>1, <1>2, PTL DEF Spec, CSP!Spec

(* So its captures have their types, and lives as described there.         *)
LEMMA CaptureFacts == Spec => [](CSP!TypeOK /\ CSP!LifeInv)
<1>1. CSP!BoundsAssumption /\ CSP!FlagsAssumption
    BY CapturesAssumption, FlagsAssumption DEF CSP!BoundsAssumption, CSP!FlagsAssumption
<1>2. CSP!Spec => []CSP!TypeOK
    BY <1>1, CSP!TypeCorrect
<1>3. CSP!Init => CSP!LifeInv
    BY <1>1, CSP!LifeInit
<1>4. CSP!TypeOK /\ CSP!LifeInv /\ [CSP!Next]_(CSP!vars) => CSP!LifeInv'
    BY <1>1, CSP!LifeStep
<1> QED
    BY <1>2, <1>3, <1>4, KeepsCaptureService, PTL DEF CSP!Spec

-----------------------------------------------------------------------------
(* The configurations.  A capture without an announced outcome is the      *)
(* newest, and either exposing, which the route sees, or its start call is *)
(* under way, and then no other request runs; the camera never exposes for *)
(* a capture that is yet to come.                                          *)
Ended(c) == announced[c] \cap CS!Terminal # {}

Begun(c) == c = capture /\ (status[c] = "exposing" \/ starting[c] # "no")

ConfigInv ==
  /\ \A c \in Captures : starting[c] # "no" => c = capture
  /\ \A c \in Captures : c <= capture => Ended(c) \/ Begun(c)
  /\ device <= capture
  /\ ConfigOnlyBetweenExposures

(* The types that the proofs about captures use.                           *)
CaptureTypes ==
  /\ Captures \subseteq Nat /\ capture \in Captures \cup {0} /\ 0 \notin Captures
  /\ device \in Captures \cup {0}
  /\ status \in [Captures -> CS!CaptureStatus]
  /\ announced \in [Captures -> SUBSET (CS!Terminal \cup {"started"})]
  /\ starting \in [Captures -> CS!SendStages]

LEMMA CaptureTypesHold == CSP!TypeOK => CaptureTypes
BY CapturesAssumption
   DEF CSP!TypeOK, CaptureTypes, Captures, CSP!Captures, CSP!None, CSP!CaptureStatus,
       CSP!Terminal, CSP!SendStages, CS!CaptureStatus, CS!Terminal, CS!SendStages

(* What an update that is read does to the captures.                       *)
LEMMA Handled ==
  ASSUME CS!Read
  PROVE  /\ CS!LoopFree /\ reader = "idle"
         /\ UNCHANGED <<capture, starting, aborter, device>>
         /\ \/ UNCHANGED <<status, announced, reader>>
            \/ /\ capture # 0 /\ reader' = "publishing"
               /\ status' = [status EXCEPT ![capture] = "failed"]
               /\ announced' = [announced EXCEPT ![capture] = @ \cup {"failed"}]
            \/ /\ capture # 0 /\ reader' = "publishing" /\ status[capture] = "exposing"
               /\ status' = [status EXCEPT ![capture] = "completed"]
               /\ announced' = [announced EXCEPT ![capture] = @ \cup {"completed"}]
<1>1. ASSUME NEW u, CS!Receive(u)
      PROVE  CS!LoopFree /\ reader = "idle" /\ UNCHANGED <<starting, aborter, device>>
    BY <1>1 DEF CS!Receive
<1>2. CASE CS!ReadDefinition \/ CS!ReadUnremarkable \/ CS!ReadInvisibleImage
    BY <1>1, <1>2
       DEF CS!ReadDefinition, CS!ReadUnremarkable, CS!ReadInvisibleImage, CS!service
<1>3. CASE CS!ReadAlert \/ CS!ReadVanishedImage
    BY <1>1, <1>3
       DEF CS!ReadAlert, CS!ReadVanishedImage, CS!FailCurrent, CS!service, CS!Announce,
           CS!None
<1>4. CASE CS!ReadOk \/ CS!ReadImage
    BY <1>1, <1>4
       DEF CS!ReadOk, CS!ReadImage, CS!TryComplete, CS!Announce, CS!Exposing, CS!None
<1> QED
    BY <1>2, <1>3, <1>4 DEF CS!Read

LEMMA ConfigInit == Init => ConfigInv
BY CapturesAssumption
   DEF Init, CS!Init, CS!None, CS!Captures, ConfigInv, ConfigOnlyBetweenExposures, Captures

LEMMA ConfigStep == CaptureTypes /\ ConfigInv /\ [Next]_vars => ConfigInv'
<1> SUFFICES ASSUME CaptureTypes, ConfigInv, [Next]_vars PROVE ConfigInv'
    OBVIOUS
<1> USE DEF CaptureTypes, ConfigInv, Ended, Begun, ConfigOnlyBetweenExposures, CS!Terminal
<1>1. CS!LoopFree => \A c \in Captures : starting[c] = "no"
    BY DEF CS!LoopFree, CS!StartRuns, CS!Captures, Captures
<1>2. CASE ExposureStart
  <2>1. /\ \A c \in Captures : starting[c] = "no"
        /\ capture = 0 \/ status[capture] # "exposing"
        /\ UNCHANGED <<announced, disturbed>>
      BY <1>1, <1>2
         DEF ExposureStart, CS!StartExposure, CS!MayStart, CS!Exposing, CS!None
  <2>2. /\ capture' = capture + 1 /\ capture' \in Captures
        /\ status' = [status EXCEPT ![capture'] = "pending"]
        /\ \E s \in {"draining", "broken"} :
               starting' = [starting EXCEPT ![capture'] = s]
        /\ device' \in {device, capture'}
    <3>1. /\ capture' = capture + 1 /\ capture < MaxCaptures
          /\ status' = [status EXCEPT ![capture + 1] = "pending"]
          /\ starting' = [starting EXCEPT ![capture + 1] = CS!SendStage]
          /\ CS!DeviceStart(capture + 1)
        BY <1>2 DEF ExposureStart, CS!StartExposure
    <3>2. capture + 1 \in Captures
        BY <3>1, CapturesAssumption DEF Captures
    <3>3. CS!SendStage \in {"draining", "broken"}
        BY DEF CS!SendStage
    <3>4. device' \in {device, capture + 1}
        BY <3>1 DEF CS!DeviceStart
    <3> QED
        BY <3>1, <3>2, <3>3, <3>4
  <2>3. device' <= capture'
      BY <2>2
  <2>4. ASSUME NEW c \in Captures
        PROVE  /\ starting'[c] # "no" => c = capture'
               /\ c <= capture' => Ended(c)' \/ Begun(c)'
    <3>1. CASE c = capture'
        BY <2>2, <3>1
    <3>2. CASE c # capture'
      <4>1. c <= capture' => c <= capture
          BY <2>2, <3>2
      <4> QED
          BY <2>1, <2>2, <3>2, <4>1
    <3> QED
        BY <3>1, <3>2
  <2> QED
      BY <2>1, <2>3, <2>4
<1>3. CASE StartReturns
  <2>1. PICK c \in Captures : CS!StartReturns(c)
      BY <1>3 DEF StartReturns
  <2>2. /\ c = capture
        /\ starting' = [starting EXCEPT ![c] = "no"]
        /\ status' = [status EXCEPT ![c] = "exposing"]
        /\ announced' = [announced EXCEPT ![c] = @ \cup {"started"}]
        /\ UNCHANGED <<capture, device, disturbed>>
      BY <1>3, <2>1 DEF StartReturns, CS!StartReturns, CS!Announce, CS!camera
  <2> QED
      BY <2>2
<1>4. CASE AbortReturns
  <2>1. /\ status' = [status EXCEPT ![capture] = "aborted"]
        /\ announced' = [announced EXCEPT ![capture] = @ \cup {"aborted"}]
        /\ UNCHANGED <<capture, device, starting, disturbed>>
      BY <1>4 DEF AbortReturns, CS!AbortReturns, CS!Announce, CS!camera
  <2> QED
      BY <2>1
<1>5. CASE Read
  <2>1. UNCHANGED disturbed
      BY <1>5 DEF Read
  <2>2. UNCHANGED <<capture, starting, device>>
      BY <1>5, Handled DEF Read
  <2>3. ASSUME NEW o \in {"failed", "completed"},
               status' = [status EXCEPT ![capture] = o],
               announced' = [announced EXCEPT ![capture] = @ \cup {o}]
        PROVE  ConfigInv'
      BY <2>1, <2>2, <2>3
  <2> QED
      BY <1>5, <2>1, <2>2, <2>3, Handled DEF Read
<1>6. CASE CameraConfig
  <2>1. /\ \A c \in Captures : starting[c] = "no"
        /\ capture = 0 \/ status[capture] # "exposing"
        /\ disturbed' = disturbed \cup ({device} \ {0})
        /\ UNCHANGED <<capture, status, starting, announced, device>>
      BY <1>1, <1>6 DEF CameraConfig, Authorized, CS!Exposing, CS!None, captureVars
  <2>2. device \in Captures => Ended(device)
      BY <2>1
  <2> QED
      BY <2>1, <2>2
<1>7. ASSUME UNCHANGED <<capture, status, starting, announced, disturbed>>,
             device' \in {device, 0}
      PROVE  ConfigInv'
    BY <1>7
<1>8. CASE ExposureAbort
    BY <1>7, <1>8
       DEF ExposureAbort, CS!AbortExposure, CS!DeviceAbort, CS!service, CS!None, appVars
<1>9. CASE Camera
    BY <1>7, <1>9
       DEF Camera, CS!DeviceFinishes, CS!DeviceFails, CS!service, CS!None, appVars
<1>10. CASE AbortPublished \/ ReaderPublished
    BY <1>7, <1>10
       DEF AbortPublished, ReaderPublished, CS!AbortPublished, CS!ReaderPublished,
           CS!camera, appVars
<1>11. CASE LeaseStep \/ SequenceRequest \/ SequenceTick \/ UNCHANGED vars
    BY <1>7, <1>11
       DEF LeaseStep, SequenceRequest, SequenceTick, vars, captureVars, appVars
<1> QED
    BY <1>2, <1>3, <1>4, <1>5, <1>6, <1>8, <1>9, <1>10, <1>11 DEF Next

(* However requests, updates and suspended tasks interleave, a camera that *)
(* is configured while it exposes does so for a capture whose outcome has  *)
(* already been announced.                                                 *)
THEOREM ConfigComesBetween == Spec => []ConfigOnlyBetweenExposures
<1>1. ConfigInv => ConfigOnlyBetweenExposures
    BY DEF ConfigInv
<1> QED
    BY <1>1, ConfigInit, ConfigStep, CaptureFacts, CaptureTypesHold, PTL DEF Spec

-----------------------------------------------------------------------------
(* What the health routes report. *)

Unaborted == \A c \in Captures : "aborted" \notin announced[c]

(* The report is of the newest capture, except that while its start call   *)
(* is under way it is still of the one before.  As long as no capture has  *)
(* been aborted, the captures have the simple story of CaptureService      *)
(* without aborts, in which none fails twice.                              *)
HealthInv ==
  /\ (\A c \in Captures : starting[c] = "no") => lastStatus = Reported(capture)
  /\ \A a \in Aborters : aborter[a] # "no" => capture # 0
  /\ total = Told("completed")
  /\ Unaborted => CSP!CalmInv /\ failed = Told("failed")

LEMMA CapturesFinite ==
  IsFiniteSet(Captures) /\ \A S \in SUBSET Captures : IsFiniteSet(S) /\ Cardinality(S) \in Nat
<1>1. IsFiniteSet(Captures)
    BY CapturesAssumption, FS_Interval DEF Captures
<1> QED
    BY <1>1, FS_Subset, FS_CardinalityType

(* One more event that is published about the newest capture.              *)
LEMMA ToldMore ==
  ASSUME CaptureTypes, NEW e, NEW f, capture \in Captures,
         announced' = [announced EXCEPT ![capture] = @ \cup {e}]
  PROVE  Told(f)' = IF f = e /\ f \notin announced[capture] THEN Told(f) + 1 ELSE Told(f)
<1> DEFINE S == {c \in Captures : f \in announced[c]}
<1>1. Told(f) = Cardinality(S) /\ Told(f)' = Cardinality(S')
    BY DEF Told
<1>2. CASE f = e /\ f \notin announced[capture]
  <2>1. S' = S \cup {capture} /\ capture \notin S
      BY <1>2 DEF CaptureTypes
  <2>2. Cardinality(S \cup {capture}) = Cardinality(S) + 1
      BY <2>1, CapturesFinite, FS_AddElement
  <2> QED
      BY <1>1, <1>2, <2>1, <2>2
<1>3. CASE ~(f = e /\ f \notin announced[capture])
  <2>1. S' = S
      BY <1>3 DEF CaptureTypes
  <2> QED
      BY <1>1, <1>3, <2>1
<1> QED
    BY <1>2, <1>3

LEMMA ToldSame == UNCHANGED announced => \A e : Told(e)' = Told(e)
BY DEF Told

(* Only an announced abort ends the simple story.                          *)
Abortless ==
  \/ ExposureStart \/ StartReturns \/ ExposureAbort \/ AbortPublished
  \/ Read \/ ReaderPublished \/ Camera \/ UNCHANGED captureVars

LEMMA CalmLasts ==
  ASSUME CSP!TypeOK, CSP!CalmInv, Abortless
  PROVE  CSP!CalmInv'
<1>1. CSP!BoundsAssumption /\ CSP!FlagsAssumption
    BY CapturesAssumption, FlagsAssumption DEF CSP!BoundsAssumption, CSP!FlagsAssumption
<1>2. CSP!CalmTypes
    BY <1>1, CSP!TypeOKCalm
<1>3. fromDevice \in Seq(CSP!Updates) /\ okReceived \in BOOLEAN
    BY DEF CSP!TypeOK
<1>4. CASE ExposureStart
  <2>1. CSP!StartExposure
      BY <1>4, SameStarts DEF ExposureStart
  <2> QED
      BY <1>1, <1>2, <1>3, <2>1, CSP!CalmStart
<1>5. CASE StartReturns
  <2>1. PICK c \in CSP!Captures : CSP!StartReturns(c)
      BY <1>5, SameStarts DEF StartReturns, Captures, CSP!Captures
  <2> QED
      BY <1>1, <1>2, <2>1, CSP!CalmReturns
<1>6. CASE ExposureAbort
  <2>1. PICK a \in Aborters : CSP!AbortExposure(a)
      BY <1>6, SameAborts DEF ExposureAbort
  <2> QED
      BY <1>1, <1>2, <1>3, <2>1, CSP!CalmAborting
<1>7. CASE AbortPublished \/ ReaderPublished
  <2>1. CSP!ReaderPublished \/ \E a \in Aborters : CSP!AbortPublished(a)
      BY <1>7, SameAborts, SameReader DEF AbortPublished, ReaderPublished
  <2> QED
      BY <1>1, <2>1, CSP!CalmPublished
<1>8. CASE Read
  <2>1. CSP!Read
      BY <1>8, SameReader DEF Read
  <2> QED
      BY <1>1, <1>2, <1>3, <2>1, CSP!CalmRead
<1>9. CASE Camera
  <2>1. CSP!DeviceFinishes \/ CSP!DeviceFails
      BY <1>9, SameCamera DEF Camera
  <2> QED
      BY <1>1, <1>2, <1>3, <2>1, CSP!CalmDevice
<1>10. CASE UNCHANGED captureVars
  <2>1. UNCHANGED CSP!vars
      BY <1>10 DEF captureVars, CSP!vars
  <2> QED
      BY <1>1, <2>1, CSP!CalmStutters
<1> QED
    BY <1>4, <1>5, <1>6, <1>7, <1>8, <1>9, <1>10 DEF Abortless

LEMMA HealthInit == Init => HealthInv
<1> SUFFICES ASSUME Init PROVE HealthInv
    OBVIOUS
<1>1. \A e : Told(e) = 0
  <2>1. \A e : {c \in Captures : e \in announced[c]} = {}
      BY DEF Init, CS!Init, CS!Captures, Captures
  <2> QED
      BY <2>1, FS_EmptySet DEF Told
<1>2. CSP!CalmInv
  <2>1. CSP!BoundsAssumption /\ CSP!FlagsAssumption
      BY CapturesAssumption, FlagsAssumption DEF CSP!BoundsAssumption, CSP!FlagsAssumption
  <2>2. CSP!Init
      BY SameStarts DEF Init
  <2> QED
      BY <2>1, <2>2, CSP!CalmInit
<1> QED
    BY <1>1, <1>2 DEF Init, CS!Init, CS!None, HealthInv, Reported

(* Nothing that is reported, or that it is compared with, changes. *)
LEMMA HealthQuiet ==
  ASSUME CaptureTypes, HealthInv, CSP!CalmInv => CSP!CalmInv',
         UNCHANGED <<capture, status, announced, starting, reports>>,
         \A a \in Aborters : aborter'[a] # "no" => aborter[a] # "no" \/ capture # 0
  PROVE  HealthInv'
<1>1. \A e : Told(e)' = Told(e)
    BY ToldSame
<1>2. Reported(capture)' = Reported(capture) /\ Unaborted' = Unaborted
    BY DEF Reported, Unaborted
<1> QED
    BY <1>1, <1>2 DEF HealthInv, reports

LEMMA HealthRead ==
  ASSUME CSP!TypeOK, CSP!LifeInv, CaptureTypes, HealthInv, Read,
         CSP!CalmInv => CSP!CalmInv'
  PROVE  HealthInv'
<1> DEFINE end(o) == /\ capture \in Captures
                     /\ status' = [status EXCEPT ![capture] = o]
                     /\ announced' = [announced EXCEPT ![capture] = @ \cup {o}]
<1>1. UNCHANGED <<capture, starting, aborter>>
    BY Handled DEF Read
<1>2. \/ UNCHANGED <<status, announced, reports>>
      \/ end("failed") /\ OnCaptureFailed /\ ~UNCHANGED reader
      \/ end("completed") /\ OnCaptureCompleted /\ status[capture] = "exposing"
    BY Handled DEF Read, CaptureTypes, OnCaptureFailed, OnCaptureCompleted, reports
<1>3. CASE UNCHANGED <<status, announced, reports>>
    BY <1>1, <1>3, HealthQuiet
<1>4. CASE end("completed") /\ OnCaptureCompleted /\ status[capture] = "exposing"
  <2>1. "completed" \notin announced[capture]
      BY <1>4, CapturesAssumption
         DEF CSP!LifeInv, CSP!Life, CSP!Terminal, CSP!Captures, Captures
  <2>2. Told("completed")' = Told("completed") + 1 /\ Told("failed")' = Told("failed")
      BY <1>4, <2>1, ToldMore
  <2>3. Reported(capture)' = "SUCCESS" /\ lastStatus' = "SUCCESS"
      BY <1>1, <1>4 DEF Reported, CaptureTypes, OnCaptureCompleted, CS!None
  <2>4. Unaborted' => Unaborted
      BY <1>4 DEF Unaborted, CaptureTypes
  <2> QED
      BY <1>1, <1>4, <2>2, <2>3, <2>4 DEF HealthInv, OnCaptureCompleted
<1>5. CASE end("failed") /\ OnCaptureFailed /\ ~UNCHANGED reader
  <2>1. Told("completed")' = Told("completed")
      BY <1>5, ToldMore
  <2>2. Reported(capture)' = "FAILED" /\ lastStatus' = "FAILED"
      BY <1>1, <1>5 DEF Reported, CaptureTypes, OnCaptureFailed, CS!None
  <2>3. Unaborted' => Unaborted
      BY <1>5 DEF Unaborted, CaptureTypes
  <2>4. ASSUME CSP!CalmInv PROVE "failed" \notin announced[capture]
    <3>1. CSP!BoundsAssumption /\ CSP!FlagsAssumption
        BY CapturesAssumption, FlagsAssumption
           DEF CSP!BoundsAssumption, CSP!FlagsAssumption
    <3>2. CSP!CalmTypes /\ fromDevice \in Seq(CSP!Updates) /\ CSP!Read
        BY <3>1, CSP!TypeOKCalm, SameReader DEF CSP!TypeOK, Read
    <3>3. CSP!Exposing(capture) \/ UNCHANGED <<status, announced, file, reader>>
        BY <2>4, <3>1, <3>2, CSP!CalmOutcome
    <3>4. announced[capture] = {"started"}
        BY <1>5, <2>4, <3>3
           DEF CSP!Exposing, CSP!CalmInv, CSP!Story, CSP!Told, CSP!Captures, Captures
    <3> QED
        BY <3>4
  <2>5. CSP!CalmInv => Told("failed")' = Told("failed") + 1
      BY <1>5, <2>4, ToldMore
  <2> QED
      BY <1>1, <1>5, <2>1, <2>2, <2>3, <2>5 DEF HealthInv, OnCaptureFailed
<1> QED
    BY <1>2, <1>3, <1>4, <1>5

LEMMA HealthStep ==
  CSP!TypeOK /\ CSP!LifeInv /\ ConfigInv /\ HealthInv /\ [Next]_vars => HealthInv'
<1> SUFFICES ASSUME CSP!TypeOK, CSP!LifeInv, ConfigInv, HealthInv, [Next]_vars
             PROVE  HealthInv'
    OBVIOUS
<1>0. CaptureTypes
    BY CaptureTypesHold
<1>1. Abortless => (CSP!CalmInv => CSP!CalmInv')
    BY CalmLasts
<1>2. CASE ExposureStart
  <2>1. capture' = capture + 1 /\ capture' \in Captures /\ capture' # 0
      BY <1>0, <1>2, CapturesAssumption
         DEF ExposureStart, CS!StartExposure, CaptureTypes, Captures
  <2>2. /\ starting' = [starting EXCEPT ![capture + 1] = CS!SendStage]
        /\ UNCHANGED <<announced, aborter, total, failed>>
      BY <1>2 DEF ExposureStart, CS!StartExposure, reports
  <2>3. starting'[capture'] # "no"
      BY <1>0, <2>1, <2>2 DEF CaptureTypes, CS!SendStage
  <2>4. \A e : Told(e)' = Told(e)
      BY <2>2, ToldSame
  <2>5. (Unaborted' => Unaborted) /\ Abortless
      BY <1>2, <2>2 DEF Unaborted, Abortless
  <2> QED
      BY <1>1, <2>1, <2>2, <2>3, <2>4, <2>5 DEF HealthInv
<1>3. CASE StartReturns
  <2>1. PICK c \in Captures : CS!StartReturns(c)
      BY <1>3 DEF StartReturns
  <2>2. /\ c = capture /\ capture \in Captures /\ lastStatus' = "RUNNING"
        /\ status' = [status EXCEPT ![capture] = "exposing"]
        /\ announced' = [announced EXCEPT ![capture] = @ \cup {"started"}]
        /\ UNCHANGED <<capture, aborter, total, failed>>
      BY <1>3, <2>1
         DEF StartReturns, CS!StartReturns, CS!Announce, ConfigInv, OnCaptureStarted
  <2>3. Reported(capture)' = "RUNNING"
      BY <1>0, <2>2 DEF Reported, CaptureTypes, CS!None
  <2>4. Told("completed")' = Told("completed") /\ Told("failed")' = Told("failed")
      BY <1>0, <2>2, ToldMore
  <2>5. (Unaborted' => Unaborted) /\ Abortless
      BY <1>0, <1>3, <2>2 DEF Unaborted, Abortless, CaptureTypes
  <2> QED
      BY <1>1, <2>2, <2>3, <2>4, <2>5 DEF HealthInv
<1>4. CASE AbortReturns
  <2>1. PICK a \in Aborters : CS!AbortReturns(a)
      BY <1>4 DEF AbortReturns
  <2>2. /\ capture \in Captures /\ capture # 0
        /\ status' = [status EXCEPT ![capture] = "aborted"]
        /\ announced' = [announced EXCEPT ![capture] = @ \cup {"aborted"}]
        /\ lastStatus' = "ABORTED" /\ UNCHANGED <<capture, total, failed>>
      BY <1>0, <1>4, <2>1
         DEF AbortReturns, CS!AbortReturns, CS!Announce, HealthInv, CaptureTypes,
             OnCaptureAborted
  <2>3. Reported(capture)' = "ABORTED"
      BY <1>0, <2>2 DEF Reported, CaptureTypes, CS!None
  <2>4. Told("completed")' = Told("completed")
      BY <1>0, <2>2, ToldMore
  <2>5. ~Unaborted'
      BY <1>0, <2>2 DEF Unaborted, CaptureTypes
  <2> QED
      BY <2>2, <2>3, <2>4, <2>5 DEF HealthInv
<1>5. CASE Read
    BY <1>0, <1>1, <1>5, HealthRead DEF Abortless
<1>6. ASSUME Abortless, UNCHANGED <<capture, status, announced, starting, reports>>,
             \A a \in Aborters : aborter'[a] # "no" => aborter[a] # "no" \/ capture # 0
      PROVE  HealthInv'
    BY <1>0, <1>1, <1>6, HealthQuiet
<1>7. CASE ExposureAbort
  <2>1. Abortless /\ UNCHANGED <<capture, status, announced, starting, reports>> /\ capture # 0
      BY <1>7 DEF Abortless, ExposureAbort, CS!AbortExposure, CS!Exposing, CS!None,
                  CS!service, appVars
  <2> QED
      BY <1>6, <2>1
<1>8. CASE AbortPublished
  <2>1. PICK a \in Aborters : CS!AbortPublished(a)
      BY <1>8 DEF AbortPublished
  <2>2. Abortless /\ UNCHANGED <<capture, status, announced, starting, reports>>
      BY <1>8, <2>1 DEF Abortless, AbortPublished, CS!AbortPublished, appVars
  <2>3. aborter' = [aborter EXCEPT ![a] = "no"] /\ aborter[a] # "no"
      BY <2>1 DEF CS!AbortPublished
  <2>4. aborter \in [Aborters -> CSP!SendStages \cup {"publishing"}]
      BY DEF CSP!TypeOK
  <2> QED
      BY <1>6, <2>2, <2>3, <2>4
<1>9. CASE ReaderPublished \/ Camera
    BY <1>6, <1>9
       DEF Abortless, ReaderPublished, Camera, CS!ReaderPublished, CS!DeviceFinishes,
           CS!DeviceFails, CS!service, appVars
<1>10. CASE LeaseStep \/ CameraConfig \/ SequenceRequest \/ SequenceTick \/ UNCHANGED vars
    BY <1>6, <1>10
       DEF Abortless, LeaseStep, CameraConfig, SequenceRequest, SequenceTick, vars,
           captureVars, appVars
<1> QED
    BY <1>2, <1>3, <1>4, <1>5, <1>7, <1>8, <1>9, <1>10 DEF Next

(* Whatever waits for the WebSocket clients, when the event loop is free   *)
(* the health routes report the newest capture, and have counted each      *)
(* completed one once, and each failed one if none was aborted.            *)
THEOREM HealthIsTrue == Spec => []HealthTellsTheTruth
<1>1. HealthInv /\ CSP!TypeOK => HealthTellsTheTruth
  <2> SUFFICES ASSUME HealthInv, CSP!TypeOK, CS!LoopFree
               PROVE  /\ lastStatus = Reported(capture)
                      /\ total = Told("completed")
                      /\ Told("aborted") = 0 => failed = Told("failed")
      BY DEF HealthTellsTheTruth
  <2>1. \A c \in Captures : starting[c] = "no"
      BY DEF CS!LoopFree, CS!StartRuns, CS!Captures, Captures
  <2>2. ASSUME Told("aborted") = 0 PROVE Unaborted
    <3> DEFINE S == {c \in Captures : "aborted" \in announced[c]}
    <3>1. IsFiniteSet(S) /\ Cardinality(S) = 0
        BY <2>2, CapturesFinite DEF Told
    <3>2. S = {}
        BY <3>1, FS_EmptySet
    <3> QED
        BY <3>2 DEF Unaborted
  <2> QED
      BY <2>1, <2>2 DEF HealthInv
<1> QED
    BY <1>1, HealthInit, HealthStep, ConfigInit, ConfigStep, CaptureFacts,
       CaptureTypesHold, PTL DEF Spec
=============================================================================
