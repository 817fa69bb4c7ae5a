------------------------ MODULE CameraSettingsProofs ------------------------
(***************************************************************************)
(* Proofs about CameraSettings, for any settings, any values of theirs,    *)
(* any number of captures and of updates under way.                        *)
(*                                                                         *)
(* That a sidecar tells the settings of its exposure needs four facts at   *)
(* once: the exposures are calm (CalmInv of CaptureServiceProofs, whose    *)
(* lemmas hold for a queue that other updates travel in as well); what is  *)
(* under way about a setting ends with what the camera has (Mirrored); an  *)
(* exposure in the camera, an image under way and an image waiting for its *)
(* Ok were made with the settings the camera has now; and no setting is    *)
(* behind such an image (Frozen).  So when the image is handled, what the  *)
(* adapter has heard is what the camera had.                               *)
(***************************************************************************)
EXTENDS CameraSettings, SequenceTheorems, TLAPS

CSP == INSTANCE CaptureServiceProofs
    WITH Aborters <- {}, LinkDrops <- FALSE, SendSuspends <- FALSE

LEMMA Assumptions == CSP!BoundsAssumption /\ CSP!FlagsAssumption
BY BoundsAssumption, FlagsAssumption DEF CSP!BoundsAssumption, CSP!FlagsAssumption

-----------------------------------------------------------------------------
(* The captures are those of CaptureServiceProofs. *)
LEMMA SameLoop == Capture!LoopFree <=> CSP!LoopFree
BY DEF Capture!LoopFree, Capture!StartRuns, Capture!AbortRuns, Capture!ReaderRuns,
       Capture!Captures,
       CSP!LoopFree, CSP!StartRuns, CSP!AbortRuns, CSP!ReaderRuns, CSP!Captures

LEMMA SameQueue ==
    /\ \A u : Capture!Receive(u) <=> CSP!Receive(u)
    /\ \A s : Capture!Emit(s) <=> CSP!Emit(s)
    /\ \A c : Capture!Exposing(c) <=> CSP!Exposing(c)
    /\ Captures = CSP!Captures
BY SameLoop DEF Capture!Receive, Capture!Emit, Capture!Exposing, Capture!None, Captures,
                CSP!Receive, CSP!Emit, CSP!Exposing, CSP!None, CSP!Captures

LEMMA SameStarts ==
    /\ Capture!Init <=> CSP!Init
    /\ Capture!StartExposure <=> CSP!StartExposure
    /\ \A c : Capture!StartReturns(c) <=> CSP!StartReturns(c)
<1>1. Capture!Init <=> CSP!Init
  BY DEF Capture!Init, Capture!Captures, Capture!None, CSP!Init, CSP!Captures, CSP!None
<1>2. Capture!StartExposure <=> CSP!StartExposure
  <2>1. \A c : Capture!DeviceStart(c) <=> CSP!DeviceStart(c)
    BY DEF Capture!DeviceStart, Capture!Emit, Capture!Set, Capture!None,
           CSP!DeviceStart, CSP!Emit, CSP!Set, CSP!None
  <2>2. QED
    BY <2>1, SameLoop
       DEF Capture!StartExposure, Capture!MayStart, Capture!Exposing, Capture!SendStage,
           Capture!ClearFlags, Capture!None,
           CSP!StartExposure, CSP!MayStart, CSP!Exposing, CSP!SendStage, CSP!ClearFlags,
           CSP!None
<1>3. ASSUME NEW c
      PROVE  Capture!StartReturns(c) <=> CSP!StartReturns(c)
  BY SameLoop
     DEF Capture!StartReturns, Capture!MayRunStart, Capture!StartRuns, Capture!Announce,
         Capture!camera,
         CSP!StartReturns, CSP!MayRunStart, CSP!StartRuns, CSP!Announce, CSP!camera
<1>4. QED
  BY <1>1, <1>2, <1>3

LEMMA SameReader ==
    /\ Capture!Read <=> CSP!Read
    /\ Capture!ReaderPublished <=> CSP!ReaderPublished
<1>1. \A u : Capture!Receive(u) <=> CSP!Receive(u)
  BY SameQueue
<1>2. /\ \A s : Capture!Set(s) = CSP!Set(s) /\ Capture!Def(s) = CSP!Def(s)
      /\ \A c : Capture!Image(c) = CSP!Image(c)
      /\ Capture!PropertyStates = CSP!PropertyStates /\ Capture!Captures = CSP!Captures
  BY DEF Capture!Set, Capture!Def, Capture!Image, Capture!PropertyStates, Capture!Captures,
         CSP!Set, CSP!Def, CSP!Image, CSP!PropertyStates, CSP!Captures
<1>3. Capture!FailCurrent <=> CSP!FailCurrent
  BY DEF Capture!FailCurrent, Capture!None, Capture!service, Capture!Announce,
         CSP!FailCurrent, CSP!None, CSP!service, CSP!Announce
<1>4. \A ok, i : Capture!TryComplete(ok, i) <=> CSP!TryComplete(ok, i)
  BY DEF Capture!TryComplete, Capture!None, Capture!Exposing, Capture!Announce,
         CSP!TryComplete, CSP!None, CSP!Exposing, CSP!Announce
<1>5. Capture!service = CSP!service /\ Capture!service' = CSP!service'
  BY DEF Capture!service, CSP!service
<1>6. Capture!ReadDefinition <=> CSP!ReadDefinition
  BY <1>1, <1>2, <1>5 DEF Capture!ReadDefinition, CSP!ReadDefinition
<1>7. Capture!ReadUnremarkable <=> CSP!ReadUnremarkable
  BY <1>1, <1>2, <1>5 DEF Capture!ReadUnremarkable, CSP!ReadUnremarkable
<1>8. Capture!ReadAlert <=> CSP!ReadAlert
  BY <1>1, <1>2, <1>3 DEF Capture!ReadAlert, CSP!ReadAlert
<1>9. Capture!ReadOk <=> CSP!ReadOk
  BY <1>1, <1>2, <1>4 DEF Capture!ReadOk, CSP!ReadOk
<1>10. Capture!ReadImage <=> CSP!ReadImage
  BY <1>1, <1>2, <1>4 DEF Capture!ReadImage, CSP!ReadImage
<1>11. Capture!ReadInvisibleImage <=> CSP!ReadInvisibleImage
  BY <1>1, <1>2, <1>5 DEF Capture!ReadInvisibleImage, CSP!ReadInvisibleImage
<1>12. Capture!ReadVanishedImage <=> CSP!ReadVanishedImage
  BY <1>1, <1>2, <1>3 DEF Capture!ReadVanishedImage, CSP!ReadVanishedImage
<1>13. Capture!ReaderPublished <=> CSP!ReaderPublished
  BY SameLoop
     DEF Capture!ReaderPublished, Capture!MayRunReader, Capture!ReaderRuns,
         Capture!ClearFlags, Capture!None, Capture!camera,
         CSP!ReaderPublished, CSP!MayRunReader, CSP!ReaderRuns,
         CSP!ClearFlags, CSP!None, CSP!camera
<1>14. QED
  BY <1>6, <1>7, <1>8, <1>9, <1>10, <1>11, <1>12, <1>13 DEF Capture!Read, CSP!Read

LEMMA SameCamera ==
    /\ Capture!DeviceFinishes <=> CSP!DeviceFinishes
    /\ Capture!DeviceFails <=> CSP!DeviceFails
BY DEF Capture!DeviceFinishes, Capture!DeviceFails, Capture!EmitIfUp, Capture!Emit,
       Capture!Set, Capture!Image, Capture!None, Capture!service,
       CSP!DeviceFinishes, CSP!DeviceFails, CSP!EmitIfUp,
       CSP!Emit, CSP!Set, CSP!Image, CSP!None, CSP!service

-----------------------------------------------------------------------------
(* The invariant. *)
Messages ==
    CSP!Updates \cup {Said(n, v) : n \in Names, v \in Values}

Types ==
    /\ CSP!CalmTypes /\ okReceived \in BOOLEAN
    /\ fromDevice \in Seq(Messages)
    /\ taken \in [Names -> Values] /\ mirror \in [Names -> Values]

IsSetting(m) == m.kind = "setting"
Tells(m, n) == IsSetting(m) /\ m.name = n

\* The last update under way about the setting n tells what the camera has; when
\* there is none, the adapter has it.
Mirrored(n) ==
    /\ \A i \in 1 .. Len(fromDevice) :
         /\ Tells(fromDevice[i], n)
         /\ \A j \in i + 1 .. Len(fromDevice) : ~Tells(fromDevice[j], n)
         => fromDevice[i].value = taken[n]
    /\ (\A i \in 1 .. Len(fromDevice) : ~Tells(fromDevice[i], n)) => mirror[n] = taken[n]

\* No setting is under way behind the update i.
Silent(i) == \A j \in i + 1 .. Len(fromDevice) : ~IsSetting(fromDevice[j])

Frozen ==
    /\ device # CSP!None => used = {taken}
    /\ \A i \in 1 .. Len(fromDevice) :
         fromDevice[i] = CSP!Image(current) => used = {taken} /\ Silent(i)
    /\ CSP!InProgress /\ pendingImage # CSP!None => used = {taken} /\ Silent(0)

SettingsInv ==
    /\ CSP!CalmInv
    /\ \A n \in Names : Mirrored(n)
    /\ Frozen
    /\ SidecarTellsSettings

\* What is under way tells a setting or is the capture service's, not both.
LEMMA MessageKinds ==
    /\ CSP!Updates \subseteq Messages
    /\ \A m \in CSP!Updates : ~IsSetting(m)
    /\ \A n, v : IsSetting(Said(n, v)) /\ ~CSP!Decisive(Said(n, v))
    /\ \A n, v : Said(n, v).name = n /\ Said(n, v).value = v
    /\ \A s : ~IsSetting(CSP!Set(s)) /\ ~IsSetting(CSP!Def(s))
    /\ \A c : ~IsSetting(CSP!Image(c))
    /\ \A s, c : CSP!Set(s) # CSP!Image(c) /\ CSP!Def(s) # CSP!Image(c)
<1>1. CSP!Updates \subseteq Messages
  BY DEF Messages
<1>2. \A m \in CSP!Updates : ~IsSetting(m)
  BY DEF CSP!Updates, IsSetting
<1>3. /\ \A s : ~IsSetting(CSP!Set(s)) /\ ~IsSetting(CSP!Def(s))
      /\ \A c : ~IsSetting(CSP!Image(c))
  BY DEF IsSetting, CSP!Set, CSP!Def, CSP!Image
<1>4. \A n, v : IsSetting(Said(n, v)) /\ Said(n, v).name = n /\ Said(n, v).value = v
  BY DEF IsSetting, Said
<1>5. \A n, v : ~CSP!Decisive(Said(n, v))
  BY <1>3, <1>4 DEF CSP!Decisive
<1>6. \A s, c : CSP!Set(s) # CSP!Image(c) /\ CSP!Def(s) # CSP!Image(c)
  BY DEF CSP!Set, CSP!Def, CSP!Image
<1>7. QED
  BY <1>1, <1>2, <1>3, <1>4, <1>5, <1>6

\* The oldest update is taken from the queue.
Shifted(m) ==
    /\ m = fromDevice[1] /\ Len(fromDevice) \in Nat \ {0}
    /\ Len(fromDevice') = Len(fromDevice) - 1
    /\ \A i \in 1 .. Len(fromDevice') : fromDevice'[i] = fromDevice[i + 1]

\* The updates s come behind those under way.
Extended(s) ==
    /\ Len(fromDevice) \in Nat /\ Len(s) \in Nat
    /\ Len(fromDevice') = Len(fromDevice) + Len(s)
    /\ \A i \in 1 .. Len(fromDevice) : fromDevice'[i] = fromDevice[i]
    /\ \A i \in 1 .. Len(s) : fromDevice'[Len(fromDevice) + i] = s[i]

LEMMA QueueMoves ==
    ASSUME fromDevice \in Seq(Messages)
    PROVE  /\ \A m : CSP!Receive(m) =>
                Shifted(m) /\ m \in Messages /\ fromDevice' \in Seq(Messages)
           /\ \A s \in Seq(Messages) :
                CSP!Emit(s) => Extended(s) /\ fromDevice' \in Seq(Messages)
<1>1. ASSUME NEW m, CSP!Receive(m)
      PROVE  Shifted(m) /\ m \in Messages /\ fromDevice' \in Seq(Messages)
  <2>1. Len(fromDevice) \in Nat
    BY LenProperties
  <2>2. QED
    BY <1>1, <2>1, Assumptions, CSP!Received DEF Shifted
<1>2. ASSUME NEW s \in Seq(Messages), CSP!Emit(s)
      PROVE  Extended(s) /\ fromDevice' \in Seq(Messages)
  <2>1. Len(fromDevice) \in Nat /\ Len(s) \in Nat
    BY LenProperties
  <2>2. QED
    BY <1>2, <2>1, Assumptions, CSP!Emitted DEF Extended
<1>3. QED
  BY <1>1, <1>2

LEMMA SilentShifts ==
    ASSUME NEW m, Shifted(m), NEW i \in Nat, Silent(i + 1)
    PROVE  Silent(i)'
<1> SUFFICES ASSUME NEW j \in i + 1 .. Len(fromDevice')
             PROVE  ~IsSetting(fromDevice'[j])
  BY DEF Silent
<1>1. j \in 1 .. Len(fromDevice') /\ j + 1 \in (i + 1) + 1 .. Len(fromDevice)
  BY DEF Shifted
<1>2. QED
  BY <1>1 DEF Shifted, Silent

LEMMA SilentExtends ==
    ASSUME NEW s, Extended(s), \A k \in 1 .. Len(s) : ~IsSetting(s[k]),
           NEW i \in Nat, Silent(i) \/ i >= Len(fromDevice)
    PROVE  Silent(i)'
<1> DEFINE l == Len(fromDevice)
<1> SUFFICES ASSUME NEW j \in i + 1 .. Len(fromDevice')
             PROVE  ~IsSetting(fromDevice'[j])
  BY DEF Silent
<1>1. l \in Nat /\ Len(s) \in Nat /\ j \in Int /\ j <= l + Len(s)
  BY DEF Extended
<1>2. CASE j <= l
  <2>1. j \in i + 1 .. l /\ j \in 1 .. l
    BY <1>1, <1>2
  <2>2. Silent(i)
    BY <1>1, <2>1
  <2>3. QED
    BY <2>1, <2>2 DEF Extended, Silent
<1>3. CASE j > l
  <2>1. j - l \in 1 .. Len(s) /\ l + (j - l) = j
    BY <1>1, <1>3
  <2>2. fromDevice'[j] = s[j - l]
    BY <2>1 DEF Extended
  <2>3. QED
    BY <2>1, <2>2
<1>4. QED
  BY <1>1, <1>2, <1>3

LEMMA MirroredShifts ==
    ASSUME NEW m, Shifted(m), NEW n \in Names, Mirrored(n), taken' = taken,
           IF Tells(m, n) THEN mirror'[n] = m.value ELSE mirror'[n] = mirror[n]
    PROVE  Mirrored(n)'
<1>1. /\ Len(fromDevice) \in Nat /\ Len(fromDevice) > 0 /\ m = fromDevice[1]
      /\ Len(fromDevice') = Len(fromDevice) - 1
      /\ \A i \in 1 .. Len(fromDevice') : fromDevice'[i] = fromDevice[i + 1]
  BY DEF Shifted
<1>2. ASSUME NEW i \in 1 .. Len(fromDevice'), Tells(fromDevice'[i], n),
             \A j \in i + 1 .. Len(fromDevice') : ~Tells(fromDevice'[j], n)
      PROVE  fromDevice'[i].value = taken'[n]
  <2>1. i + 1 \in 1 .. Len(fromDevice) /\ fromDevice'[i] = fromDevice[i + 1]
    BY <1>1
  <2>2. ASSUME NEW j \in (i + 1) + 1 .. Len(fromDevice)
        PROVE  ~Tells(fromDevice[j], n)
    <3>1. /\ j - 1 \in i + 1 .. Len(fromDevice') /\ j - 1 \in 1 .. Len(fromDevice')
          /\ (j - 1) + 1 = j
      BY <1>1
    <3>2. QED
      BY <1>1, <1>2, <3>1
  <2>3. QED
    BY <1>2, <2>1, <2>2 DEF Mirrored
<1>3. ASSUME \A i \in 1 .. Len(fromDevice') : ~Tells(fromDevice'[i], n)
      PROVE  mirror'[n] = taken'[n]
  <2>1. \A j \in 2 .. Len(fromDevice) : ~Tells(fromDevice[j], n)
    <3> SUFFICES ASSUME NEW j \in 2 .. Len(fromDevice)
                 PROVE  ~Tells(fromDevice[j], n)
      OBVIOUS
    <3>1. j - 1 \in 1 .. Len(fromDevice') /\ (j - 1) + 1 = j
      BY <1>1
    <3>2. QED
      BY <1>1, <1>3, <3>1
  <2>2. CASE Tells(m, n)
    <3>1. 1 \in 1 .. Len(fromDevice) /\ 1 + 1 = 2
      BY <1>1
    <3>2. fromDevice[1].value = taken[n]
      BY <1>1, <2>1, <2>2, <3>1 DEF Mirrored
    <3>3. QED
      BY <1>1, <2>2, <3>2
  <2>3. CASE ~Tells(m, n)
    <3>1. \A j \in 1 .. Len(fromDevice) : ~Tells(fromDevice[j], n)
      BY <1>1, <2>1, <2>3
    <3>2. QED
      BY <2>3, <3>1 DEF Mirrored
  <2>4. QED
    BY <2>2, <2>3
<1>4. QED
  BY <1>2, <1>3 DEF Mirrored

\* Nothing is added about n, or something that tells what n becomes.
LEMMA MirroredExtends ==
    ASSUME NEW s, Extended(s), NEW n \in Names, Mirrored(n), mirror' = mirror,
           \/ (\A k \in 1 .. Len(s) : ~Tells(s[k], n)) /\ taken'[n] = taken[n]
           \/ /\ \E k \in 1 .. Len(s) : Tells(s[k], n)
              /\ \A k \in 1 .. Len(s) : Tells(s[k], n) => s[k].value = taken'[n]
    PROVE  Mirrored(n)'
<1> DEFINE l == Len(fromDevice)
<1>1. /\ l \in Nat /\ Len(s) \in Nat /\ Len(fromDevice') = l + Len(s)
      /\ \A i \in 1 .. l : fromDevice'[i] = fromDevice[i]
      /\ \A i \in 1 .. Len(s) : fromDevice'[l + i] = s[i]
  BY DEF Extended
<1>2. ASSUME NEW i \in 1 .. l + Len(s)
      PROVE  \/ i \in 1 .. l /\ fromDevice'[i] = fromDevice[i]
             \/ i - l \in 1 .. Len(s) /\ fromDevice'[i] = s[i - l] /\ i > l
  <2>1. CASE i <= l
    BY <1>1, <2>1
  <2>2. CASE i > l
    <3>1. i - l \in 1 .. Len(s) /\ l + (i - l) = i
      BY <1>1, <2>2
    <3>2. QED
      BY <1>1, <2>2, <3>1
  <2>3. QED
    BY <1>1, <2>1, <2>2
<1>3. CASE (\A k \in 1 .. Len(s) : ~Tells(s[k], n)) /\ taken'[n] = taken[n]
  <2>1. ASSUME NEW i \in 1 .. Len(fromDevice'), Tells(fromDevice'[i], n),
               \A j \in i + 1 .. Len(fromDevice') : ~Tells(fromDevice'[j], n)
        PROVE  fromDevice'[i].value = taken'[n]
    <3>1. i \in 1 .. l /\ fromDevice'[i] = fromDevice[i]
      BY <1>1, <1>2, <1>3, <2>1
    <3>2. \A j \in i + 1 .. l : ~Tells(fromDevice[j], n)
      BY <1>1, <2>1
    <3>3. QED
      BY <1>3, <2>1, <3>1, <3>2 DEF Mirrored
  <2>2. (\A i \in 1 .. Len(fromDevice') : ~Tells(fromDevice'[i], n))
          => \A i \in 1 .. l : ~Tells(fromDevice[i], n)
    BY <1>1
  <2>3. QED
    BY <1>3, <2>1, <2>2 DEF Mirrored
<1>4. ASSUME NEW k \in 1 .. Len(s), Tells(s[k], n),
             \A q \in 1 .. Len(s) : Tells(s[q], n) => s[q].value = taken'[n]
      PROVE  Mirrored(n)'
  <2>1. l + k \in 1 .. Len(fromDevice') /\ fromDevice'[l + k] = s[k]
    BY <1>1
  <2>2. ASSUME NEW i \in 1 .. Len(fromDevice'), Tells(fromDevice'[i], n),
               \A j \in i + 1 .. Len(fromDevice') : ~Tells(fromDevice'[j], n)
        PROVE  fromDevice'[i].value = taken'[n]
    <3>1. i \notin 1 .. l
      <4>1. i \in 1 .. l => l + k \in i + 1 .. Len(fromDevice')
        BY <1>1
      <4>2. QED
        BY <1>4, <2>1, <2>2, <4>1
    <3>2. i - l \in 1 .. Len(s) /\ fromDevice'[i] = s[i - l]
      BY <1>1, <1>2, <3>1
    <3>3. QED
      BY <1>4, <2>2, <3>2
  <2>3. QED
    BY <1>4, <2>1, <2>2 DEF Mirrored
<1>5. QED
  BY <1>3, <1>4

-----------------------------------------------------------------------------
(* The steps. *)

\* With no setting under way, the adapter has heard all of them.
LEMMA MirrorIsTaken ==
    ASSUME Types, \A n \in Names : Mirrored(n), \A i \in 1 .. Len(fromDevice) :
           ~IsSetting(fromDevice[i])
    PROVE  mirror = taken
<1>1. \A n \in Names : mirror[n] = taken[n]
  BY DEF Mirrored, Tells
<1>2. QED
  BY <1>1 DEF Types

\* An image under way is decisive.
LEMMA ImageOutstanding ==
    ASSUME NEW i \in 1 .. Len(fromDevice), fromDevice[i] = CSP!Image(current),
           current \in CSP!Captures
    PROVE  i \in CSP!Outstanding
BY DEF CSP!Outstanding, CSP!Decisive

\* A sidecar stays true while neither the capture nor the settings it tells change.
LEMMA NotedStays ==
    ASSUME SidecarTellsSettings, UNCHANGED <<status, current, used, noted>>
    PROVE  SidecarTellsSettings'
BY DEF SidecarTellsSettings

LEMMA SettingsStart ==
    ASSUME Types, SettingsInv, ExposureStart
    PROVE  Types' /\ SettingsInv'
<1>0. CSP!StartExposure /\ UNCHANGED <<taken, mirror, noted>>
      /\ used' = IF device' = device THEN used ELSE {taken}
  BY SameStarts DEF ExposureStart
<1>1. CSP!CalmTypes' /\ okReceived' \in BOOLEAN
  BY <1>0, Assumptions, CSP!CalmTypesKept DEF Types
<1>2. CSP!CalmInv'
  BY <1>0, Assumptions, MessageKinds, CSP!CalmStart DEF Types, SettingsInv
<1>3. device = CSP!None /\ CSP!Outstanding = {}
  BY <1>0, Assumptions, CSP!CalmFree
     DEF CSP!StartExposure, CSP!MayStart, Types, SettingsInv
<1>4. /\ current' = current + 1 /\ current' \in CSP!Captures
      /\ status' = [status EXCEPT ![current'] = "pending"] /\ pendingImage' = CSP!None
  BY <1>0, Assumptions
     DEF CSP!StartExposure, CSP!ClearFlags, Types, CSP!CalmTypes, CSP!CaptureTypes,
         CSP!BoundsAssumption, CSP!Captures, CSP!None
<1>5. PICK s \in {"busy", "alert"} : CSP!Emit(<<CSP!Set(s)>>)
  <2>1. CSP!DeviceStart(current + 1) /\ link = "up"
    BY <1>0 DEF CSP!StartExposure, SettingsInv, CSP!CalmInv
  <2>2. QED
    BY <1>3, <2>1 DEF CSP!DeviceStart
<1>6. PICK u \in Seq(Messages) :
        u = <<CSP!Set(s)>> /\ Len(u) = 1 /\ u[1] = CSP!Set(s)
  <2>1. CSP!Set(s) \in Messages
    BY Assumptions, CSP!UpdateTypes, MessageKinds DEF CSP!PropertyStates
  <2>2. <<CSP!Set(s)>> \in Seq(Messages) /\ Len(<<CSP!Set(s)>>) = 1
    BY <2>1
  <2>3. QED
    BY <2>2
<1>7. Extended(u) /\ fromDevice' \in Seq(Messages)
  BY <1>5, <1>6, QueueMoves DEF Types
<1>8. \A k \in 1 .. Len(u) : ~IsSetting(u[k]) /\ \A c : u[k] # CSP!Image(c)
  BY <1>6, MessageKinds
<1>9. Types'
  BY <1>0, <1>1, <1>7 DEF Types
<1>10. \A n \in Names : Mirrored(n)'
  BY <1>0, <1>7, <1>8, MirroredExtends DEF SettingsInv, Tells
<1>11. Frozen'
  <2>1. device' # CSP!None => used' = {taken'}
    BY <1>0, <1>3
  <2>2. ASSUME NEW i \in 1 .. Len(fromDevice'), fromDevice'[i] = CSP!Image(current')
        PROVE  FALSE
    <3>1. i \in 1 .. Len(fromDevice) /\ fromDevice'[i] = fromDevice[i]
      <4>1. i > Len(fromDevice) => i = Len(fromDevice) + 1
        BY <1>6, <1>7 DEF Extended
      <4>2. i # Len(fromDevice) + 1
        BY <1>6, <1>7, <1>8, <2>2 DEF Extended
      <4>3. QED
        BY <1>7, <4>1, <4>2 DEF Extended
    <3>2. CSP!Decisive(fromDevice[i])
      BY <1>4, <2>2, <3>1 DEF CSP!Decisive
    <3>3. QED
      BY <1>3, <3>1, <3>2 DEF CSP!Outstanding
  <2>3. QED
    BY <1>4, <2>1, <2>2 DEF Frozen
<1>12. SidecarTellsSettings'
  BY <1>4, SameQueue DEF SidecarTellsSettings, Types, CSP!CalmTypes, CSP!CaptureTypes
<1>13. QED
  BY <1>2, <1>9, <1>10, <1>11, <1>12 DEF SettingsInv

\* What leaves the queue, the settings, the camera and the pending image alone
\* keeps everything, if it completes nothing and starts nothing.
LEMMA SettingsQuiet ==
    ASSUME SettingsInv, CSP!CalmInv',
           UNCHANGED <<fromDevice, device, current, taken, mirror, used, noted>>,
           CSP!InProgress' /\ pendingImage' # CSP!None
             => CSP!InProgress /\ pendingImage # CSP!None,
           \A c \in Captures : status'[c] = "completed" => status[c] = "completed"
    PROVE  SettingsInv'
<1>1. \A n \in Names : Mirrored(n)'
  BY DEF SettingsInv, Mirrored
<1>2. Frozen'
  BY DEF SettingsInv, Frozen, Silent
<1>3. SidecarTellsSettings'
  BY DEF SettingsInv, SidecarTellsSettings
<1>4. QED
  BY <1>1, <1>2, <1>3 DEF SettingsInv

LEMMA SettingsReturns ==
    ASSUME Types, SettingsInv, NEW c \in Captures, StartReturns(c)
    PROVE  Types' /\ SettingsInv'
<1>0. CSP!StartReturns(c) /\ UNCHANGED <<taken, mirror, used, noted>> /\ c \in CSP!Captures
  BY SameStarts, SameQueue DEF StartReturns
<1>1. CSP!CalmTypes' /\ okReceived' \in BOOLEAN
  BY <1>0, Assumptions, CSP!CalmTypesKept DEF Types
<1>2. c = current /\ status[c] = "pending" /\ CSP!CalmInv'
  BY <1>0, Assumptions, CSP!CalmReturns DEF Types, SettingsInv
<1>3. /\ UNCHANGED <<fromDevice, device, current, pendingImage>>
      /\ status' = [status EXCEPT ![c] = "exposing"]
  BY <1>0 DEF CSP!StartReturns, CSP!camera
<1>4. CSP!InProgress' => CSP!InProgress
  BY <1>0, <1>2, <1>3 DEF CSP!InProgress, CSP!CalmInv, CSP!Story, CSP!CalmTypes, CSP!None
<1>5. \A d \in Captures : status'[d] = "completed" => status[d] = "completed"
  BY <1>0, <1>3, SameQueue DEF Types, CSP!CalmTypes, CSP!CaptureTypes
<1>6. SettingsInv'
  BY <1>0, <1>2, <1>3, <1>4, <1>5, SettingsQuiet
<1>7. QED
  BY <1>0, <1>1, <1>3, <1>6 DEF Types

LEMMA SettingsPublished ==
    ASSUME Types, SettingsInv, ReaderPublished
    PROVE  Types' /\ SettingsInv'
<1>0. CSP!ReaderPublished /\ UNCHANGED <<taken, mirror, used, noted>>
  BY SameReader DEF ReaderPublished
<1>1. CSP!CalmTypes' /\ okReceived' \in BOOLEAN
  BY <1>0, Assumptions, CSP!CalmTypesKept DEF Types
<1>2. CSP!CalmInv'
  BY <1>0, Assumptions, CSP!CalmPublished DEF SettingsInv
<1>3. UNCHANGED <<fromDevice, device, current, status>> /\ pendingImage' = CSP!None
  BY <1>0 DEF CSP!ReaderPublished, CSP!ClearFlags, CSP!camera
<1>4. SettingsInv'
  BY <1>0, <1>2, <1>3, SettingsQuiet
<1>5. QED
  BY <1>0, <1>1, <1>3, <1>4 DEF Types

LEMMA SettingsStutter ==
    ASSUME Types, SettingsInv, UNCHANGED vars
    PROVE  Types' /\ SettingsInv'
<1>1. /\ UNCHANGED CSP!vars
      /\ UNCHANGED <<okReceived, fromDevice, device, current, status, pendingImage,
                     taken, mirror, used, noted>>
  BY DEF vars, captureVars, service, CSP!vars
<1>2. CSP!CalmInv'
  BY <1>1, Assumptions, CSP!CalmStutters DEF SettingsInv
<1>3. CSP!CalmTypes'
  BY <1>1 DEF Types, CSP!CalmTypes, CSP!CaptureTypes, CSP!vars
<1>4. CSP!InProgress' => CSP!InProgress
  BY <1>1 DEF CSP!InProgress
<1>5. SettingsInv'
  BY <1>1, <1>2, <1>4, SettingsQuiet
<1>6. QED
  BY <1>1, <1>3, <1>5 DEF Types

\* The camera ends the exposure it was making with its settings of now.
LEMMA SettingsCamera ==
    ASSUME Types, SettingsInv, Camera
    PROVE  Types' /\ SettingsInv'
<1>0. (CSP!DeviceFinishes \/ CSP!DeviceFails) /\ UNCHANGED <<taken, mirror, used, noted>>
  BY SameCamera DEF Camera
<1>1. CSP!CalmTypes' /\ okReceived' \in BOOLEAN
  BY <1>0, Assumptions, CSP!CalmTypesKept DEF Types
<1>2. CSP!CalmInv'
  BY <1>0, Assumptions, MessageKinds, CSP!CalmDevice DEF Types, SettingsInv
<1>3. /\ device = current /\ current \in CSP!Captures /\ CSP!Outstanding = {}
      /\ pendingImage = CSP!None /\ link = "up" /\ used = {taken}
  BY <1>0 DEF CSP!DeviceFinishes, CSP!DeviceFails, SettingsInv, CSP!CalmInv,
              CSP!OneDecisive, Types, CSP!CalmTypes, Frozen
<1>4. UNCHANGED <<status, current, pendingImage>> /\ device' = CSP!None
  BY <1>0 DEF CSP!DeviceFinishes, CSP!DeviceFails, CSP!service
<1>5. PICK u \in Seq(Messages) : CSP!Emit(u) /\ \A k \in 1 .. Len(u) : ~IsSetting(u[k])
  <2>1. /\ CSP!Image(current) \in Messages /\ ~IsSetting(CSP!Image(current))
        /\ \A s \in {"ok", "alert"} : CSP!Set(s) \in Messages /\ ~IsSetting(CSP!Set(s))
    BY <1>3, Assumptions, CSP!UpdateTypes, MessageKinds DEF CSP!PropertyStates
  <2>2. ASSUME NEW x \in Messages, NEW y \in Messages, ~IsSetting(x), ~IsSetting(y),
               CSP!Emit(<<x, y>>)
        PROVE  \E u \in Seq(Messages) :
                 CSP!Emit(u) /\ \A k \in 1 .. Len(u) : ~IsSetting(u[k])
    <3>1. <<x, y>> \in Seq(Messages) /\ \A k \in 1 .. Len(<<x, y>>) : ~IsSetting(<<x, y>>[k])
      BY <2>2
    <3>2. QED
      BY <2>2, <3>1
  <2>3. ASSUME NEW x \in Messages, ~IsSetting(x), CSP!Emit(<<x>>)
        PROVE  \E u \in Seq(Messages) :
                 CSP!Emit(u) /\ \A k \in 1 .. Len(u) : ~IsSetting(u[k])
    <3>1. <<x>> \in Seq(Messages) /\ \A k \in 1 .. Len(<<x>>) : ~IsSetting(<<x>>[k])
      BY <2>3
    <3>2. QED
      BY <2>3, <3>1
  <2>4. \/ CSP!Emit(<<CSP!Image(current), CSP!Set("ok")>>)
        \/ CSP!Emit(<<CSP!Set("ok"), CSP!Image(current)>>)
        \/ CSP!Emit(<<CSP!Set("alert")>>)
    BY <1>0, <1>3 DEF CSP!DeviceFinishes, CSP!DeviceFails, CSP!EmitIfUp
  <2>5. QED
    BY <2>1, <2>2, <2>3, <2>4
<1>6. Extended(u) /\ fromDevice' \in Seq(Messages)
  BY <1>5, QueueMoves DEF Types
<1>7. Types'
  BY <1>0, <1>1, <1>6 DEF Types
<1>8. \A n \in Names : Mirrored(n)'
  BY <1>0, <1>5, <1>6, MirroredExtends DEF SettingsInv, Tells
<1>9. Frozen'
  <2>1. ASSUME NEW i \in 1 .. Len(fromDevice'), fromDevice'[i] = CSP!Image(current')
        PROVE  Silent(i)'
    <3>1. i \notin 1 .. Len(fromDevice)
      <4>1. ASSUME i \in 1 .. Len(fromDevice)
            PROVE  FALSE
        <5>1. fromDevice[i] = CSP!Image(current)
          BY <1>4, <1>6, <2>1, <4>1 DEF Extended
        <5>2. QED
          BY <1>3, <4>1, <5>1, ImageOutstanding
      <4>2. QED
        BY <4>1
    <3>2. i \in Nat /\ i >= Len(fromDevice)
      BY <1>6, <3>1 DEF Extended
    <3>3. QED
      BY <1>5, <1>6, <3>2, SilentExtends
  <2>2. QED
    BY <1>0, <1>3, <1>4, <2>1 DEF Frozen
<1>10. SidecarTellsSettings'
  BY <1>0, <1>4, NotedStays DEF SettingsInv
<1>11. QED
  BY <1>2, <1>7, <1>8, <1>9, <1>10 DEF SettingsInv

\* What of Frozen survives the reading of an update.
LEMMA FrozenShifts ==
    ASSUME NEW m, Shifted(m), Frozen, UNCHANGED <<device, current, taken, used>>,
           CSP!InProgress' /\ pendingImage' # CSP!None =>
             \/ CSP!InProgress /\ pendingImage # CSP!None
             \/ m = CSP!Image(current)
    PROVE  Frozen'
<1>1. ASSUME NEW i \in 1 .. Len(fromDevice'), fromDevice'[i] = CSP!Image(current')
      PROVE  used' = {taken'} /\ Silent(i)'
  <2>1. i + 1 \in 1 .. Len(fromDevice) /\ fromDevice[i + 1] = CSP!Image(current) /\ i \in Nat
    BY <1>1 DEF Shifted
  <2>2. used = {taken} /\ Silent(i + 1)
    BY <2>1 DEF Frozen
  <2>3. QED
    BY <2>1, <2>2, SilentShifts
<1>2. ASSUME CSP!InProgress', pendingImage' # CSP!None
      PROVE  used' = {taken'} /\ Silent(0)'
  <2>1. used = {taken} /\ Silent(0 + 1)
    <3>1. CASE CSP!InProgress /\ pendingImage # CSP!None
      BY <3>1 DEF Frozen, Silent
    <3>2. CASE m = CSP!Image(current)
      <4>1. 1 \in 1 .. Len(fromDevice) /\ fromDevice[1] = CSP!Image(current)
        BY <3>2 DEF Shifted
      <4>2. used = {taken} /\ Silent(1)
        BY <4>1 DEF Frozen
      <4>3. QED
        BY <4>2
    <3>3. QED
      BY <1>2, <3>1, <3>2
  <2>2. QED
    BY <2>1, SilentShifts
<1>3. device' # CSP!None => used' = {taken'}
  BY DEF Frozen
<1>4. QED
  BY <1>1, <1>2, <1>3 DEF Frozen

LEMMA SettingsHeard ==
    ASSUME Types, SettingsInv, ReadSetting
    PROVE  Types' /\ SettingsInv'
<1>1. PICK n \in Names, v \in Values :
        CSP!Receive(Said(n, v)) /\ mirror' = [mirror EXCEPT ![n] = v]
  BY SameQueue DEF ReadSetting
<1>2. /\ UNCHANGED <<service, reader, expState, taken, used, noted>>
      /\ UNCHANGED <<starting, aborter, device, devState, link>>
  BY <1>1 DEF ReadSetting, CSP!Receive
<1>3. Shifted(Said(n, v)) /\ fromDevice' \in Seq(Messages)
  BY <1>1, QueueMoves DEF Types
<1>4. CSP!CalmInv'
  <2>1. UNCHANGED CSP!service
    BY <1>2 DEF service, CSP!service
  <2>2. QED
    BY <1>1, <2>1, Assumptions, CSP!CalmUndecided DEF Types, SettingsInv
<1>5. Types'
  <2>1. mirror' \in [Names -> Values]
    BY <1>1 DEF Types
  <2>2. CSP!CalmTypes'
    BY <1>2 DEF Types, CSP!CalmTypes, CSP!CaptureTypes, service
  <2>3. QED
    BY <1>2, <1>3, <2>1, <2>2 DEF Types, service
<1>6. \A k \in Names : Mirrored(k)'
  <2> SUFFICES ASSUME NEW k \in Names
               PROVE  Mirrored(k)'
    OBVIOUS
  <2>1. Tells(Said(n, v), k) <=> k = n
    BY MessageKinds DEF Tells
  <2>2. IF k = n THEN mirror'[k] = Said(n, v).value ELSE mirror'[k] = mirror[k]
    BY <1>1, MessageKinds DEF Types
  <2>3. QED
    BY <1>2, <1>3, <2>1, <2>2, MirroredShifts DEF SettingsInv
<1>7. CSP!InProgress' = CSP!InProgress
  BY <1>2 DEF service, CSP!InProgress
<1>8. Frozen'
  BY <1>2, <1>3, <1>7, FrozenShifts DEF SettingsInv, service
<1>9. SidecarTellsSettings'
  BY <1>2, NotedStays DEF SettingsInv, service
<1>10. QED
  BY <1>4, <1>5, <1>6, <1>8, <1>9 DEF SettingsInv

LEMMA ImagesOfCaptures == \A c : CSP!Image(c) \in Messages => c \in CSP!Captures
<1> SUFFICES ASSUME NEW c, CSP!Image(c) \in Messages
             PROVE  c \in CSP!Captures
  OBVIOUS
<1>1. CSP!Image(c) \in CSP!Updates
  BY MessageKinds DEF Messages
<1>2. CSP!Image(c).kind = "image" /\ CSP!Image(c).of = c
  BY DEF CSP!Image
<1>3. QED
  BY <1>1, <1>2 DEF CSP!Updates

\* The capture service reads an update of its own: a state, or an image.
LEMMA SettingsRead ==
    ASSUME Types, SettingsInv, CSP!Read, Noted, UNCHANGED <<taken, mirror, used>>
    PROVE  Types' /\ SettingsInv'
<1>1. PICK u :
        /\ CSP!Receive(u) /\ ~IsSetting(u)
        /\ \/ UNCHANGED CSP!service
           \/ CSP!FailCurrent
           \/ \E ok \in BOOLEAN : CSP!TryComplete(ok, pendingImage)
           \/ \E ok \in BOOLEAN, k \in CSP!Captures :
                 u = CSP!Image(k) /\ CSP!TryComplete(ok, k)
  <2>1. CASE CSP!ReadDefinition
    BY <2>1, MessageKinds DEF CSP!ReadDefinition, CSP!service
  <2>2. CASE CSP!ReadUnremarkable
    BY <2>2, MessageKinds DEF CSP!ReadUnremarkable, CSP!service
  <2>3. CASE CSP!ReadAlert
    BY <2>3, MessageKinds DEF CSP!ReadAlert
  <2>4. CASE CSP!ReadOk
    BY <2>4, MessageKinds DEF CSP!ReadOk
  <2>5. CASE CSP!ReadImage
    BY <2>5, MessageKinds DEF CSP!ReadImage, Types
  <2>6. CASE CSP!ReadInvisibleImage
    BY <2>6, MessageKinds DEF CSP!ReadInvisibleImage, CSP!service
  <2>7. CASE CSP!ReadVanishedImage
    BY <2>7, MessageKinds DEF CSP!ReadVanishedImage
  <2>8. QED
    BY <2>1, <2>2, <2>3, <2>4, <2>5, <2>6, <2>7 DEF CSP!Read
<1>2. Shifted(u) /\ fromDevice' \in Seq(Messages)
  BY <1>1, QueueMoves DEF Types
<1>3. CSP!CalmInv'
  BY Assumptions, CSP!CalmRead DEF Types, SettingsInv
<1>4. Types'
  <2>1. CSP!CalmTypes' /\ okReceived' \in BOOLEAN
    BY Assumptions, CSP!CalmTypesKept DEF Types
  <2>2. QED
    BY <1>2, <2>1 DEF Types
<1>5. current' = current /\ UNCHANGED device
  BY <1>1 DEF CSP!Receive, CSP!service, CSP!FailCurrent, CSP!TryComplete
<1>6. ASSUME NEW k \in CSP!Captures, u = CSP!Image(k)
      PROVE  k = current
  <2>1. CSP!Decisive(u)
    BY <1>6 DEF CSP!Decisive
  <2>2. u \in {CSP!Set("alert"), CSP!Image(current)}
    BY <1>1, <2>1, Assumptions, CSP!CalmReceived DEF Types, SettingsInv
  <2>3. QED
    BY <1>6, <2>2, Assumptions, CSP!UpdatesDiffer
<1>7. /\ CSP!InProgress' => CSP!InProgress
      /\ \A d \in CSP!Captures : d # current => status'[d] = status[d]
  BY <1>1, <1>5 DEF CSP!InProgress, CSP!service, CSP!FailCurrent, CSP!TryComplete,
                    Types, CSP!CalmTypes, CSP!CaptureTypes
<1>8. CSP!InProgress' /\ pendingImage' # CSP!None =>
        \/ CSP!InProgress /\ pendingImage # CSP!None
        \/ u = CSP!Image(current)
  <2>1. pendingImage' = pendingImage \/ u = CSP!Image(current)
    BY <1>1, <1>6 DEF CSP!service, CSP!FailCurrent, CSP!TryComplete
  <2>2. QED
    BY <1>7, <2>1
<1>9. Frozen'
  BY <1>2, <1>5, <1>8, FrozenShifts DEF SettingsInv
<1>10. \A n \in Names : Mirrored(n)'
  BY <1>1, <1>2, MirroredShifts DEF SettingsInv, Tells
<1>11. ASSUME status'[current] = "completed", status[current] # "completed",
              current \in CSP!Captures
       PROVE  used = {mirror}
  <2>1. \/ CSP!InProgress /\ pendingImage # CSP!None
        \/ u = CSP!Image(current)
    <3>1. PICK ok \in BOOLEAN, i \in CSP!Captures \cup {CSP!None} :
            /\ CSP!TryComplete(ok, i)
            /\ i = pendingImage \/ u = CSP!Image(current)
      BY <1>1, <1>6, <1>11 DEF CSP!service, CSP!FailCurrent, Types, CSP!CalmTypes,
                               CSP!CaptureTypes
    <3>2. CSP!Exposing(current) /\ i # CSP!None
      BY <1>11, <3>1 DEF CSP!TryComplete
    <3>3. QED
      BY <3>1, <3>2 DEF CSP!Exposing, CSP!InProgress
  <2>2. used = {taken} /\ Silent(1)
    <3>1. CASE CSP!InProgress /\ pendingImage # CSP!None
      <4>1. used = {taken} /\ Silent(0)
        BY <3>1 DEF SettingsInv, Frozen
      <4>2. QED
        BY <4>1 DEF Silent
    <3>2. CASE u = CSP!Image(current)
      <4>1. 1 \in 1 .. Len(fromDevice) /\ fromDevice[1] = CSP!Image(current)
        BY <1>2, <3>2 DEF Shifted
      <4>2. QED
        BY <4>1 DEF SettingsInv, Frozen
    <3>3. QED
      BY <2>1, <3>1, <3>2
  <2>3. \A i \in 1 .. Len(fromDevice) : ~IsSetting(fromDevice[i])
    <3>1. ~IsSetting(fromDevice[1])
      BY <1>1, <1>2 DEF Shifted
    <3>2. \A i \in 1 .. Len(fromDevice) : i = 1 \/ i \in 1 + 1 .. Len(fromDevice)
      BY <1>2 DEF Shifted
    <3>3. QED
      BY <2>2, <3>1, <3>2 DEF Silent
  <2>4. mirror = taken
    BY <2>3, MirrorIsTaken DEF SettingsInv
  <2>5. QED
    BY <2>2, <2>4
<1>12. SidecarTellsSettings'
  <2> SUFFICES ASSUME NEW c \in Captures, c = current', status'[c] = "completed"
               PROVE  used' = {noted'}
    BY DEF SidecarTellsSettings
  <2>1. c = current /\ current \in CSP!Captures
    BY <1>5, SameQueue
  <2>2. CASE status[c] = "completed"
    <3>1. \A d \in Captures : status'[d] = "completed" => status[d] = "completed"
      BY <1>7, <2>1, <2>2, SameQueue
    <3>2. noted' = noted
      BY <3>1 DEF Noted
    <3>3. QED
      BY <2>1, <2>2, <3>2 DEF SettingsInv, SidecarTellsSettings
  <2>3. CASE status[c] # "completed"
    <3>1. noted' = mirror
      BY <2>3 DEF Noted
    <3>2. QED
      BY <1>11, <2>1, <2>3, <3>1
  <2>4. QED
    BY <2>2, <2>3
<1>13. QED
  BY <1>3, <1>4, <1>9, <1>10, <1>12 DEF SettingsInv

\* A configuration is taken only while nothing is in progress, and what it makes
\* the camera say is the newest about each of the settings that it names.
LEMMA SettingsConfig ==
    ASSUME Types, SettingsInv, NEW order \in Requests, CameraConfig(order)
    PROVE  Types' /\ SettingsInv'
<1> DEFINE sent == [i \in DOMAIN order |-> Settings[order[i]]]
<1>1. PICK n \in Nat : order \in [1 .. n -> DOMAIN Settings]
  BY DEF Requests
<1>2. /\ DOMAIN sent = 1 .. n /\ \A i \in 1 .. n : sent[i] \in Names
      /\ ToSet(sent) = {sent[i] : i \in 1 .. n}
  BY <1>1 DEF Names, ToSet
<1>3. PICK new \in [Names -> Values] :
        /\ \A k \in Names \ ToSet(sent) : new[k] = taken[k]
        /\ taken' = new
        /\ CSP!Emit([i \in DOMAIN sent |-> Said(sent[i], new[sent[i]])])
        /\ used' = IF device = 0 THEN used ELSE used \cup {new}
  BY SameQueue DEF CameraConfig
<1>4. /\ CSP!LoopFree /\ ~CSP!Exposing(current)
      /\ UNCHANGED <<service, starting, aborter, reader, expState, device, devState, link,
                     mirror, noted>>
  BY SameLoop, SameQueue DEF CameraConfig, MayConfigure
<1> HIDE DEF sent
<1>5. PICK s \in Seq(Messages) :
        /\ CSP!Emit(s) /\ Len(s) = n
        /\ \A i \in 1 .. n : s[i] = Said(sent[i], new[sent[i]])
  <2> DEFINE t == [i \in 1 .. n |-> Said(sent[i], new[sent[i]])]
  <2>1. \A i \in 1 .. n : t[i] \in Messages
    BY <1>2 DEF Messages
  <2>2. t \in Seq(Messages) /\ Len(t) = n
    BY <1>1, <2>1, SeqDef, LenProperties
  <2>3. CSP!Emit(t)
    BY <1>2, <1>3
  <2>4. QED
    BY <2>2, <2>3
<1>6. Extended(s) /\ fromDevice' \in Seq(Messages)
  BY <1>5, QueueMoves DEF Types
<1>7. ~CSP!InProgress /\ device = CSP!None /\ CSP!Outstanding = {}
  BY <1>4, Assumptions, CSP!CalmFree DEF Types, SettingsInv
<1>8. CSP!Outstanding' = {}
  <2>1. ASSUME NEW i \in CSP!Outstanding'
        PROVE  FALSE
    <3>1. /\ i - Len(fromDevice) \in 1 .. Len(s)
          /\ CSP!Decisive(s[i - Len(fromDevice)])
      BY <1>5, <1>7, <2>1, Assumptions, CSP!CalmEmitted DEF Types
    <3>2. QED
      BY <1>5, <3>1, MessageKinds
  <2>2. QED
    BY <2>1
<1>9. UNCHANGED <<status, file, current, okReceived, pendingImage, announced, starting,
                  device, link>>
  BY <1>4 DEF service
<1>10. ~CSP!InProgress'
  BY <1>7, <1>9 DEF CSP!InProgress
<1>11. CSP!CalmInv'
  BY <1>7, <1>8, <1>9, <1>10
     DEF SettingsInv, CSP!CalmInv, CSP!OneDecisive, CSP!Story, CSP!Told
<1>12. Types'
  <2>1. CSP!CalmTypes'
    BY <1>9 DEF Types, CSP!CalmTypes, CSP!CaptureTypes
  <2>2. QED
    BY <1>3, <1>4, <1>6, <1>9, <2>1 DEF Types
<1>13. ASSUME NEW k \in Names
       PROVE  Mirrored(k)'
  <2>1. \A i \in 1 .. Len(s) : /\ Tells(s[i], k) <=> sent[i] = k
                               /\ s[i].value = new[sent[i]]
    BY <1>5, MessageKinds DEF Tells
  <2>2. CASE k \in ToSet(sent)
    <3>1. PICK i \in 1 .. n : sent[i] = k
      BY <1>2, <2>2
    <3>2. \E q \in 1 .. Len(s) : Tells(s[q], k)
      BY <1>5, <2>1, <3>1
    <3>3. \A q \in 1 .. Len(s) : Tells(s[q], k) => s[q].value = taken'[k]
      BY <1>3, <2>1
    <3>4. QED
      BY <1>4, <1>6, <3>2, <3>3, MirroredExtends DEF SettingsInv
  <2>3. CASE k \notin ToSet(sent)
    <3>1. \A q \in 1 .. Len(s) : ~Tells(s[q], k)
      BY <1>2, <1>5, <2>1, <2>3
    <3>2. taken'[k] = taken[k]
      BY <1>3, <2>3
    <3>3. QED
      BY <1>4, <1>6, <3>1, <3>2, MirroredExtends DEF SettingsInv
  <2>4. QED
    BY <2>2, <2>3
<1>14. Frozen'
  <2>1. ASSUME NEW i \in 1 .. Len(fromDevice'), fromDevice'[i] = CSP!Image(current')
        PROVE  used' = {taken'} /\ Silent(i)'
    <3>1. CASE i <= Len(fromDevice)
      <4>1. i \in 1 .. Len(fromDevice) /\ fromDevice[i] = CSP!Image(current)
        BY <1>6, <1>9, <2>1, <3>1 DEF Extended
      <4>2. fromDevice[i] \in Messages
        BY <4>1, ElementOfSeq DEF Types
      <4>3. current \in CSP!Captures
        BY <4>1, <4>2, ImagesOfCaptures
      <4>4. QED
        BY <1>7, <4>1, <4>3, ImageOutstanding
    <3>2. CASE i > Len(fromDevice)
      <4>1. i - Len(fromDevice) \in 1 .. n
            /\ Len(fromDevice) + (i - Len(fromDevice)) = i
        BY <1>5, <1>6, <3>2 DEF Extended
      <4>2. fromDevice'[i] = s[i - Len(fromDevice)]
        BY <1>5, <1>6, <4>1 DEF Extended
      <4>3. QED
        <5>1. IsSetting(s[i - Len(fromDevice)])
          BY <1>5, <4>1, MessageKinds
        <5>2. ~IsSetting(fromDevice'[i])
          BY <2>1, MessageKinds
        <5>3. QED
          BY <4>2, <5>1, <5>2
    <3>3. QED
      BY <1>6, <3>1, <3>2 DEF Extended
  <2>2. QED
    BY <1>7, <1>9, <1>10, <2>1 DEF Frozen
<1>15. SidecarTellsSettings'
  BY <1>3, <1>4, <1>7, <1>9, NotedStays DEF SettingsInv, CSP!None
<1>16. QED
  BY <1>11, <1>12, <1>13, <1>14, <1>15 DEF SettingsInv

LEMMA SettingsInit == Init => Types /\ SettingsInv
<1> SUFFICES ASSUME Init
             PROVE  Types /\ SettingsInv
  OBVIOUS
<1>1. CSP!Init
  BY SameStarts DEF Init
<1>2. CSP!TypeOK /\ CSP!CalmInv
  BY <1>1, Assumptions, CSP!TypeInit, CSP!CalmInit
<1>3. fromDevice \in Seq(Messages) /\ Len(fromDevice) = 0
  BY <1>1, EmptySeq DEF CSP!Init
<1>4. Types
  BY <1>2, <1>3, Assumptions, CSP!TypeOKCalm DEF Init, Types, CSP!TypeOK
<1>5. \A n \in Names : Mirrored(n)
  BY <1>3 DEF Mirrored, Init
<1>6. Frozen
  BY <1>1, <1>3 DEF Frozen, CSP!Init
<1>7. SidecarTellsSettings
  BY <1>1, SameQueue DEF SidecarTellsSettings, CSP!Init
<1>8. QED
  BY <1>2, <1>4, <1>5, <1>6, <1>7 DEF SettingsInv

LEMMA SettingsStep == Types /\ SettingsInv /\ [Next]_vars => Types' /\ SettingsInv'
<1> SUFFICES ASSUME Types, SettingsInv, [Next]_vars
             PROVE  Types' /\ SettingsInv'
  OBVIOUS
<1>1. CASE ExposureStart
  BY <1>1, SettingsStart
<1>2. ASSUME NEW c \in Captures, StartReturns(c)
      PROVE  Types' /\ SettingsInv'
  BY <1>2, SettingsReturns
<1>3. ASSUME NEW order \in Requests, CameraConfig(order)
      PROVE  Types' /\ SettingsInv'
  BY <1>3, SettingsConfig
<1>4. CASE Read
  BY <1>4, SettingsHeard, SettingsRead, SameReader DEF Read
<1>5. CASE ReaderPublished
  BY <1>5, SettingsPublished
<1>6. CASE Camera
  BY <1>6, SettingsCamera
<1>7. CASE UNCHANGED vars
  BY <1>7, SettingsStutter
<1>8. QED
  BY <1>1, <1>2, <1>3, <1>4, <1>5, <1>6, <1>7 DEF Next

LEMMA SettingsAlways == Spec => [](Types /\ SettingsInv)
BY SettingsInit, SettingsStep, PTL DEF Spec

\* The metadata in the sidecar of a completed capture are the settings with which
\* the camera made its exposure, although they are the mirror's when the image is
\* handled (capture_service.py), whatever is configured before, between and after
\* the exposures, and whichever settings the camera refuses.
THEOREM SidecarIsTrue == Spec => []SidecarTellsSettings
<1>1. SettingsInv => SidecarTellsSettings
  BY DEF SettingsInv
<1>2. QED
  BY <1>1, SettingsAlways, PTL

\* Configurations do not disturb the exposures: they are made one after the other,
\* each announced once when it starts and once when it ends, with its own image or
\* none.  That each one ends is left to the model checker.
THEOREM SettingsKeepExposures == Spec => CSP!Promise!ESafety
<1>1. Init => CSP!Promise!EInit
  BY Assumptions, SameStarts, CSP!PromiseInit DEF Init
<1>2. ASSUME Types, SettingsInv, [Next]_vars
      PROVE  [CSP!Promise!ENext]_(CSP!Promise!exposureVars)
  <2>1. \/ CSP!StartExposure \/ CSP!Read \/ \E c \in CSP!Captures : CSP!StartReturns(c)
        \/ UNCHANGED <<status, file, announced>>
    BY <1>2, SameStarts, SameReader, SameCamera, SameQueue
       DEF Next, ExposureStart, StartReturns, CameraConfig, Read, ReadSetting,
           ReaderPublished, Camera, vars, captureVars, service,
           CSP!ReaderPublished, CSP!DeviceFinishes, CSP!DeviceFails, CSP!service
  <2>2. QED
    BY <1>2, <2>1, Assumptions, CSP!PromiseMoves DEF Types, SettingsInv
<1>3. Types /\ SettingsInv /\ [Next]_vars
        => [CSP!Promise!ENext]_(CSP!Promise!exposureVars)
  BY <1>2
<1>4. QED
  BY <1>1, <1>3, SettingsAlways, PTL DEF Spec, CSP!Promise!ESafety
=============================================================================
