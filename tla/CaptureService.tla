--------------------------- MODULE CaptureService ---------------------------
(***************************************************************************)
(* The life of an exposure: CaptureService                                 *)
(* (application/services/capture_service.py) over Capture                  *)
(* (domain/models/capture.py), driven from two sides.  HTTP requests start *)
(* and abort exposures; the one read-loop task of the INDIGO client hands  *)
(* the camera's updates to the adapter's _on_property_updated, which calls *)
(* the service's handlers, one update at a time.                           *)
(*                                                                         *)
(* All of it is one event loop, so a handler is atomic up to an await that *)
(* suspends: StreamWriter.drain inside a camera command (SendSuspends) and *)
(* event_publisher.publish under a slow WebSocket (PublishSuspends).       *)
(* write_sidecar and the FITS validator never suspend.                     *)
(*                                                                         *)
(* The INDIGO server is outside the repository.  It is modelled from how   *)
(* the code uses it: commands reach it in order, its updates arrive in     *)
(* order through fromDevice, it ignores an exposure command while busy and *)
(* answers an abort of a running exposure with CCD_EXPOSURE = Alert.       *)
(* The lease check in front of start and abort is modelled elsewhere; here *)
(* every caller holds the lease.  Whether the sidecar and the validation   *)
(* succeed does not change the life of the capture and is left out.        *)
(***************************************************************************)
EXTENDS Integers, Sequences

CONSTANTS
    MaxCaptures,     \* bound: exposures started in a run
    MaxInFlight,     \* bound: updates between the server and the read loop
    Aborters,        \* the HTTP abort requests that may be in flight
    SendSuspends,    \* may drain suspend the sender of a command?
    PublishSuspends, \* may publish suspend its caller?
    LinkDrops,       \* may the TCP connection to INDIGO be lost?
    ImagesVisible,   \* does every image path exist in the service's container?
    DeviceRejects    \* may the camera answer a start with Alert at once?

ASSUME BoundsAssumption == MaxCaptures \in Nat \ {0} /\ MaxInFlight \in Nat \ {0}
ASSUME FlagsAssumption ==
    {SendSuspends, PublishSuspends, LinkDrops, ImagesVisible, DeviceRejects}
        \subseteq BOOLEAN

VARIABLES
    \* CaptureService and its Capture objects
    status,        \* Capture.status of every capture
    file,          \* Capture.file_path: the capture whose exposure made the file
    current,       \* _current_capture, always the newest (0: None)
    okReceived,    \* _exposure_ok_received
    pendingImage,  \* _pending_image_path (0: None)
    announced,     \* the capture.* events published about each capture
    \* the tasks
    starting,      \* start_exposure calls suspended in the camera command
    aborter,       \* abort_exposure calls and where they are suspended
    reader,        \* the read loop: idle, or inside a handler's publish
    \* the adapter's cache, the link and the camera
    expState,      \* IndigoCameraAdapter._exposure_state
    fromDevice,    \* updates sent by the server and not yet read
    device,        \* the capture the camera is exposing (0: none)
    devState,      \* the state of CCD_EXPOSURE at the server
    link           \* the TCP connection

service == <<status, file, current, okReceived, pendingImage, announced>>
camera == <<fromDevice, device, devState, link>>
vars == <<status, file, current, okReceived, pendingImage, announced,
          starting, aborter, reader, expState, fromDevice, device, devState, link>>

Captures == 1..MaxCaptures
None == 0

CaptureStatus == {"unborn", "pending", "exposing", "completed", "failed", "aborted"}
Terminal == {"completed", "failed", "aborted"}
PropertyStates == {"idle", "busy", "ok", "alert"}

Set(s) == [kind |-> "set", state |-> s]      \* setNumberVector CCD_EXPOSURE
Def(s) == [kind |-> "def", state |-> s]      \* defNumberVector CCD_EXPOSURE
Image(c) == [kind |-> "image", of |-> c]     \* setTextVector CCD_IMAGE_FILE

Updates == [kind : {"set", "def"}, state : PropertyStates]
           \cup [kind : {"image"}, of : Captures]

\* A camera command is suspended in drain; if the link broke meanwhile it may
\* still return (a half-closed socket accepts the bytes) or raise.
SendStages == {"no", "draining", "broken"}

TypeOK ==
    /\ status \in [Captures -> CaptureStatus]
    /\ file \in [Captures -> Captures \cup {None}]
    /\ current \in Captures \cup {None}
    /\ okReceived \in BOOLEAN
    /\ pendingImage \in Captures \cup {None}
    /\ announced \in [Captures -> SUBSET (Terminal \cup {"started"})]
    /\ starting \in [Captures -> SendStages]
    /\ aborter \in [Aborters -> SendStages \cup {"publishing"}]
    /\ reader \in {"idle", "publishing"}
    /\ expState \in PropertyStates
    /\ fromDevice \in Seq(Updates) /\ Len(fromDevice) <= MaxInFlight
    /\ device \in Captures \cup {None}
    /\ devState \in PropertyStates
    /\ link \in {"up", "down"}

-----------------------------------------------------------------------------
\* A task that sits at an await which does not suspend is still running, and
\* no other task can be.
StartRuns(c) == ~SendSuspends /\ starting[c] # "no"
AbortRuns(a) == \/ ~SendSuspends /\ aborter[a] \in {"draining", "broken"}
                \/ ~PublishSuspends /\ aborter[a] = "publishing"
ReaderRuns == ~PublishSuspends /\ reader = "publishing"

LoopFree == /\ \A c \in Captures : ~StartRuns(c)
            /\ \A a \in Aborters : ~AbortRuns(a)
            /\ ~ReaderRuns
MayRunStart(c) == LoopFree \/ StartRuns(c)
MayRunAbort(a) == LoopFree \/ AbortRuns(a)
MayRunReader == LoopFree \/ ReaderRuns

\* Mutant of Exposing: a capture whose start command is under way counts.
ExposingOrPending(c) == c # None /\ status[c] \in {"pending", "exposing"}

Exposing(c) == c # None /\ status[c] = "exposing"

\* The flags that a start, an aborted and a finished exposure reset.
\* Mutant of ClearFlags: the image path survives.
ClearOkOnly == okReceived' = FALSE /\ UNCHANGED pendingImage

ClearFlags == okReceived' = FALSE /\ pendingImage' = None

\* Mutant of MayStart: nothing keeps a second exposure out.
MayAlwaysStart == TRUE

MayStart == ~Exposing(current)

Announce(c, event) == [announced EXCEPT ![c] = @ \cup {event}]

SendStage == IF link = "up" THEN "draining" ELSE "broken"

Emit(updates) == /\ Len(fromDevice) + Len(updates) <= MaxInFlight
                 /\ fromDevice' = fromDevice \o updates

Init ==
    /\ status = [c \in Captures |-> "unborn"]
    /\ file = [c \in Captures |-> None]
    /\ current = None
    /\ okReceived = FALSE
    /\ pendingImage = None
    /\ announced = [c \in Captures |-> {}]
    /\ starting = [c \in Captures |-> "no"]
    /\ aborter = [a \in Aborters |-> "no"]
    /\ reader = "idle"
    /\ expState = "idle"
    /\ fromDevice = <<>>
    /\ device = None
    /\ devState = "idle"
    /\ link = "up"

-----------------------------------------------------------------------------
(* The camera. *)

\* CCD_EXPOSURE arrives at the server, on behalf of capture c.
DeviceStart(c) ==
    \/ /\ link = "up" /\ device = None
       /\ device' = c /\ devState' = "busy"
       /\ Emit(<<Set("busy")>>)
    \/ /\ DeviceRejects /\ link = "up" /\ device = None
       /\ devState' = "alert"
       /\ Emit(<<Set("alert")>>)
       /\ UNCHANGED device
    \/ /\ link = "down" \/ device # None
       /\ UNCHANGED <<device, devState, fromDevice>>

\* CCD_ABORT_EXPOSURE arrives at the server.
DeviceAbort ==
    IF link = "up" /\ device # None
    THEN /\ device' = None /\ devState' = "alert"
         /\ Emit(<<Set("alert")>>)
    ELSE UNCHANGED <<device, devState, fromDevice>>

\* What the server sends is lost while the service is not connected.
EmitIfUp(updates) == IF link = "up" THEN Emit(updates) ELSE UNCHANGED fromDevice

DeviceFinishes ==
    /\ device # None
    /\ \E updates \in {<<Image(device), Set("ok")>>, <<Set("ok"), Image(device)>>} :
           EmitIfUp(updates)
    /\ device' = None
    /\ devState' = "ok"
    /\ UNCHANGED <<service, starting, aborter, reader, expState, link>>

DeviceFails ==
    /\ device # None
    /\ EmitIfUp(<<Set("alert")>>)
    /\ device' = None
    /\ devState' = "alert"
    /\ UNCHANGED <<service, starting, aborter, reader, expState, link>>

\* The connection is lost; a prefix of what was under way has still arrived.
LinkLost ==
    /\ LinkDrops
    /\ link = "up"
    /\ link' = "down"
    /\ \E n \in 0..Len(fromDevice) : fromDevice' = SubSeq(fromDevice, 1, n)
    /\ starting' = [c \in Captures |->
                       IF starting[c] = "draining" THEN "broken" ELSE starting[c]]
    /\ aborter' = [a \in Aborters |->
                       IF aborter[a] = "draining" THEN "broken" ELSE aborter[a]]
    /\ UNCHANGED <<service, reader, expState, device, devState>>

\* The read loop has ended and a new connection answers getProperties.
LinkRestored ==
    /\ link = "down"
    /\ reader = "idle"
    /\ fromDevice = <<>>
    /\ link' = "up"
    /\ fromDevice' = <<Def(devState)>>
    /\ UNCHANGED <<service, starting, aborter, reader, expState, device, devState>>

-----------------------------------------------------------------------------
(* HTTP requests. *)

\* start_exposure up to and including the camera command.  Only an EXPOSING
\* capture keeps it out.
StartExposure ==
    /\ LoopFree
    /\ MayStart
    /\ current < MaxCaptures
    /\ LET c == current + 1
       IN  /\ current' = c
           /\ status' = [status EXCEPT ![c] = "pending"]
           /\ starting' = [starting EXCEPT ![c] = SendStage]
           /\ DeviceStart(c)
    /\ ClearFlags
    /\ UNCHANGED <<file, announced, aborter, reader, expState, link>>

\* The command returns: mark_as_exposing whatever the status is by now, and
\* publish capture.started.  Nothing is written after that publish.
StartReturns(c) ==
    /\ MayRunStart(c)
    /\ starting[c] # "no"
    /\ starting' = [starting EXCEPT ![c] = "no"]
    /\ status' = [status EXCEPT ![c] = "exposing"]
    /\ announced' = Announce(c, "started")
    /\ UNCHANGED <<file, current, okReceived, pendingImage, aborter, reader,
                   expState, camera>>

\* The command raises: the capture fails and nothing is published.
StartRaises(c) ==
    /\ MayRunStart(c)
    /\ starting[c] = "broken"
    /\ starting' = [starting EXCEPT ![c] = "no"]
    /\ status' = [status EXCEPT ![c] = "failed"]
    /\ UNCHANGED <<file, current, okReceived, pendingImage, announced, aborter,
                   reader, expState, camera>>

\* abort_exposure up to and including the camera command.
AbortExposure(a) ==
    /\ LoopFree
    /\ aborter[a] = "no"
    /\ Exposing(current)
    /\ aborter' = [aborter EXCEPT ![a] = SendStage]
    /\ DeviceAbort
    /\ UNCHANGED <<service, starting, reader, expState, link>>

\* The command returns: the capture that is current by now is marked aborted.
AbortReturns(a) ==
    /\ MayRunAbort(a)
    /\ aborter[a] \in {"draining", "broken"}
    /\ aborter' = [aborter EXCEPT ![a] = "publishing"]
    /\ status' = [status EXCEPT ![current] = "aborted"]
    /\ announced' = Announce(current, "aborted")
    /\ UNCHANGED <<file, current, okReceived, pendingImage, starting, reader,
                   expState, camera>>

\* The command raises: the request answers 500 and nothing has changed.
AbortRaises(a) ==
    /\ MayRunAbort(a)
    /\ aborter[a] = "broken"
    /\ aborter' = [aborter EXCEPT ![a] = "no"]
    /\ UNCHANGED <<service, starting, reader, expState, camera>>

\* publish("capture.aborted") returns and the two flags are cleared.
AbortPublished(a) ==
    /\ MayRunAbort(a)
    /\ aborter[a] = "publishing"
    /\ aborter' = [aborter EXCEPT ![a] = "no"]
    /\ ClearFlags
    /\ UNCHANGED <<status, file, current, announced, starting, reader,
                   expState, camera>>

-----------------------------------------------------------------------------
(* The read loop. *)

\* Mutant of Receive: every update is handled in a task of its own, so one is
\* read while the handler of another is suspended.
ReceiveConcurrently(update) ==
    /\ LoopFree
    /\ fromDevice # <<>>
    /\ Head(fromDevice) = update
    /\ fromDevice' = Tail(fromDevice)
    /\ UNCHANGED <<starting, aborter, device, devState, link>>

Receive(update) ==
    /\ LoopFree
    /\ reader = "idle"
    /\ fromDevice # <<>>
    /\ Head(fromDevice) = update
    /\ fromDevice' = Tail(fromDevice)
    /\ UNCHANGED <<starting, aborter, device, devState, link>>

\* handle_exposure_failed: whatever the status of the current capture.
FailCurrent ==
    IF current = None
    THEN UNCHANGED <<service, reader>>
    ELSE /\ status' = [status EXCEPT ![current] = "failed"]
         /\ announced' = Announce(current, "failed")
         /\ reader' = "publishing"
         /\ UNCHANGED <<file, current, okReceived, pendingImage>>

\* Mutant of TryComplete: the image is not waited for.
TryCompleteWithoutImage(ok, image) ==
    /\ okReceived' = ok
    /\ pendingImage' = image
    /\ UNCHANGED current
    /\ IF Exposing(current) /\ ok
       THEN /\ status' = [status EXCEPT ![current] = "completed"]
            /\ file' = [file EXCEPT ![current] = image]
            /\ announced' = Announce(current, "completed")
            /\ reader' = "publishing"
       ELSE UNCHANGED <<status, file, announced, reader>>

\* _try_complete_capture and handle_exposure_complete with the flags as given.
TryComplete(ok, image) ==
    /\ okReceived' = ok
    /\ pendingImage' = image
    /\ UNCHANGED current
    /\ IF Exposing(current) /\ ok /\ image # None
       THEN /\ status' = [status EXCEPT ![current] = "completed"]
            /\ file' = [file EXCEPT ![current] = image]
            /\ announced' = Announce(current, "completed")
            /\ reader' = "publishing"
       ELSE UNCHANGED <<status, file, announced, reader>>

\* Mutant of ReadDefinition: as nobody is notified, the cache is left alone too.
ReadDefinitionIgnored ==
    \E s \in PropertyStates :
        /\ Receive(Def(s))
        /\ UNCHANGED <<service, reader, expState>>

\* A definition (after a reconnect) goes to the cache without a notification.
ReadDefinition ==
    \E s \in PropertyStates :
        /\ Receive(Def(s))
        /\ expState' = s
        /\ UNCHANGED <<service, reader>>

\* An update that does not change the cached state, or that is neither an alert
\* nor the end of a Busy period.
ReadUnremarkable ==
    \E s \in PropertyStates :
        /\ Receive(Set(s))
        /\ \/ s = expState
           \/ s # "alert" /\ <<expState, s>> # <<"busy", "ok">>
        /\ expState' = s
        /\ UNCHANGED <<service, reader>>

ReadAlert ==
    /\ Receive(Set("alert"))
    /\ expState # "alert"
    /\ expState' = "alert"
    /\ FailCurrent

ReadOk ==
    /\ Receive(Set("ok"))
    /\ expState = "busy"
    /\ expState' = "ok"
    /\ TryComplete(TRUE, pendingImage)

\* Mutant of ReadImage: the path is recorded but completion is not tried.
ReadImageOnlyRecords ==
    \E c \in Captures :
        /\ Receive(Image(c))
        /\ pendingImage' = c
        /\ UNCHANGED <<status, file, current, okReceived, announced, reader, expState>>

ReadImage ==
    \E c \in Captures :
        /\ Receive(Image(c))
        /\ TryComplete(okReceived, c)
        /\ UNCHANGED expState

\* The adapter drops an image path that is not a file here.
ReadInvisibleImage ==
    \E c \in Captures :
        /\ ~ImagesVisible
        /\ Receive(Image(c))
        /\ UNCHANGED <<service, reader, expState>>

\* The file vanishes between the adapter's check and the service's.
ReadVanishedImage ==
    \E c \in Captures :
        /\ ~ImagesVisible
        /\ Receive(Image(c))
        /\ FailCurrent
        /\ UNCHANGED expState

\* publish("capture.completed" or "capture.failed") returns to the handler.
ReaderPublished ==
    /\ MayRunReader
    /\ reader = "publishing"
    /\ reader' = "idle"
    /\ ClearFlags
    /\ UNCHANGED <<status, file, current, announced, starting, aborter,
                   expState, camera>>

-----------------------------------------------------------------------------
Read == \/ ReadDefinition \/ ReadUnremarkable \/ ReadAlert \/ ReadOk
        \/ ReadImage \/ ReadInvisibleImage \/ ReadVanishedImage

Next ==
    \/ StartExposure
    \/ \E c \in Captures : StartReturns(c) \/ StartRaises(c)
    \/ \E a \in Aborters : \/ AbortExposure(a) \/ AbortReturns(a)
                           \/ AbortRaises(a) \/ AbortPublished(a)
    \/ Read
    \/ ReaderPublished
    \/ DeviceFinishes \/ DeviceFails \/ LinkLost \/ LinkRestored

Spec == Init /\ [][Next]_vars

\* The event loop resumes every task whose await is done and keeps reading, the
\* camera ends every exposure, and a lost link is retried until it is back
\* (_reconnect_loop never gives up).  Nothing is assumed of the HTTP clients.
FairSpec ==
    /\ Spec
    /\ \A c \in Captures : WF_vars(StartReturns(c) \/ StartRaises(c))
    /\ \A a \in Aborters : /\ WF_vars(AbortReturns(a) \/ AbortRaises(a))
                           /\ WF_vars(AbortPublished(a))
    /\ WF_vars(Read)
    /\ WF_vars(ReaderPublished)
    /\ WF_vars(DeviceFinishes \/ DeviceFails)
    /\ WF_vars(LinkRestored)

-----------------------------------------------------------------------------
\* "Cannot start if exposure in progress": at most one capture has been started
\* and has no outcome yet.
OneExposure ==
    \A c, d \in Captures :
        status[c] \in {"pending", "exposing"} /\ status[d] \in {"pending", "exposing"}
        => c = d

\* The WebSocket clients and the metrics are told one outcome per exposure.
OneOutcome ==
    \A c \in Captures : \A e, f \in announced[c] \cap Terminal : e = f

\* A completed capture carries the image of its own exposure, so the sidecar
\* beside that image describes it.
OwnImage == \A c \in Captures : status[c] = "completed" => file[c] = c

\* Whatever is interleaved, no image is given to two captures, and none to a
\* capture older than the exposure that made it.
ImagesInOrder ==
    \A c, d \in Captures :
        /\ file[c] <= c
        /\ c < d /\ file[c] # None /\ file[d] # None => file[c] < file[d]

\* A capture that has been announced completed is never exposing again: its
\* outcome may be rewritten (an abort or an alert), but it does not come back.
CompletedNeverExposesAgain ==
    \A c \in Captures : "completed" \in announced[c] =>
        status[c] \in Terminal /\ starting[c] = "no"

\* The flags cleared after a handler's publish held nothing of a newer capture:
\* the read loop is still inside the handler, so nobody could have set them.
\* (A capture failed while its start was suspended and exposing ever since is
\* not newer than the handler.)
ReaderResetLosesNothing ==
    reader = "publishing" /\ Exposing(current) /\ "failed" \notin announced[current]
        => ~okReceived /\ pendingImage = None

\* Only a change of the cached exposure state is notified.  So when everything has
\* been read, the cached state is the server's, whatever was lost, aborted, rejected
\* or defined anew; and it is busy while the camera exposes, so that the Ok or the
\* Alert that ends the exposure will be a change, and the service will hear of it.
EndWillBeNotified ==
    link = "up" /\ fromDevice = <<>> =>
        /\ expState = devState
        /\ device # None => expState = "busy"

\* Every exposure comes to an outcome: the service does not wait for ever on an
\* update that was lost, dropped or meant for another capture.  A link that keeps
\* breaking for ever excuses it.
ExposureEnds ==
    <>[](link = "up") =>
        \A c \in Captures :
            status[c] \in {"pending", "exposing"} ~> status[c] \in Terminal

\* A capture whose start command is under way has not begun.
Phase(c) == IF status[c] \in {"unborn", "pending"} THEN "new" ELSE status[c]

Promise == INSTANCE Exposure
    WITH phase <- [c \in Captures |-> Phase(c)], image <- file, told <- announced

\* Without aborts and over a link that holds, however slow the WebSockets are,
\* the two notifications in either order, the flags they leave and the suspended
\* handlers amount to this: exposures one after the other, each announced once
\* when it starts and once when it ends, with its own image, and each ending.
KeepsExposure == Promise!ESpec
=============================================================================
