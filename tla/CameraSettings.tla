--------------------------- MODULE CameraSettings ---------------------------
(***************************************************************************)
(* What the sidecars say of gain, offset, binning and region: the config   *)
(* route and set_config of the adapter, the camera that takes each setting *)
(* or refuses it and says so, the adapter's mirror, and the life of the    *)
(* exposures (CaptureService).                                             *)
(*                                                                         *)
(* The metadata of an image are not taken from the request, nor noted when *)
(* the exposure starts: they are the mirror's when the image is handled.   *)
(* So what keeps them true is the guard of the route, the order of the     *)
(* camera's messages and that the read loop handles one at a time.         *)
(*                                                                         *)
(* The model begins when the definitions that follow the handshake have    *)
(* been read.  Nobody aborts, the link holds and takes commands at once,   *)
(* so that a request is one step, and no other client of the INDIGO server *)
(* changes the settings.                                                   *)
(***************************************************************************)
EXTENDS Integers, Sequences, SequencesExt

CONSTANTS
    Settings,   \* the settings, in the order in which set_config sends them
    Values,     \* what each can be set to
    MaxCaptures, MaxInFlight, PublishSuspends, ImagesVisible, DeviceRejects
                \* see CaptureService

ASSUME BoundsAssumption == MaxCaptures \in Nat \ {0} /\ MaxInFlight \in Nat \ {0}
ASSUME FlagsAssumption == {PublishSuspends, ImagesVisible, DeviceRejects} \subseteq BOOLEAN
ASSUME SettingsAssumption == Settings \in Seq(STRING)

VARIABLES
    status, file, current, okReceived, pendingImage, announced, starting,
    aborter, reader, expState, fromDevice, device, devState, link,
               \* see CaptureService
    taken,     \* the camera's settings
    mirror,    \* the adapter's _gain, _offset, _bin_x, _bin_y, _roi
    used,      \* history: the settings that the camera had in its last exposure
    noted      \* the settings in the last sidecar

Capture == INSTANCE CaptureService
    WITH Aborters <- {}, LinkDrops <- FALSE, SendSuspends <- FALSE

service == <<status, file, current, okReceived, pendingImage, announced>>
captureVars == <<service, starting, aborter, reader, expState, fromDevice,
                 device, devState, link>>
vars == <<captureVars, taken, mirror, used, noted>>

Captures == 1 .. MaxCaptures
Names == ToSet(Settings)

\* What a request to configure names: the positions of some of the settings, in
\* the order in which set_config sends them.
Requests ==
    {order \in UNION {[1 .. n -> DOMAIN Settings] : n \in 1 .. Len(Settings)} :
        \A i, j \in DOMAIN order : i < j => order[i] < order[j]}

\* setNumberVector of CCD_GAIN, CCD_OFFSET, CCD_BIN or CCD_FRAME.
Said(n, v) == [kind |-> "setting", name |-> n, value |-> v]

Init ==
    /\ Capture!Init
    /\ taken \in [Names -> Values]
    /\ mirror = taken
    /\ used = {} /\ noted = taken

-----------------------------------------------------------------------------
ExposureStart ==
    /\ Capture!StartExposure
    /\ used' = IF device' = device THEN used ELSE {taken}
    /\ UNCHANGED <<taken, mirror, noted>>

StartReturns(c) ==
    /\ Capture!StartReturns(c)
    /\ UNCHANGED <<taken, mirror, used, noted>>

\* Mutant of MayConfigure: the guard of the route is not there.
AlwaysMayConfigure == TRUE

\* The guard of the config route.
MayConfigure == ~Capture!Exposing(current)

\* The config route: set_config sends those of the settings that the request
\* names; the camera takes each, or leaves it as it is, and says what it is.
CameraConfig(order) ==
    LET sent == [i \in DOMAIN order |-> Settings[order[i]]]
    IN  /\ Capture!LoopFree /\ MayConfigure
        /\ \E new \in [Names -> Values] :
             /\ \A n \in Names \ ToSet(sent) : new[n] = taken[n]
             /\ taken' = new
             /\ Capture!Emit([i \in DOMAIN sent |-> Said(sent[i], new[sent[i]])])
             /\ used' = IF device = 0 THEN used ELSE used \cup {new}
    /\ UNCHANGED <<service, starting, aborter, reader, expState, device,
                   devState, link, mirror, noted>>

\* _apply_property_to_cache: the adapter takes over what the camera says.
ReadSetting ==
    \E n \in Names, v \in Values :
        /\ Capture!Receive(Said(n, v))
        /\ mirror' = [mirror EXCEPT ![n] = v]
        /\ UNCHANGED <<service, reader, expState, taken, used, noted>>

\* handle_exposure_complete writes the sidecar before it completes the capture.
Noted ==
    noted' = IF \E c \in Captures : status'[c] = "completed" /\ status[c] # "completed"
             THEN mirror ELSE noted

Read ==
    \/ ReadSetting
    \/ Capture!Read /\ Noted /\ UNCHANGED <<taken, mirror, used>>

ReaderPublished ==
    /\ Capture!ReaderPublished
    /\ UNCHANGED <<taken, mirror, used, noted>>

\* The end of an exposure in the camera (external).
Camera ==
    /\ Capture!DeviceFinishes \/ Capture!DeviceFails
    /\ UNCHANGED <<taken, mirror, used, noted>>

Next ==
    \/ ExposureStart
    \/ \E c \in Captures : StartReturns(c)
    \/ \E order \in Requests : CameraConfig(order)
    \/ Read \/ ReaderPublished \/ Camera

\* As in CaptureService.
Fairness ==
    /\ \A c \in Captures : WF_vars(StartReturns(c))
    /\ WF_vars(Read) /\ WF_vars(ReaderPublished) /\ WF_vars(Camera)

Spec == Init /\ [][Next]_vars /\ Fairness

-----------------------------------------------------------------------------
(* Properties *)

\* The sidecar of a capture tells the settings with which the camera made the
\* exposure, which did not change meanwhile, however many configurations were
\* asked for before, between and after, and whichever of them the camera refused.
SidecarTellsSettings ==
    \A c \in Captures : c = current /\ status[c] = "completed" => used = {noted}

\* The exposures go on as Exposure has it, whatever is configured meanwhile.
KeepsExposure == Capture!KeepsExposure
=============================================================================
